-------------------------- MODULE MCPackageSession --------------------------
EXTENDS PackageSession
=============================================================================
