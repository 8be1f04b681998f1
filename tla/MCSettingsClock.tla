-------------------------- MODULE MCSettingsClock --------------------------
(* Two offsets far enough apart to change the day, instants on the leap    *)
(* day and at the end of a month of 2000, an entry in the last century of  *)
(* UTC and one that is no date.                                            *)
EXTENDS SettingsClock

MCOffsets == {0, 840}
MCNetworks == {<<"home", "pass">>, <<"home", "absent">>, <<"", "">>, <<"work", "short">>}
MCInstants == {DaysFromCivil(2000, 2, 29) * MinutesPerDay + 60,
               DaysFromCivil(2000, 1, 31) * MinutesPerDay + 720}
MCEntries == {[year |-> 2000, month |-> 1, day |-> 1, hour |-> 0, minute |-> 30],
              [year |-> 2023, month |-> 2, day |-> 29, hour |-> 0, minute |-> 0]}
=============================================================================
