------------------------- MODULE ShellNavigationProofs -------------------------
(***************************************************************************)
(* For every set of catalogs, every number of zones and of rows of a       *)
(* diagnostic report: the selection is on a row of its screen and in its   *)
(* window, the stack is a path of the menu, the watch sleeps with the      *)
(* screen the shell believes in, and no package runs before the boot work. *)
(*                                                                         *)
(* None of them is inductive.  What Back returns to was left long before:  *)
(* every frame of the stack must be known to fit, to stand at its depth    *)
(* and to be reached from the one below it, and no catalog may change      *)
(* under a frame that lists it.                                            *)
(***************************************************************************)
EXTENDS ShellNavigation, SequenceTheorems, TLAPS

Screens ==
  {"watchface", "launcher", "safeMode", "settings", "selector", "packageApps", "timezone",
   "manualTime", "ntpSync", "connectivity", "packagePortal", "diagnostics", "about", "error"}

(* The screens that show the catalog, and those of safe mode.              *)
Listings == {"selector", "packageApps"}
SafeScreens == {"watchface", "safeMode", "diagnostics", "packageApps", "error"}

Queued ==
  {"none", "adjustTime", "saveSettings", "saveTimezone", "saveManualTime", "syncNtp",
   "startPortal", "removePackage", "purgePackages", "runPackage", "selectBuiltin",
   "selectWatchface", "normalReboot"}

Frame == [screen : Screens, sel : Nat, view : Nat]

Known == Catalogs \cup {Unlisted}

ShellRecord ==
  [screen : Screens, sel : Nat, view : Nat, history : Seq(Frame), back : Screens,
   catalog : Known, safe : BOOLEAN, editing : BOOLEAN, action : Queued, sleep : BOOLEAN]

-----------------------------------------------------------------------------
(* How deep a screen can be below the root of its path.                    *)
Level(screen) ==
  CASE screen = "watchface"                              -> 0
    [] screen \in {"launcher", "safeMode"}               -> 1
    [] screen \in {"settings", "selector", "packageApps"} -> 2
    [] screen = "error"                                  -> 4
    [] OTHER                                             -> 3

Roots(safe) == {"watchface", IF safe THEN "safeMode" ELSE "settings"}

Follows(screen, next) ==
  next = "error" \/ (screen \in DOMAIN Children /\ next \in Children[screen])

Allowed(screen, safe) == safe => screen \in SafeScreens

(* The rows of a screen depend on the mode and the catalog alone.          *)
Rows(screen, safe, catalog) ==
  ItemCount([screen |-> screen, safe |-> safe, catalog |-> catalog])

Fits(f, safe, catalog) ==
  /\ f.sel < Rows(f.screen, safe, catalog)
  /\ f.view <= f.sel /\ f.sel < f.view + VisibleRows

FrameSound(f, i, safe, catalog) ==
  /\ f.screen # "error" /\ Allowed(f.screen, safe)
  /\ i <= Level(f.screen) + 1
  /\ Fits(f, safe, catalog)

FramesSound(h, safe, catalog) ==
  /\ \A i \in 1..Len(h) : FrameSound(h[i], i, safe, catalog)
  /\ \A i \in 1..(Len(h) - 1) : Follows(h[i].screen, h[i + 1].screen)
  /\ h # <<>> => h[1].screen \in Roots(safe)

Top(s) == s.history[Len(s.history)]

ScreenSound(s) ==
  /\ Allowed(s.screen, s.safe) /\ Fits(s, s.safe, s.catalog)
  /\ Len(s.history) <= Level(s.screen)
  /\ IF s.history = <<>> THEN s.screen \in Roots(s.safe) ELSE Follows(Top(s).screen, s.screen)

BackSound(s) ==
  IF s.history = <<>> THEN s.screen = "watchface" \/ s.back \in Roots(s.safe)
  ELSE s.back = Top(s).screen

Sound(s) ==
  /\ s \in ShellRecord
  /\ FramesSound(s.history, s.safe, s.catalog) /\ ScreenSound(s) /\ BackSound(s)

(* A new catalog does not move what a frame of the stack shows.            *)
CatalogFree(s) == \A i \in 1..Len(s.history) : s.history[i].screen \notin Listings

Bare(s) == s.screen \notin Listings /\ CatalogFree(s)

QueueSound(s) ==
  /\ s.action \in {"removePackage", "runPackage"} => s.screen = "packageApps"
  /\ s.action \in {"purgePackages", "normalReboot"} => s.screen = "safeMode"
  /\ s.action \in {"selectBuiltin", "selectWatchface"} =>
       s.screen = "watchface" /\ s.history = <<>>
  /\ s.action = "startPortal" => s.screen = "packagePortal"

ActionSound == QueueSound(shell) /\ (at # "act" => shell.action = "none")

BootSound ==
  /\ boot \in [prepared : BOOLEAN, blocked : BOOLEAN]
  /\ ~boot.prepared => boot.blocked /\ Bare(shell)

PortalSound ==
  portal => /\ at \in {"present", "loop"}
            /\ shell.screen \in {"packagePortal", "error"} /\ Bare(shell)

TurnShape ==
  turn = [from |-> turn.from, input |-> turn.input, saved |-> turn.saved, stays |-> turn.stays]

ShownSound ==
  /\ at \in {"loop", "tail", "booted", "asleep"} /\ turn.input # "boot" /\ ~deferred
       => panel = shell.screen \/ (panel = "face" /\ shell.screen = "watchface")
  /\ at = "asleep" => ~deferred

NavInv ==
  Sound(shell) /\ ActionSound /\ BootSound /\ PortalSound /\ TurnShape /\ ShownSound

-----------------------------------------------------------------------------
(* Rows, and the window over them.                                         *)

LEMMA KnownShape ==
  /\ \A c \in Known : /\ c \in CatalogShape
                      /\ c.active <= Len(c.quarantined)
                      /\ c.active > 0 => c.selected
  /\ Unlisted \in Known /\ Catalogs \subseteq Known
  /\ Unlisted.active = 0
<1>1. Unlisted \in CatalogShape /\ Unlisted.active = 0 /\ Unlisted.quarantined = <<>>
  BY DEF Unlisted, CatalogShape
<1> QED BY <1>1, ShellAssumption DEF Known, CatalogShape

LEMMA RowsCounted ==
  ASSUME NEW s
  PROVE  ItemCount(s) = Rows(s.screen, s.safe, s.catalog)
BY DEF ItemCount, Rows, FaceCount, Listed

LEMMA RowsPositive ==
  ASSUME NEW screen, NEW safe \in BOOLEAN, NEW c \in Known
  PROVE  Rows(screen, safe, c) \in Nat \ {0}
<1>1. c.apps \in Nat /\ Len(c.quarantined) \in Nat
  BY KnownShape DEF CatalogShape
<1>2. Zones \in Nat \ {0} /\ DiagnosticRows \in Nat \ {0} BY ShellAssumption
<1>3. Len(LauncherRows) = 3 /\ Len(SettingsRows) = 11 BY DEF LauncherRows, SettingsRows
<1> QED BY <1>1, <1>2, <1>3 DEF Rows, ItemCount, FaceCount, Listed, AtLeastOne

(* Only the two lists depend on the catalog.                               *)
LEMMA RowsUnlisted ==
  ASSUME NEW screen, screen \notin Listings, NEW safe, NEW c, NEW d
  PROVE  Rows(screen, safe, c) = Rows(screen, safe, d)
BY DEF Rows, ItemCount, Listings

(* The first row is always in the window.                                  *)
LEMMA FirstRowFits ==
  ASSUME NEW f, f.sel = 0, f.view = 0, NEW safe \in BOOLEAN, NEW c \in Known
  PROVE  Fits(f, safe, c)
BY RowsPositive DEF Fits, VisibleRows

(* Reveal brings the selection into the window, wherever the window was.   *)
LEMMA Revealed ==
  ASSUME NEW s, s \in ShellRecord, s.sel < ItemCount(s)
  PROVE  /\ Reveal(s) \in ShellRecord
         /\ Fits(Reveal(s), s.safe, s.catalog)
         /\ Reveal(s) = [s EXCEPT !.view = Reveal(s).view]
<1> DEFINE count == ItemCount(s)
<1>1. count \in Nat \ {0} /\ count = Rows(s.screen, s.safe, s.catalog)
  BY RowsCounted, RowsPositive DEF ShellRecord
<1>2. s.sel \in Nat /\ s.view \in Nat BY DEF ShellRecord
<1> HIDE DEF count
<1>3. PICK v \in Nat : /\ Reveal(s) = [s EXCEPT !.view = v]
                       /\ v <= s.sel /\ s.sel < v + VisibleRows
  <2>1. CASE count <= VisibleRows \/ s.sel = 0
    BY <1>1, <1>2, <2>1 DEF Reveal, count, VisibleRows
  <2>2. CASE ~(count <= VisibleRows \/ s.sel = 0) /\ s.sel = count - 1 /\ s.view = 0
    <3>1. count - VisibleRows \in Nat BY <1>1, <2>2 DEF VisibleRows
    <3>2. Reveal(s) = [s EXCEPT !.view = count - VisibleRows] BY <2>2 DEF Reveal, count
    <3> QED BY <1>1, <2>2, <3>1, <3>2 DEF VisibleRows
  <2>3. CASE /\ ~(count <= VisibleRows \/ s.sel = 0) /\ ~(s.sel = count - 1 /\ s.view = 0)
             /\ s.sel < s.view
    <3>1. Reveal(s) = [s EXCEPT !.view = s.sel] BY <2>3 DEF Reveal, count
    <3> QED BY <1>2, <3>1 DEF VisibleRows
  <2>4. CASE /\ ~(count <= VisibleRows \/ s.sel = 0) /\ ~(s.sel = count - 1 /\ s.view = 0)
             /\ ~(s.sel < s.view) /\ s.sel >= s.view + VisibleRows
    <3>1. Reveal(s) = [s EXCEPT !.view = s.sel - VisibleRows + 1] BY <2>4 DEF Reveal, count
    <3> QED BY <1>2, <2>4, <3>1 DEF VisibleRows
  <2>5. CASE /\ ~(count <= VisibleRows \/ s.sel = 0) /\ ~(s.sel = count - 1 /\ s.view = 0)
             /\ ~(s.sel < s.view) /\ ~(s.sel >= s.view + VisibleRows)
    <3>1. Reveal(s) = s BY <2>5 DEF Reveal, count
    <3>2. s = [s EXCEPT !.view = s.view] BY DEF ShellRecord
    <3> QED BY <1>2, <2>5, <3>1, <3>2 DEF VisibleRows
  <2> QED BY <2>1, <2>2, <2>3, <2>4, <2>5
<1>4. /\ Reveal(s) \in ShellRecord /\ Reveal(s).view = v /\ Reveal(s).sel = s.sel
      /\ Reveal(s).screen = s.screen
  BY <1>3 DEF ShellRecord
<1> QED BY <1>1, <1>3, <1>4 DEF Fits, count

-----------------------------------------------------------------------------
(* The stack: frames pushed and popped.                                    *)

LEMMA HistoryPushed ==
  ASSUME NEW h \in Seq(Frame), NEW f \in Frame
  PROVE  /\ Append(h, f) \in Seq(Frame) /\ Append(h, f) # <<>>
         /\ Len(Append(h, f)) = Len(h) + 1 /\ Append(h, f)[Len(h) + 1] = f
         /\ \A i \in 1..Len(h) : Append(h, f)[i] = h[i]
OBVIOUS

LEMMA HistoryPopped ==
  ASSUME NEW h \in Seq(Frame), h # <<>>
  PROVE  /\ Len(h) \in Nat \ {0} /\ Last(h) = h[Len(h)] /\ Last(h) \in Frame
         /\ Front(h) \in Seq(Frame) /\ Len(Front(h)) = Len(h) - 1
         /\ \A i \in 1..(Len(h) - 1) : Front(h)[i] = h[i]
         /\ Front(h) = <<>> <=> Len(h) = 1
<1>1. Len(h) \in Nat \ {0} /\ Len(h) - 1 \in Nat OBVIOUS
<1>2. Last(h) = h[Len(h)] /\ Last(h) \in Frame BY <1>1 DEF Last
<1>3. Front(h) = SubSeq(h, 1, Len(h) - 1) BY DEF Front
<1>4. /\ Front(h) \in Seq(Frame) /\ Len(Front(h)) = Len(h) - 1
      /\ \A i \in 1..(Len(h) - 1) : Front(h)[i] = h[i]
  <2> DEFINE n == Len(h) - 1
  <2>1. n \in Nat /\ \A i \in 1..n : h[i] \in Frame BY <1>1
  <2>2. Front(h) = SubSeq(h, 1, n) BY <1>3
  <2> HIDE DEF n
  <2>3. /\ Front(h) \in Seq(Frame)
        /\ Len(Front(h)) = IF 1 <= n THEN n - 1 + 1 ELSE 0
        /\ \A i \in 1..(n - 1 + 1) : Front(h)[i] = h[1 + i - 1]
    BY <2>1, <2>2, SubSeqProperties
  <2>4. Len(Front(h)) = n BY <2>1, <2>3
  <2>5. ASSUME NEW i \in 1..n PROVE Front(h)[i] = h[i]
    <3>1. i \in 1..(n - 1 + 1) /\ 1 + i - 1 = i BY <2>1
    <3> QED BY <2>3, <3>1
  <2> QED BY <2>3, <2>4, <2>5 DEF n
<1>5. Front(h) = <<>> <=> Len(h) = 1 BY <1>1, <1>4, EmptySeq
<1> QED BY <1>1, <1>2, <1>4, <1>5

LEMMA FramesPushed ==
  ASSUME NEW h \in Seq(Frame), NEW f \in Frame, NEW safe, NEW c,
         FramesSound(h, safe, c), FrameSound(f, Len(h) + 1, safe, c),
         h = <<>> => f.screen \in Roots(safe),
         h # <<>> => Follows(h[Len(h)].screen, f.screen)
  PROVE  FramesSound(Append(h, f), safe, c)
<1> DEFINE g == Append(h, f)
<1>1. /\ Len(g) = Len(h) + 1 /\ g[Len(h) + 1] = f /\ Len(h) \in Nat
      /\ \A i \in 1..Len(h) : g[i] = h[i]
  BY HistoryPushed
<1> HIDE DEF g
<1>2. ASSUME NEW i \in 1..Len(g) PROVE FrameSound(g[i], i, safe, c)
  <2>1. CASE i = Len(h) + 1 BY <1>1, <2>1
  <2>2. CASE i \in 1..Len(h) BY <1>1, <2>2 DEF FramesSound
  <2> QED BY <1>1, <2>1, <2>2
<1>3. ASSUME NEW i \in 1..(Len(g) - 1) PROVE Follows(g[i].screen, g[i + 1].screen)
  <2>1. CASE i = Len(h)
    <3>1. h # <<>> /\ i \in 1..Len(h) BY <1>1, <2>1
    <3> QED BY <1>1, <2>1, <3>1
  <2>2. CASE i \in 1..(Len(h) - 1)
    <3>1. i \in 1..Len(h) /\ i + 1 \in 1..Len(h) BY <1>1, <2>2
    <3> QED BY <1>1, <2>2, <3>1 DEF FramesSound
  <2> QED BY <1>1, <2>1, <2>2
<1>4. g[1].screen \in Roots(safe)
  <2>1. CASE h = <<>> BY <1>1, <2>1
  <2>2. CASE h # <<>>
    <3>1. 1 \in 1..Len(h) BY <2>2
    <3> QED BY <1>1, <2>2, <3>1 DEF FramesSound
  <2> QED BY <2>1, <2>2
<1> QED BY <1>2, <1>3, <1>4 DEF FramesSound, g

LEMMA FramesPopped ==
  ASSUME NEW h \in Seq(Frame), h # <<>>, NEW safe, NEW c, FramesSound(h, safe, c)
  PROVE  FramesSound(Front(h), safe, c)
<1> DEFINE g == Front(h)
<1>1. /\ Len(g) = Len(h) - 1 /\ Len(h) \in Nat \ {0} /\ g \in Seq(Frame)
      /\ \A i \in 1..(Len(h) - 1) : g[i] = h[i]
  BY HistoryPopped
<1> HIDE DEF g
<1>2. ASSUME NEW i \in 1..Len(g) PROVE FrameSound(g[i], i, safe, c)
  BY <1>1 DEF FramesSound
<1>3. ASSUME NEW i \in 1..(Len(g) - 1) PROVE Follows(g[i].screen, g[i + 1].screen)
  <2>1. i \in 1..(Len(h) - 1) /\ i + 1 \in 1..(Len(h) - 1) BY <1>1
  <2> QED BY <1>1, <2>1 DEF FramesSound
<1>4. g # <<>> => g[1].screen \in Roots(safe)
  <2>1. g # <<>> => 1 \in 1..Len(g) BY <1>1
  <2> QED BY <1>1, <2>1 DEF FramesSound
<1> QED BY <1>2, <1>3, <1>4 DEF FramesSound, g

-----------------------------------------------------------------------------
(* The records the shell's operations make.                                *)

(* What Sound depends on.                                                  *)
SameStack(s, t) ==
  /\ t.screen = s.screen /\ t.sel = s.sel /\ t.view = s.view /\ t.history = s.history
  /\ t.back = s.back /\ t.catalog = s.catalog /\ t.safe = s.safe

LEMMA SoundKept ==
  ASSUME NEW s, Sound(s), NEW t \in ShellRecord, SameStack(s, t)
  PROVE  Sound(t)
<1>1. /\ FramesSound(t.history, t.safe, t.catalog) BY DEF Sound, SameStack
<1>2. Fits(t, t.safe, t.catalog) BY DEF Sound, ScreenSound, SameStack, Fits
<1>3. ScreenSound(t) BY <1>2 DEF Sound, SameStack, ScreenSound, Top
<1>4. BackSound(t) BY DEF Sound, SameStack, BackSound, Top
<1> QED BY <1>1, <1>3, <1>4 DEF Sound

LEMMA Queues ==
  ASSUME NEW s, Sound(s), NEW action \in Queued
  PROVE  /\ Sound(Queue(s, action)) /\ SameStack(s, Queue(s, action))
         /\ Queue(s, action).action = action
<1>1. /\ Queue(s, action) \in ShellRecord /\ SameStack(s, Queue(s, action))
      /\ Queue(s, action).action = action
  BY DEF Sound, ShellRecord, SameStack, Queue
<1> QED BY <1>1, SoundKept

LEMMA Sleeps ==
  ASSUME NEW s, Sound(s), NEW sleep \in BOOLEAN
  PROVE  /\ Sound([s EXCEPT !.sleep = sleep]) /\ SameStack(s, [s EXCEPT !.sleep = sleep])
         /\ [s EXCEPT !.sleep = sleep].action = s.action
<1>1. /\ [s EXCEPT !.sleep = sleep] \in ShellRecord /\ SameStack(s, [s EXCEPT !.sleep = sleep])
      /\ [s EXCEPT !.sleep = sleep].action = s.action
  BY DEF Sound, ShellRecord, SameStack
<1> QED BY <1>1, SoundKept

LEMMA Edits ==
  ASSUME NEW s, Sound(s), NEW editing \in BOOLEAN
  PROVE  /\ Sound([s EXCEPT !.editing = editing])
         /\ SameStack(s, [s EXCEPT !.editing = editing])
         /\ [s EXCEPT !.editing = editing].action = s.action
<1>1. /\ [s EXCEPT !.editing = editing] \in ShellRecord
      /\ SameStack(s, [s EXCEPT !.editing = editing])
      /\ [s EXCEPT !.editing = editing].action = s.action
  BY DEF Sound, ShellRecord, SameStack
<1> QED BY <1>1, SoundKept

(* A move within the screen that is shown.                                 *)
LEMMA SelectionMoved ==
  ASSUME NEW s, Sound(s), NEW t \in ShellRecord,
         t = [s EXCEPT !.sel = t.sel, !.view = t.view], Fits(t, t.safe, t.catalog)
  PROVE  Sound(t)
<1>1. /\ t.screen = s.screen /\ t.history = s.history /\ t.back = s.back
      /\ t.catalog = s.catalog /\ t.safe = s.safe
  BY DEF Sound, ShellRecord
<1>2. FramesSound(t.history, t.safe, t.catalog) BY <1>1 DEF Sound
<1>3. ScreenSound(t) BY <1>1 DEF Sound, ScreenSound, Top
<1>4. BackSound(t) BY <1>1 DEF Sound, BackSound, Top
<1> QED BY <1>2, <1>3, <1>4 DEF Sound

(* Another row is selected and brought into the window.                    *)
LEMMA RowSelected ==
  ASSUME NEW s, Sound(s), NEW row \in Nat, row < ItemCount(s)
  PROVE  LET t == Reveal([s EXCEPT !.sel = row]) IN
         /\ Sound(t) /\ t.action = s.action
         /\ t.screen = s.screen /\ t.history = s.history
         /\ t.catalog = s.catalog /\ t.safe = s.safe /\ t.back = s.back
<1> DEFINE r == [s EXCEPT !.sel = row]
           t == Reveal(r)
<1>1. /\ r \in ShellRecord /\ r.sel = row /\ r.screen = s.screen /\ r.safe = s.safe
      /\ r.catalog = s.catalog
  BY DEF Sound, ShellRecord
<1>2. ItemCount(r) = ItemCount(s) BY <1>1, RowsCounted
<1>3. /\ t \in ShellRecord /\ Fits(t, r.safe, r.catalog) /\ t = [r EXCEPT !.view = t.view]
  BY <1>1, <1>2, Revealed
<1> HIDE DEF t
<1>4. /\ t = [s EXCEPT !.sel = t.sel, !.view = t.view]
      /\ t.screen = s.screen /\ t.history = s.history
      /\ t.catalog = s.catalog /\ t.safe = s.safe /\ t.back = s.back /\ t.action = s.action
  BY <1>3 DEF Sound, ShellRecord
<1>5. Sound(t) BY <1>1, <1>3, <1>4, SelectionMoved
<1> QED BY <1>4, <1>5 DEF t

(* A screen is shown over the one at hand: the stack has room for it.      *)
LEMMA EnteredRecord ==
  ASSUME NEW s \in ShellRecord, Len(s.history) # HistoryDepth, NEW screen \in Screens
  PROVE  LET t == Enter(s, screen) IN
         /\ t \in ShellRecord
         /\ t.screen = screen /\ t.sel = 0 /\ t.view = 0 /\ t.back = s.screen
         /\ t.history = Append(s.history, [screen |-> s.screen, sel |-> s.sel, view |-> s.view])
         /\ t.catalog = s.catalog /\ t.safe = s.safe /\ t.action = s.action
         /\ t.sleep = s.sleep
<1> DEFINE f == [screen |-> s.screen, sel |-> s.sel, view |-> s.view]
<1>1. f \in Frame /\ s.history \in Seq(Frame) /\ f.screen = s.screen BY DEF Frame, ShellRecord
<1>2. Append(s.history, f) \in Seq(Frame) BY <1>1, HistoryPushed
<1>3. Enter(s, screen) =
        [s EXCEPT !.history = Append(s.history, f), !.back = s.screen,
                  !.screen = screen, !.sel = 0, !.view = 0]
  BY <1>1 DEF Enter, Push, Show
<1> HIDE DEF f
<1> DEFINE h == Append(s.history, f)
           t == Enter(s, screen)
<1> HIDE DEF h, t
<1>4. t = [s EXCEPT !.history = h, !.back = s.screen, !.screen = screen, !.sel = 0, !.view = 0]
  BY <1>3 DEF h, t
<1>5. h \in Seq(Frame) BY <1>2 DEF h
<1>6. /\ t \in ShellRecord
      /\ t.screen = screen /\ t.sel = 0 /\ t.view = 0 /\ t.back = s.screen
      /\ t.history = h
      /\ t.catalog = s.catalog /\ t.safe = s.safe /\ t.action = s.action
      /\ t.sleep = s.sleep
  BY <1>4, <1>5 DEF ShellRecord
<1> QED BY <1>6 DEF f, h, t

LEMMA Entered ==
  ASSUME NEW s, Sound(s), s.screen # "error", NEW screen \in Screens,
         Follows(s.screen, screen), Allowed(screen, s.safe)
  PROVE  LET t == Enter(s, screen) IN
         /\ Sound(t) /\ t.screen = screen /\ t.catalog = s.catalog /\ t.safe = s.safe
         /\ t.action = s.action /\ t.sleep = s.sleep
         /\ Bare(s) => CatalogFree(t)
<1> DEFINE f == [screen |-> s.screen, sel |-> s.sel, view |-> s.view]
           t == Enter(s, screen)
<1>0. s \in ShellRecord BY DEF Sound
<1>1. f \in Frame /\ f.screen = s.screen /\ f.sel = s.sel /\ f.view = s.view
  BY <1>0 DEF Frame, ShellRecord
<1>2. s.history \in Seq(Frame) /\ Len(s.history) \in Nat /\ s.safe \in BOOLEAN
      /\ s.catalog \in Known /\ s.screen \in Screens
  BY <1>0 DEF ShellRecord
<1>3. Len(s.history) <= Level(s.screen) /\ Level(s.screen) \in 0..3
  BY <1>2 DEF Sound, ScreenSound, Level, Screens
<1>4. Level(screen) >= Level(s.screen) + 1
  BY <1>2 DEF Follows, Children, Level, Screens
<1>5. /\ t \in ShellRecord /\ t.screen = screen /\ t.sel = 0 /\ t.view = 0
      /\ t.back = s.screen /\ t.history = Append(s.history, f)
      /\ t.catalog = s.catalog /\ t.safe = s.safe /\ t.action = s.action
      /\ t.sleep = s.sleep
  <2>1. \A n, level : n \in Nat /\ n <= level /\ level \in 0..3 => n # HistoryDepth
    BY DEF HistoryDepth
  <2>2. Len(s.history) # HistoryDepth BY <1>2, <1>3, <2>1, Zenon
  <2> QED BY <1>0, <2>2, EnteredRecord
<1> HIDE DEF t
<1>6. FrameSound(f, Len(s.history) + 1, s.safe, s.catalog)
  <2>1. Fits(f, s.safe, s.catalog) BY <1>1 DEF Sound, ScreenSound, Fits
  <2> QED BY <1>1, <1>2, <1>3, <2>1 DEF FrameSound, Sound, ScreenSound
<1> HIDE DEF f
<1>7. FramesSound(t.history, t.safe, t.catalog)
  BY <1>1, <1>2, <1>5, <1>6, FramesPushed DEF Sound, ScreenSound, Top
<1>8. Top(t) = f /\ t.history # <<>> /\ Len(t.history) = Len(s.history) + 1
  BY <1>1, <1>2, <1>5, HistoryPushed DEF Top
<1>9. Len(t.history) <= Level(screen) BY <1>2, <1>3, <1>4, <1>8 DEF Level
<1>10. Fits(t, t.safe, t.catalog) BY <1>2, <1>5, FirstRowFits
<1>11. ScreenSound(t) BY <1>1, <1>5, <1>8, <1>9, <1>10 DEF ScreenSound
<1>12. BackSound(t) BY <1>1, <1>5, <1>8 DEF BackSound
<1>13. ASSUME Bare(s) PROVE CatalogFree(t)
  <2>1. ASSUME NEW i \in 1..Len(t.history) PROVE t.history[i].screen \notin Listings
    <3>1. CASE i = Len(s.history) + 1
      BY <1>1, <1>2, <1>5, <1>13, <3>1, HistoryPushed DEF Bare
    <3>2. CASE i \in 1..Len(s.history)
      <4>1. t.history[i] = s.history[i] BY <1>1, <1>2, <1>5, <3>2, HistoryPushed
      <4> QED BY <1>13, <3>2, <4>1 DEF Bare, CatalogFree
    <3> QED BY <1>2, <1>8, <3>1, <3>2
  <2> QED BY <2>1 DEF CatalogFree
<1> QED BY <1>5, <1>7, <1>11, <1>12, <1>13 DEF Sound, t

(* A screen replaces the whole stack.                                      *)
LEMMA Rooted ==
  ASSUME NEW t \in ShellRecord, t.history = <<>>, t.sel = 0, t.view = 0,
         t.screen \in Roots(t.safe), t.screen = "watchface" \/ t.back \in Roots(t.safe)
  PROVE  Sound(t)
<1>1. t.safe \in BOOLEAN /\ t.catalog \in Known BY DEF ShellRecord
<1>2. Fits(t, t.safe, t.catalog) BY <1>1, FirstRowFits
<1>3. FramesSound(t.history, t.safe, t.catalog) BY DEF FramesSound
<1>4. Len(t.history) = 0 /\ Level(t.screen) \in Nat BY DEF Level
<1>5. Allowed(t.screen, t.safe) BY <1>1 DEF Allowed, Roots, SafeScreens
<1>6. ScreenSound(t) BY <1>2, <1>4, <1>5 DEF ScreenSound
<1> QED BY <1>3, <1>6 DEF Sound, BackSound

LEMMA WatchfaceEntered ==
  ASSUME NEW s, Sound(s)
  PROVE  LET t == EnterWatchface(s) IN
         /\ Sound(t) /\ t.screen = "watchface" /\ t.history = <<>>
         /\ t.action = s.action /\ t.safe = s.safe /\ t.catalog = s.catalog
<1> DEFINE t == EnterWatchface(s)
<1>1. /\ t \in ShellRecord /\ t.screen = "watchface" /\ t.history = <<>> /\ t.sel = 0
      /\ t.view = 0 /\ t.action = s.action /\ t.safe = s.safe /\ t.catalog = s.catalog
  BY EmptySeq DEF Sound, ShellRecord, EnterWatchface, Show, Screens
<1> HIDE DEF t
<1>2. Sound(t) BY <1>1, Rooted DEF Roots
<1> QED BY <1>1, <1>2 DEF t

(* Back: a frame fits as it was left, and its parent is below it.          *)
LEMMA ParentRestored ==
  ASSUME NEW s, Sound(s), s.screen # "watchface" \/ s.history # <<>>
  PROVE  LET t == RestoreParent(s) IN
         /\ Sound(t) /\ t.action = s.action /\ t.safe = s.safe /\ t.catalog = s.catalog
         /\ s.history = <<>> => t.screen \in Roots(s.safe) /\ t.history = <<>>
         /\ s.history # <<>> => t.screen = Top(s).screen /\ t.history = Front(s.history)
<1> DEFINE t == RestoreParent(s)
<1>0. s \in ShellRecord BY DEF Sound
<1>1. /\ s.history \in Seq(Frame) /\ s.safe \in BOOLEAN /\ s.catalog \in Known
      /\ Len(s.history) \in Nat
  BY <1>0 DEF ShellRecord
<1>2. CASE s.history = <<>>
  <2>1. s.back \in Roots(s.safe) /\ s.back \in Screens
    BY <1>0, <1>2 DEF Sound, BackSound, ShellRecord
  <2>2. /\ t \in ShellRecord /\ t.screen = s.back /\ t.history = <<>> /\ t.sel = 0
        /\ t.view = 0 /\ t.back = s.back
        /\ t.action = s.action /\ t.safe = s.safe /\ t.catalog = s.catalog
    BY <1>0, <1>2, <2>1 DEF ShellRecord, RestoreParent, Show
  <2> HIDE DEF t
  <2>3. Sound(t) BY <2>1, <2>2, Rooted
  <2> QED BY <1>2, <2>1, <2>2, <2>3 DEF t
<1>3. CASE s.history # <<>>
  <2> DEFINE h == s.history
             rest == Front(s.history)
             frame == Last(s.history)
             back == IF rest = <<>> THEN s.back ELSE Last(rest).screen
  <2>1. /\ Len(h) \in Nat \ {0} /\ frame = h[Len(h)] /\ frame \in Frame
        /\ rest \in Seq(Frame) /\ Len(rest) = Len(h) - 1
        /\ \A i \in 1..(Len(h) - 1) : rest[i] = h[i]
        /\ rest = <<>> <=> Len(h) = 1
    BY <1>1, <1>3, HistoryPopped
  <2>2. rest # <<>> => /\ Last(rest) = rest[Len(rest)] /\ Last(rest) \in Frame
                       /\ Len(rest) \in Nat \ {0}
    BY <2>1, HistoryPopped
  <2>3. back \in Screens BY <1>0, <2>2 DEF ShellRecord, Frame
  <2>4. t = [s EXCEPT !.screen = frame.screen, !.sel = frame.sel, !.view = frame.view,
                      !.history = rest, !.back = back]
    BY <1>0, <1>3 DEF RestoreParent, ShellRecord
  <2> HIDE DEF t, rest, frame, back
  <2>5. /\ t \in ShellRecord /\ t.screen = frame.screen /\ t.sel = frame.sel
        /\ t.view = frame.view /\ t.history = rest /\ t.back = back
        /\ t.action = s.action /\ t.safe = s.safe /\ t.catalog = s.catalog
    BY <1>0, <2>1, <2>3, <2>4 DEF ShellRecord, Frame
  <2>6. FrameSound(frame, Len(h), s.safe, s.catalog)
    BY <2>1 DEF Sound, FramesSound
  <2>7. FramesSound(t.history, t.safe, t.catalog)
    BY <1>1, <1>3, <2>5, FramesPopped DEF Sound, rest
  <2>8. Fits(t, t.safe, t.catalog) BY <2>5, <2>6 DEF FrameSound, Fits
  <2>9. IF rest = <<>> THEN frame.screen \in Roots(s.safe)
                       ELSE Follows(rest[Len(rest)].screen, frame.screen)
    <3>1. CASE rest = <<>> BY <1>3, <2>1, <3>1 DEF Sound, FramesSound
    <3>2. CASE rest # <<>>
      <4>1. Len(h) - 1 \in 1..(Len(h) - 1) /\ Len(h) - 1 + 1 = Len(h) BY <2>1, <2>2, <3>2
      <4>2. Follows(h[Len(h) - 1].screen, h[Len(h)].screen)
        BY <4>1 DEF Sound, FramesSound
      <4> QED BY <2>1, <3>2, <4>1, <4>2
    <3> QED BY <3>1, <3>2
  <2>10. Len(rest) <= Level(frame.screen)
    BY <2>1, <2>6 DEF FrameSound, Level
  <2>11. ScreenSound(t)
    BY <2>5, <2>6, <2>8, <2>9, <2>10 DEF ScreenSound, Top, FrameSound
  <2>12. BackSound(t)
    <3>1. CASE rest = <<>>
      <4>1. s.back = frame.screen BY <1>3, <2>1 DEF Sound, BackSound, Top
      <4> QED BY <2>5, <2>9, <3>1, <4>1 DEF BackSound, back
    <3>2. CASE rest # <<>> BY <2>2, <2>5, <3>2 DEF BackSound, Top, back
    <3> QED BY <3>1, <3>2
  <2>13. Sound(t) BY <2>5, <2>7, <2>11, <2>12 DEF Sound
  <2> QED BY <1>3, <2>1, <2>5, <2>13 DEF Top, t, rest
<1> QED BY <1>2, <1>3

-----------------------------------------------------------------------------
(* Failures and catalogs.                                                  *)

(* An error screen is opened once over whatever was shown.                 *)
LEMMA Failed ==
  ASSUME NEW s, Sound(s)
  PROVE  LET t == Fail(s) IN
         /\ Sound(t) /\ t.screen = "error" /\ t.action = "none"
         /\ t.safe = s.safe /\ t.catalog = s.catalog /\ t.sleep = s.sleep
         /\ Bare(s) => Bare(t)
<1> DEFINE x == IF s.screen = "error" THEN s ELSE Enter(s, "error")
           u == [x EXCEPT !.sel = 0, !.view = 0]
           t == Fail(s)
<1>1. /\ Sound(x) /\ x.screen = "error" /\ x.safe = s.safe /\ x.catalog = s.catalog
      /\ x.sleep = s.sleep
      /\ Bare(s) => CatalogFree(x)
  <2>1. CASE s.screen = "error" BY <2>1 DEF Bare
  <2>2. CASE s.screen # "error"
    <3>1. "error" \in Screens /\ Follows(s.screen, "error") /\ Allowed("error", s.safe)
      BY DEF Screens, Follows, Allowed, SafeScreens
    <3> QED BY <2>2, <3>1, Entered
  <2> QED BY <2>1, <2>2
<1>2. t = [[x EXCEPT !.screen = "error", !.sel = 0, !.view = 0]
             EXCEPT !.editing = FALSE, !.action = "none"]
  BY DEF Fail, Show
<1> HIDE DEF x, t
<1>3. /\ u \in ShellRecord /\ u.sel = 0 /\ u.view = 0 /\ u.safe = s.safe
      /\ u.screen = "error" /\ u.catalog = s.catalog /\ u.sleep = s.sleep
      /\ u.history = x.history
  BY <1>1 DEF Sound, ShellRecord
<1>4. u.safe \in BOOLEAN /\ u.catalog \in Known BY <1>3 DEF ShellRecord
<1>5. Fits(u, u.safe, u.catalog) BY <1>3, <1>4, FirstRowFits
<1>6. u = [x EXCEPT !.sel = u.sel, !.view = u.view] BY <1>3
<1>7. Sound(u) BY <1>1, <1>3, <1>5, <1>6, SelectionMoved
<1>8. t \in ShellRecord /\ SameStack(u, t) /\ t.action = "none" /\ t.sleep = u.sleep
  <2>1. x \in ShellRecord BY <1>1 DEF Sound
  <2>2. t = [u EXCEPT !.editing = FALSE, !.action = "none"]
    BY <1>1, <1>2, <2>1 DEF ShellRecord
  <2> HIDE DEF u
  <2> QED BY <1>3, <2>2 DEF ShellRecord, SameStack, Queued
<1>9. Sound(t) BY <1>7, <1>8, SoundKept
<1>10. Bare(s) => Bare(t)
  BY <1>1, <1>3, <1>8 DEF Bare, CatalogFree, SameStack, Listings
<1> QED BY <1>3, <1>8, <1>9, <1>10 DEF SameStack, t

LEMMA MayFail ==
  ASSUME NEW s, Sound(s), NEW bad \in BOOLEAN
  PROVE  LET t == FailIf(bad, s) IN
         /\ Sound(t) /\ t.action \in {s.action, "none"}
         /\ t.safe = s.safe /\ t.catalog = s.catalog /\ t.sleep = s.sleep
         /\ t = s \/ (t.screen = "error" /\ t.action = "none")
         /\ Bare(s) => Bare(t)
BY Failed DEF FailIf

(* Only an error screen is opened over a list.                             *)
LEMMA ListsOnTop ==
  ASSUME NEW s, Sound(s), s.screen # "error"
  PROVE  CatalogFree(s)
<1>0. s.history \in Seq(Frame) /\ Len(s.history) \in Nat BY DEF Sound, ShellRecord
<1>1. ASSUME NEW i \in 1..Len(s.history), s.history[i].screen \in Listings PROVE FALSE
  <2>1. ASSUME NEW screen, Follows(s.history[i].screen, screen) PROVE screen = "error"
    BY <1>1, <2>1 DEF Follows, Children, Listings
  <2>2. CASE i = Len(s.history)
    <3>1. s.history # <<>> BY <1>0, <1>1
    <3>2. Follows(s.history[i].screen, s.screen)
      BY <2>2, <3>1 DEF Sound, ScreenSound, Top
    <3> QED BY <2>1, <3>2
  <2>3. CASE i # Len(s.history)
    <3>1. i \in 1..(Len(s.history) - 1) /\ i + 1 \in 1..Len(s.history)
      BY <1>0, <1>1, <2>3
    <3>2. /\ Follows(s.history[i].screen, s.history[i + 1].screen)
          /\ s.history[i + 1].screen # "error"
      BY <3>1 DEF Sound, FramesSound, FrameSound
    <3> QED BY <2>1, <3>2
  <2> QED BY <2>2, <2>3
<1> QED BY <1>1 DEF CatalogFree

(* A list follows its catalog, whatever row was selected before.           *)
LEMMA CatalogChanged ==
  ASSUME NEW s, Sound(s), CatalogFree(s), NEW c \in Known
  PROVE  LET t == SetCatalog(s, c) IN
         /\ Sound(t) /\ t.catalog = c /\ t.screen = s.screen /\ t.history = s.history
         /\ t.safe = s.safe /\ t.action = s.action /\ t.sleep = s.sleep
         /\ CatalogFree(t)
<1> DEFINE u == [s EXCEPT !.catalog = c]
           r == CASE u.screen = "selector" -> [u EXCEPT !.sel = c.active]
                  [] u.screen = "packageApps" /\ u.sel >= ItemCount(u) -> [u EXCEPT !.sel = 0]
                  [] OTHER -> u
           t == SetCatalog(s, c)
<1>1. s \in ShellRecord /\ s.safe \in BOOLEAN /\ s.sel \in Nat BY DEF Sound, ShellRecord
<1>2. /\ u \in ShellRecord /\ u.catalog = c /\ u.sel = s.sel /\ u.view = s.view
      /\ u.screen = s.screen /\ u.safe = s.safe
      /\ u.history = s.history /\ u.back = s.back
      /\ u.action = s.action /\ u.sleep = s.sleep
  BY <1>1 DEF ShellRecord
<1>3. t = Reveal(r) BY DEF SetCatalog
<1> HIDE DEF u, t
<1>4. /\ r \in ShellRecord /\ r.sel < Rows(s.screen, s.safe, c)
      /\ r = [u EXCEPT !.sel = r.sel]
  <2>0. u = [u EXCEPT !.sel = u.sel] BY <1>2 DEF ShellRecord
  <2>1. CASE s.screen = "selector"
    <3>1. c.active \in Nat /\ c.active <= Len(c.quarantined) /\ Len(c.quarantined) \in Nat
      BY KnownShape DEF CatalogShape
    <3>2. ~s.safe BY <2>1 DEF Sound, ScreenSound, Allowed, SafeScreens
    <3>3. Rows(s.screen, s.safe, c) = 1 + Len(c.quarantined)
      BY <2>1, <3>2 DEF Rows, ItemCount, FaceCount
    <3>4. r = [u EXCEPT !.sel = c.active] BY <1>2, <2>1
    <3>5. r \in ShellRecord /\ r.sel = c.active BY <1>2, <3>1, <3>4 DEF ShellRecord
    <3> HIDE DEF r
    <3> QED BY <3>1, <3>3, <3>4, <3>5
  <2>2. CASE s.screen = "packageApps" /\ u.sel >= ItemCount(u)
    <3>1. r = [u EXCEPT !.sel = 0] BY <1>2, <2>2
    <3>2. r \in ShellRecord /\ r.sel = 0 BY <1>2, <3>1 DEF ShellRecord
    <3> HIDE DEF r
    <3> QED BY <1>1, <3>1, <3>2, RowsPositive
  <2>3. CASE s.screen = "packageApps" /\ ~(u.sel >= ItemCount(u))
    <3>1. r = u BY <1>2, <2>3
    <3>2. ItemCount(u) = Rows(s.screen, s.safe, c) BY <1>2, RowsCounted
    <3>3. Rows(s.screen, s.safe, c) \in Nat BY <1>1, RowsPositive
    <3> HIDE DEF r
    <3> QED BY <1>1, <1>2, <2>0, <2>3, <3>1, <3>2, <3>3
  <2>4. CASE s.screen \notin Listings
    <3>1. r = u BY <1>2, <2>4 DEF Listings
    <3>2. Rows(s.screen, s.safe, s.catalog) = Rows(s.screen, s.safe, c)
      BY <2>4, RowsUnlisted
    <3>3. s.sel < Rows(s.screen, s.safe, s.catalog) BY DEF Sound, ScreenSound, Fits
    <3> HIDE DEF r
    <3> QED BY <1>2, <2>0, <3>1, <3>2, <3>3
  <2> QED BY <2>1, <2>2, <2>3, <2>4 DEF Listings
<1> HIDE DEF r
<1>5. /\ r.screen = s.screen /\ r.safe = s.safe /\ r.catalog = c /\ r.history = s.history
      /\ r.back = s.back /\ r.action = s.action /\ r.sleep = s.sleep
  BY <1>2, <1>4 DEF ShellRecord
<1>6. r.sel < ItemCount(r) BY <1>4, <1>5, RowsCounted
<1>7. t \in ShellRecord /\ Fits(t, r.safe, r.catalog) /\ t = [r EXCEPT !.view = t.view]
  BY <1>3, <1>4, <1>6, Revealed
<1>8. /\ t.screen = s.screen /\ t.safe = s.safe /\ t.catalog = c /\ t.history = s.history
      /\ t.back = s.back /\ t.action = s.action /\ t.sleep = s.sleep
  BY <1>4, <1>5, <1>7 DEF ShellRecord
<1>9. FramesSound(t.history, t.safe, t.catalog)
  <2>1. ASSUME NEW i \in 1..Len(s.history) PROVE FrameSound(s.history[i], i, s.safe, c)
    <3>1. FrameSound(s.history[i], i, s.safe, s.catalog) BY DEF Sound, FramesSound
    <3>2. s.history[i].screen \notin Listings BY DEF CatalogFree
    <3>3. Rows(s.history[i].screen, s.safe, s.catalog) = Rows(s.history[i].screen, s.safe, c)
      BY <3>2, RowsUnlisted
    <3> QED BY <3>1, <3>3 DEF FrameSound, Fits
  <2> QED BY <1>8, <2>1 DEF Sound, FramesSound
<1>10. ScreenSound(t) BY <1>5, <1>7, <1>8 DEF Sound, ScreenSound, Top
<1>11. BackSound(t) BY <1>8 DEF Sound, BackSound, Top
<1>12. Sound(t) BY <1>7, <1>9, <1>10, <1>11 DEF Sound
<1> QED BY <1>8, <1>12 DEF CatalogFree, t

-----------------------------------------------------------------------------
(* The shell a boot begins with.                                           *)

(* Nothing but the watchface is below the first screen.                    *)
AtRoot(s) ==
  \/ s.history = <<>>
  \/ Len(s.history) = 1 /\ s.history[1].screen = "watchface"

LEMMA Begun ==
  ASSUME NEW wake, NEW motionWake \in BOOLEAN, NEW safe \in BOOLEAN
  PROVE  LET t == Begin(wake, motionWake, safe) IN
         /\ Sound(t) /\ t.action = "none" /\ t.safe = safe /\ Bare(t)
         /\ wake = "button" \/ safe \/ (t.screen = "watchface" /\ t.history = <<>>)
         /\ ~safe => AtRoot(t) /\ t.screen # "error"
<1> DEFINE s == [screen |-> "watchface", sel |-> 0, view |-> 0, history |-> <<>>,
                 back |-> IF safe THEN "safeMode" ELSE "launcher",
                 catalog |-> Unlisted, safe |-> safe,
                 editing |-> FALSE, action |-> "none",
                 sleep |-> \/ wake = "motion" /\ ~motionWake
                           \/ safe /\ wake \in {"minute", "motion"}]
           t == Begin(wake, motionWake, safe)
<1>1. /\ s \in ShellRecord /\ s.history = <<>> /\ s.safe = safe /\ s.action = "none"
      /\ s.screen = "watchface" /\ s.sel = 0 /\ s.view = 0 /\ s.catalog = Unlisted
      /\ safe => s.back = "safeMode"
  BY KnownShape DEF ShellRecord, Screens, Queued, Frame
<1>2. t = IF safe THEN Show(s, "safeMode")
          ELSE IF wake = "button" THEN Enter(s, "launcher") ELSE s
  BY DEF Begin
<1> HIDE DEF s, t
<1>3. Sound(s) BY <1>1, Rooted DEF Roots
<1>4. CatalogFree(s) BY <1>1 DEF CatalogFree
<1>5. CASE safe
  <2>1. t = [s EXCEPT !.screen = "safeMode", !.sel = 0, !.view = 0]
    BY <1>2, <1>5 DEF Show
  <2>2. /\ t \in ShellRecord /\ t.history = <<>> /\ t.sel = 0 /\ t.view = 0
        /\ t.safe = safe /\ t.screen = "safeMode" /\ t.back = s.back /\ t.action = "none"
    BY <1>1, <2>1 DEF ShellRecord, Screens
  <2>3. Sound(t) BY <1>1, <1>5, <2>2, Rooted DEF Roots
  <2>4. Bare(t) BY <2>2 DEF Bare, CatalogFree, Listings
  <2> QED BY <1>5, <2>2, <2>3, <2>4 DEF t
<1>6. CASE ~safe /\ wake = "button"
  <2>1. "launcher" \in Screens /\ Follows("watchface", "launcher") /\ Allowed("launcher", s.safe)
    BY <1>1, <1>6 DEF Screens, Follows, Children, Allowed
  <2>2. /\ Sound(t) /\ t.screen = "launcher" /\ t.safe = safe /\ t.action = "none"
        /\ CatalogFree(t)
    BY <1>1, <1>2, <1>3, <1>4, <1>6, <2>1, Entered DEF Bare, Listings
  <2>3. /\ Len(t.history) = 1 /\ t.history[1].screen = "watchface"
    <3>1. Len(s.history) = 0 /\ Len(s.history) # HistoryDepth BY <1>1 DEF HistoryDepth
    <3>2. t.history = Append(s.history,
                              [screen |-> s.screen, sel |-> s.sel, view |-> s.view])
      BY <1>1, <1>2, <1>6, <2>1, <3>1, EnteredRecord
    <3> QED BY <1>1, <3>2
  <2> QED BY <1>6, <2>2, <2>3 DEF Bare, Listings, AtRoot, t
<1>7. CASE ~safe /\ wake # "button"
  BY <1>1, <1>2, <1>3, <1>4, <1>7 DEF Bare, Listings, AtRoot, t
<1> QED BY <1>5, <1>6, <1>7

LEMMA TimeRequired ==
  ASSUME NEW s, Sound(s), ~s.safe, Bare(s), AtRoot(s), NEW interactive \in BOOLEAN
  PROVE  LET t == RequireManualTime(s, interactive) IN
         /\ Sound(t) /\ t.action = s.action /\ t.safe = s.safe /\ Bare(t)
<1> DEFINE f == [screen |-> "settings", sel |-> 0, view |-> 0]
           h == Append(s.history, f)
           t == RequireManualTime(s, interactive)
<1>1. /\ s \in ShellRecord /\ s.history \in Seq(Frame) /\ Len(s.history) \in 0..1
      /\ s.safe = FALSE /\ s.catalog \in Known /\ Len(s.history) # HistoryDepth
  <2>1. s \in ShellRecord BY DEF Sound
  <2>2. s.history \in Seq(Frame) /\ s.safe = FALSE /\ s.catalog \in Known
    BY <2>1 DEF ShellRecord
  <2>3. Len(s.history) \in 0..1 BY <2>2 DEF AtRoot
  <2>4. \A n \in 0..1 : n # HistoryDepth BY DEF HistoryDepth
  <2> QED BY <2>1, <2>2, <2>3, <2>4, Zenon
<1>2. f \in Frame /\ f.screen = "settings" /\ f.sel = 0 /\ f.view = 0 BY DEF Frame, Screens
<1>3. /\ h \in Seq(Frame) /\ h # <<>> /\ Len(h) = Len(s.history) + 1 /\ h[Len(h)] = f
      /\ \A i \in 1..Len(s.history) : h[i] = s.history[i]
  BY <1>1, <1>2, HistoryPushed
<1>4. t = [s EXCEPT !.history = h, !.back = "settings", !.screen = "manualTime",
                    !.sel = 0, !.view = 0, !.sleep = ~interactive]
  BY <1>1 DEF RequireManualTime, Push, Show, ShellRecord
<1>5. FrameSound(f, Len(s.history) + 1, s.safe, s.catalog)
  <2>1. Fits(f, s.safe, s.catalog) BY <1>1, <1>2, FirstRowFits
  <2>2. \A n \in 0..1 : n + 1 <= Level("settings") + 1 BY DEF Level
  <2>3. Len(s.history) + 1 <= Level("settings") + 1 BY <1>1, <2>2, Zenon
  <2> QED BY <1>1, <1>2, <2>1, <2>3 DEF FrameSound, Allowed
<1>6. FramesSound(h, s.safe, s.catalog)
  <2>1. s.history = <<>> => f.screen \in Roots(s.safe) BY <1>1, <1>2 DEF Roots
  <2>2. s.history # <<>> => Follows(s.history[Len(s.history)].screen, f.screen)
    BY <1>1, <1>2 DEF AtRoot, Follows, Children
  <2> QED BY <1>1, <1>2, <1>5, <2>1, <2>2, FramesPushed DEF Sound
<1> HIDE DEF f, h, t
<1>7. /\ t \in ShellRecord /\ t.history = h /\ t.back = "settings" /\ t.screen = "manualTime"
      /\ t.sel = 0 /\ t.view = 0 /\ t.safe = s.safe /\ t.catalog = s.catalog
      /\ t.action = s.action
  BY <1>1, <1>3, <1>4 DEF ShellRecord, Screens
<1>8. Fits(t, t.safe, t.catalog) BY <1>1, <1>7, FirstRowFits
<1>9. Follows("settings", "manualTime") BY DEF Follows, Children
<1>10. ScreenSound(t)
  BY <1>1, <1>2, <1>3, <1>7, <1>8, <1>9 DEF ScreenSound, Allowed, Top, Level
<1>11. BackSound(t) BY <1>2, <1>3, <1>7 DEF BackSound, Top
<1>12. Sound(t) BY <1>6, <1>7, <1>10, <1>11 DEF Sound
<1>13. CatalogFree(t)
  BY <1>1, <1>2, <1>3, <1>7 DEF Bare, CatalogFree, Listings
<1> QED BY <1>7, <1>12, <1>13 DEF Bare, Listings, t

LEMMA NewlyMade ==
  ASSUME NEW wake, NEW motionWake \in BOOLEAN, NEW safe \in BOOLEAN, NEW rtcValid \in BOOLEAN,
         NEW done, done.catalog \in Known, done.blocked \in BOOLEAN, done.saveFailed \in BOOLEAN,
         NEW cancelled \in BOOLEAN, NEW bad \in BOOLEAN
  PROVE  LET t == NewShell(wake, motionWake, safe, rtcValid, done, cancelled, bad) IN
         Sound(t) /\ t.action = "none" /\ t.safe = safe /\ Bare(t)
<1> DEFINE first == Begin(wake, motionWake, safe)
           refused == ~(wake = "button" /\ ~safe) /\ done.blocked /\ ~safe
           kept == FailIf(refused, first)
           heard == IF cancelled THEN [kept EXCEPT !.sleep = FALSE] ELSE kept
           timed == IF rtcValid \/ safe THEN heard
                    ELSE RequireManualTime(heard, wake \in {"button", "cold"})
           listed == SetCatalog(timed, done.catalog)
<1>1. /\ Sound(first) /\ first.action = "none" /\ first.safe = safe /\ Bare(first)
      /\ wake = "button" \/ safe \/ (first.screen = "watchface" /\ first.history = <<>>)
      /\ ~safe => AtRoot(first) /\ first.screen # "error"
  BY Begun
<1> HIDE DEF first
<1>2. /\ Sound(kept) /\ kept.action = "none" /\ kept.safe = safe /\ Bare(kept)
      /\ ~safe => AtRoot(kept)
  <2>1. CASE ~refused BY <1>1, <2>1 DEF FailIf
  <2>2. CASE refused
    <3>1. first.screen = "watchface" /\ first.history = <<>> /\ ~safe BY <1>1, <2>2
    <3>2. kept = Fail(first) BY <2>2 DEF FailIf
    <3> HIDE DEF kept
    <3>3. Len(kept.history) = 1 /\ kept.history[1].screen = "watchface"
      <4> DEFINE e == Enter(first, "error")
      <4>1. e.history = Append(first.history,
                     [screen |-> first.screen, sel |-> first.sel, view |-> first.view])
            /\ e \in ShellRecord
        <5>1. Len(first.history) # HistoryDepth /\ first \in ShellRecord /\ "error" \in Screens
          BY <1>1, <3>1 DEF HistoryDepth, Sound, Screens
        <5> QED BY <5>1, EnteredRecord
      <4> HIDE DEF e
      <4>2. kept = [[e EXCEPT !.screen = "error", !.sel = 0, !.view = 0]
                      EXCEPT !.editing = FALSE, !.action = "none"]
        BY <3>1, <3>2 DEF Fail, Show, e
      <4>3. kept.history = e.history BY <4>1, <4>2 DEF ShellRecord
      <4> QED BY <3>1, <4>1, <4>3
    <3>4. Sound(kept) /\ kept.action = "none" /\ kept.safe = safe /\ Bare(kept)
      BY <1>1, <3>2, Failed
    <3> QED BY <3>3, <3>4 DEF AtRoot
  <2> QED BY <2>1, <2>2
<1> HIDE DEF kept
<1>3. /\ Sound(heard) /\ heard.action = "none" /\ heard.safe = safe /\ Bare(heard)
      /\ ~safe => AtRoot(heard)
  BY <1>2, Sleeps DEF SameStack, Bare, CatalogFree, AtRoot
<1> HIDE DEF heard
<1>4. Sound(timed) /\ timed.action = "none" /\ timed.safe = safe /\ Bare(timed)
  <2> DEFINE interactive == wake \in {"button", "cold"}
  <2>1. interactive \in BOOLEAN OBVIOUS
  <2>2. CASE rtcValid \/ safe BY <1>3, <2>2
  <2>3. CASE ~(rtcValid \/ safe)
    <3>1. timed = RequireManualTime(heard, interactive) BY <2>3
    <3> HIDE DEF timed, interactive
    <3> QED BY <1>3, <2>1, <2>3, <3>1, TimeRequired
  <2> QED BY <2>2, <2>3
<1> HIDE DEF timed
<1>5. Sound(listed) /\ listed.action = "none" /\ listed.safe = safe /\ Bare(listed)
  BY <1>4, CatalogChanged DEF Bare
<1> HIDE DEF listed
<1> DEFINE worse == bad \/ done.saveFailed
<1>6. worse \in BOOLEAN OBVIOUS
<1>7. NewShell(wake, motionWake, safe, rtcValid, done, cancelled, bad) =
        FailIf(worse, listed)
  BY DEF NewShell, listed, timed, heard, kept, first
<1> HIDE DEF worse, refused
<1>8. /\ Sound(FailIf(worse, listed)) /\ FailIf(worse, listed).safe = safe
      /\ FailIf(worse, listed).action = "none" /\ Bare(FailIf(worse, listed))
  BY <1>5, <1>6, MayFail
<1> QED BY <1>7, <1>8

-----------------------------------------------------------------------------
(* What an input makes of the shell.                                       *)

Answers(s, t) == Sound(t) /\ QueueSound(t) /\ t.safe = s.safe /\ t.catalog = s.catalog

Bound ==
  {"removePackage", "runPackage", "purgePackages", "normalReboot", "selectBuiltin",
   "selectWatchface", "startPortal"}

LEMMA Quiet ==
  ASSUME NEW s, s.action \notin Bound
  PROVE  QueueSound(s)
BY DEF QueueSound, Bound

LEMMA BareParent ==
  ASSUME NEW s, Sound(s), s.screen # "watchface" \/ s.history # <<>>, CatalogFree(s)
  PROVE  Bare(RestoreParent(s))
<1> DEFINE t == RestoreParent(s)
<1>1. s.history \in Seq(Frame) BY DEF Sound, ShellRecord
<1>2. CASE s.history = <<>>
  <2>1. t.screen \in Roots(s.safe) /\ t.history = <<>> BY <1>2, ParentRestored
  <2> QED BY <2>1 DEF Bare, CatalogFree, Roots, Listings
<1>3. CASE s.history # <<>>
  <2>1. t.screen = Top(s).screen /\ t.history = Front(s.history) BY <1>3, ParentRestored
  <2> HIDE DEF t
  <2>2. /\ Len(s.history) \in Nat \ {0} /\ Len(t.history) = Len(s.history) - 1
        /\ \A i \in 1..(Len(s.history) - 1) : t.history[i] = s.history[i]
    BY <1>1, <1>3, <2>1, HistoryPopped
  <2>3. t.screen \notin Listings BY <2>1, <2>2 DEF CatalogFree, Top
  <2>4. CatalogFree(t) BY <2>2 DEF CatalogFree
  <2> QED BY <2>3, <2>4 DEF Bare, t
<1> QED BY <1>2, <1>3

LEMMA LeaveSound ==
  ASSUME NEW s, Sound(s), s.action \in {"none", "selectBuiltin", "selectWatchface"}
  PROVE  LET t == Leave(s) IN
         /\ Answers(s, t) /\ Bare(t) /\ t.action = s.action
<1> DEFINE u == EnterWatchface(s)
           t == Leave(s)
<1>1. /\ Sound(u) /\ u.screen = "watchface" /\ u.history = <<>>
      /\ u.action = s.action /\ u.safe = s.safe /\ u.catalog = s.catalog
  BY WatchfaceEntered
<1>2. t = [u EXCEPT !.sleep = TRUE] BY DEF Leave
<1> HIDE DEF u, t
<1>3. Sound(t) /\ SameStack(u, t) /\ t.action = u.action BY <1>1, <1>2, Sleeps
<1>4. QueueSound(t) BY <1>1, <1>3 DEF QueueSound, SameStack
<1>5. Bare(t) BY <1>1, <1>3 DEF Bare, CatalogFree, Listings, SameStack
<1> QED BY <1>1, <1>3, <1>4, <1>5 DEF Answers, SameStack, t

LEMMA QueueAnswers ==
  ASSUME NEW s, Sound(s), NEW action \in Queued, QueueSound(Queue(s, action))
  PROVE  Answers(s, Queue(s, action)) /\ (Bare(s) => Bare(Queue(s, action)))
BY Queues DEF Answers, SameStack, Bare, CatalogFree

LEMMA MoveSound ==
  ASSUME NEW s, Sound(s), s.action = "none", NEW input
  PROVE  LET t == Move(s, input) IN Answers(s, t) /\ (Bare(s) => Bare(t))
<1> DEFINE count == ItemCount(s)
           step == IF input = "up" THEN count - 1 ELSE 1
           row == (s.sel + step) % count
           t == Move(s, input)
<1>1. CASE s.screen = "manualTime" /\ s.editing
  <2>1. t = Queue(s, "adjustTime") BY <1>1 DEF Move
  <2>2. "adjustTime" \in Queued BY DEF Queued
  <2>3. Queue(s, "adjustTime").action \notin Bound BY <2>2, Queues DEF Bound
  <2> HIDE DEF t
  <2> QED BY <2>1, <2>2, <2>3, Quiet, QueueAnswers DEF t
<1>2. CASE ~(s.screen = "manualTime" /\ s.editing)
  <2>1. t = Reveal([s EXCEPT !.sel = row])
    <3>1. s.sel = s["sel"] /\ s \in ShellRecord BY DEF Sound, ShellRecord
    <3> QED BY <1>2, <3>1 DEF Move, ShellRecord
  <2>2. s.sel \in Nat /\ count \in Nat \ {0}
    <3>1. s.sel \in Nat /\ s.safe \in BOOLEAN /\ s.catalog \in Known
      BY DEF Sound, ShellRecord
    <3> QED BY <3>1, RowsCounted, RowsPositive
  <2> HIDE DEF count
  <2>3. row \in Nat /\ row < count BY <2>2
  <2> HIDE DEF t, row
  <2>4. /\ Sound(t) /\ t.action = s.action /\ t.screen = s.screen /\ t.history = s.history
        /\ t.catalog = s.catalog /\ t.safe = s.safe
    BY <2>1, <2>3, RowSelected DEF count
  <2>5. QueueSound(t) BY <2>4, Quiet DEF Bound
  <2> QED BY <2>4, <2>5 DEF Answers, Bare, CatalogFree, t
<1> QED BY <1>1, <1>2

LEMMA BackAnswers ==
  ASSUME NEW s, Sound(s), s.action = "none"
  PROVE  LET t == Back(s) IN
         /\ Answers(s, t) /\ (CatalogFree(s) => Bare(t) \/ s.screen \in Listings)
         /\ s.screen # "manualTime" => t.action = "none"
<1> DEFINE t == Back(s)
<1>1. CASE s.screen = "manualTime" /\ s.editing
  <2>1. t = [s EXCEPT !.editing = FALSE] BY <1>1 DEF Back
  <2> HIDE DEF t
  <2>2. Sound(t) /\ SameStack(s, t) /\ t.action = s.action BY <2>1, Edits
  <2>3. QueueSound(t) BY <2>2, Quiet DEF Bound
  <2> QED BY <1>1, <2>2, <2>3 DEF Answers, SameStack, Bare, CatalogFree, t
<1>2. CASE s.screen = "manualTime" /\ ~s.editing
  <2> DEFINE u == Queue(s, "saveManualTime")
  <2>1. t = RestoreParent(u) BY <1>2 DEF Back
  <2>2. "saveManualTime" \in Queued BY DEF Queued
  <2>3. Sound(u) /\ SameStack(s, u) /\ u.action = "saveManualTime" BY <2>2, Queues
  <2> HIDE DEF t, u
  <2>4. Sound(t) /\ t.action = u.action /\ t.safe = u.safe /\ t.catalog = u.catalog
    BY <1>2, <2>1, <2>3, ParentRestored DEF SameStack
  <2>5. CatalogFree(s) => Bare(t)
    BY <1>2, <2>1, <2>3, BareParent DEF SameStack, CatalogFree
  <2>6. QueueSound(t) BY <2>3, <2>4, Quiet DEF Bound
  <2> QED BY <1>2, <2>3, <2>4, <2>5, <2>6 DEF Answers, SameStack, t
<1>3. CASE s.screen = "watchface"
  <2>1. t = [s EXCEPT !.sleep = TRUE] BY <1>3 DEF Back
  <2> HIDE DEF t
  <2>2. Sound(t) /\ SameStack(s, t) /\ t.action = s.action BY <2>1, Sleeps
  <2>3. QueueSound(t) BY <2>2, Quiet DEF Bound
  <2> QED BY <1>3, <2>2, <2>3 DEF Answers, SameStack, Bare, CatalogFree, t
<1>4. CASE s.screen \notin {"manualTime", "watchface"}
  <2> DEFINE u == RestoreParent(s)
  <2>1. t = IF s.screen = "launcher" /\ u.screen = "watchface"
            THEN [u EXCEPT !.sleep = TRUE] ELSE u
    BY <1>4 DEF Back
  <2>2. Sound(u) /\ u.action = s.action /\ u.safe = s.safe /\ u.catalog = s.catalog
    BY <1>4, ParentRestored
  <2>3. CatalogFree(s) => Bare(u) BY <1>4, BareParent
  <2> HIDE DEF t, u
  <2>4. Sound(t) /\ SameStack(u, t) /\ t.action = u.action
    BY <2>1, <2>2, Sleeps DEF SameStack
  <2>5. QueueSound(t) BY <2>2, <2>4, Quiet DEF Bound
  <2>6. CatalogFree(s) => Bare(t) BY <2>3, <2>4 DEF SameStack, Bare, CatalogFree
  <2> QED BY <2>2, <2>4, <2>5, <2>6 DEF Answers, SameStack, t
<1> QED BY <1>1, <1>2, <1>3, <1>4

(* A screen is entered by Menu, nothing being queued.                      *)
LEMMA EnterAnswers ==
  ASSUME NEW s, Sound(s), s.screen # "error", s.action = "none", NEW screen \in Screens,
         Follows(s.screen, screen), Allowed(screen, s.safe)
  PROVE  LET t == Enter(s, screen) IN
         /\ Answers(s, t) /\ t.action = "none" /\ t.screen = screen
         /\ Bare(s) => Bare(t) \/ screen \in Listings
<1> DEFINE t == Enter(s, screen)
<1>1. /\ Sound(t) /\ t.screen = screen /\ t.catalog = s.catalog /\ t.safe = s.safe
      /\ t.action = s.action /\ (Bare(s) => CatalogFree(t))
  BY Entered
<1> HIDE DEF t
<1>2. QueueSound(t) BY <1>1, Quiet DEF Bound
<1> QED BY <1>1, <1>2 DEF Answers, Bare, t

LEMMA SelectFaceAnswers ==
  ASSUME NEW s, Sound(s), s.action = "none"
  PROVE  Answers(s, SelectFace(s))
<1> DEFINE q(action) == Queue(s, action)
<1>1. ASSUME NEW action \in {"selectBuiltin", "selectWatchface"}
      PROVE  Answers(s, Leave(q(action)))
  <2>1. action \in Queued BY DEF Queued
  <2>2. Sound(q(action)) /\ SameStack(s, q(action)) /\ q(action).action = action
    BY <2>1, Queues
  <2> HIDE DEF q
  <2>3. Answers(q(action), Leave(q(action))) BY <2>2, LeaveSound
  <2> QED BY <2>2, <2>3 DEF Answers, SameStack
<1>2. Answers(s, Fail(s))
  <2>1. QueueSound(Fail(s)) BY Failed, Quiet DEF Bound
  <2> QED BY <2>1, Failed DEF Answers
<1>3. SelectFace(s) \in {Leave(q("selectBuiltin")), Fail(s), Leave(q("selectWatchface"))}
  <2>1. CASE s.sel = 0 BY <2>1 DEF SelectFace
  <2>2. CASE s.sel # 0 /\ s.catalog.quarantined[s.sel] BY <2>2 DEF SelectFace
  <2>3. CASE s.sel # 0 /\ ~s.catalog.quarantined[s.sel] BY <2>3 DEF SelectFace
  <2> QED BY <2>1, <2>2, <2>3
<1> HIDE DEF q
<1> QED BY <1>1, <1>2, <1>3

LEMMA SelectLauncherAnswers ==
  ASSUME NEW s, Sound(s), s.action = "none", s.screen = "launcher"
  PROVE  LET t == SelectLauncher(s) IN
         Answers(s, t) /\ (Bare(s) /\ s.sel >= 2 => Bare(t))
<1> DEFINE screen == LauncherRows[s.sel + 1]
           u == Enter(s, screen)
           t == SelectLauncher(s)
<1>1. s.sel \in {0, 1, 2} /\ ~s.safe
  <2>1. ItemCount(s) = 3 BY DEF ItemCount, LauncherRows
  <2>2. s.sel < 3 /\ s.sel \in Nat BY <2>1, RowsCounted DEF Sound, ScreenSound, Fits, ShellRecord
  <2> QED BY <2>2 DEF Sound, ScreenSound, Allowed, SafeScreens
<1>2. /\ screen \in {"selector", "packageApps", "settings"} /\ screen \in Screens
      /\ s.sel >= 2 => screen = "settings"
  BY <1>1 DEF LauncherRows, Screens
<1>3. t = IF u.screen = "selector" THEN Reveal([u EXCEPT !.sel = u.catalog.active]) ELSE u
  BY DEF SelectLauncher
<1> HIDE DEF screen, t
<1>4. Follows("launcher", screen) /\ Allowed(screen, s.safe)
  BY <1>1, <1>2 DEF Follows, Children, Allowed
<1>5. /\ Answers(s, u) /\ u.action = "none" /\ u.screen = screen
      /\ Bare(s) => Bare(u) \/ screen \in Listings
  BY <1>2, <1>4, EnterAnswers
<1> HIDE DEF u
<1>6. CASE screen = "selector"
  <2> DEFINE c == u.catalog
  <2>1. c \in Known /\ Sound(u) /\ u.safe = s.safe BY <1>5 DEF Answers, Sound, ShellRecord
  <2>2. c.active \in Nat /\ c.active <= Len(c.quarantined) /\ Len(c.quarantined) \in Nat
    BY <2>1, KnownShape DEF CatalogShape
  <2>3. ItemCount(u) = 1 + Len(c.quarantined)
    BY <1>1, <1>5, <1>6, <2>1 DEF ItemCount, FaceCount
  <2>4. c.active < ItemCount(u) BY <2>2, <2>3
  <2>5. t = Reveal([u EXCEPT !.sel = c.active]) BY <1>3, <1>5, <1>6
  <2> HIDE DEF c
  <2>6. /\ Sound(t) /\ t.action = u.action /\ t.catalog = u.catalog /\ t.safe = u.safe
    BY <2>1, <2>2, <2>4, <2>5, RowSelected
  <2>7. QueueSound(t) BY <1>5, <2>6, Quiet DEF Bound
  <2> QED BY <1>2, <1>5, <1>6, <2>6, <2>7 DEF Answers, t
<1>7. CASE screen # "selector"
  BY <1>2, <1>3, <1>5, <1>7 DEF Listings, t
<1> QED BY <1>6, <1>7

LEMMA SelectSettingsAnswers ==
  ASSUME NEW s, Sound(s), s.action = "none", s.screen = "settings",
         NEW home \in 0..(Zones - 1)
  PROVE  LET t == SelectSettings(s, home) IN Answers(s, t) /\ (Bare(s) => Bare(t))
<1> DEFINE row == SettingsRows[s.sel + 1]
           u == Enter(s, row)
           t == SelectSettings(s, home)
<1>1. s.sel \in 0..10 /\ ~s.safe
  <2>1. ItemCount(s) = 11 BY DEF ItemCount, SettingsRows
  <2>2. s.sel < 11 /\ s.sel \in Nat
    BY <2>1, RowsCounted DEF Sound, ScreenSound, Fits, ShellRecord
  <2> QED BY <2>2 DEF Sound, ScreenSound, Allowed, SafeScreens
<1>2. row = "save" \/ (row \in Screens /\ row \in Children["settings"])
  BY <1>1 DEF SettingsRows, Screens, Children
<1>3. "saveSettings" \in Queued /\ "syncNtp" \in Queued BY DEF Queued
<1>4. CASE row = "save"
  <2>1. t = Queue(s, "saveSettings") BY <1>4 DEF SelectSettings
  <2> HIDE DEF t
  <2>2. QueueSound(Queue(s, "saveSettings")) BY <1>3, Queues, Quiet DEF Bound
  <2> QED BY <1>3, <2>1, <2>2, QueueAnswers DEF t
<1>5. CASE row # "save"
  <2>1. t = CASE row = "timezone" -> Reveal([u EXCEPT !.sel = home])
              [] row = "ntpSync"  -> Queue(u, "syncNtp")
              [] OTHER            -> u
    BY <1>5 DEF SelectSettings
  <2> HIDE DEF row, t
  <2>2. Follows("settings", row) /\ Allowed(row, s.safe) /\ row \in Screens
        /\ row \notin Listings
    BY <1>1, <1>2, <1>5 DEF Follows, Children, Allowed, Listings
  <2>3. /\ Answers(s, u) /\ u.action = "none" /\ u.screen = row
        /\ Bare(s) => Bare(u) \/ row \in Listings
    BY <2>2, EnterAnswers
  <2> HIDE DEF u
  <2>4. CASE row = "timezone"
    <3>1. Sound(u) /\ ItemCount(u) = Zones /\ home \in Nat /\ home < Zones
      BY <2>3, <2>4, ShellAssumption DEF Answers, ItemCount
    <3>2. t = Reveal([u EXCEPT !.sel = home]) BY <2>1, <2>4
    <3>3. /\ Sound(t) /\ t.action = u.action /\ t.screen = u.screen /\ t.history = u.history
          /\ t.catalog = u.catalog /\ t.safe = u.safe
      BY <3>1, <3>2, RowSelected
    <3>4. QueueSound(t) BY <2>3, <3>3, Quiet DEF Bound
    <3> QED BY <2>2, <2>3, <3>3, <3>4 DEF Answers, Bare, CatalogFree, t
  <2>5. CASE row = "ntpSync"
    <3>1. t = Queue(u, "syncNtp") BY <2>1, <2>5
    <3>2. Sound(u) BY <2>3 DEF Answers
    <3>3. QueueSound(Queue(u, "syncNtp")) BY <1>3, <3>2, Queues, Quiet DEF Bound
    <3>4. Answers(u, t) /\ (Bare(u) => Bare(t)) BY <1>3, <3>1, <3>2, <3>3, QueueAnswers
    <3> QED BY <2>2, <2>3, <3>4 DEF Answers, t
  <2>6. CASE row \notin {"timezone", "ntpSync"}
    <3>1. t = u BY <2>1, <2>6
    <3> QED BY <2>2, <2>3, <3>1 DEF t
  <2> QED BY <2>4, <2>5, <2>6
<1> QED BY <1>4, <1>5

LEMMA SelectSafeModeAnswers ==
  ASSUME NEW s, Sound(s), s.action = "none", s.screen = "safeMode"
  PROVE  Answers(s, SelectSafeMode(s))
<1>1. ASSUME NEW screen \in {"diagnostics", "packageApps"}
      PROVE  Answers(s, Enter(s, screen))
  <2>1. screen \in Screens /\ Follows("safeMode", screen) /\ Allowed(screen, s.safe)
    BY DEF Screens, Follows, Children, Allowed, SafeScreens
  <2> QED BY <2>1, EnterAnswers
<1>2. ASSUME NEW action \in {"purgePackages", "normalReboot"}
      PROVE  Answers(s, Queue(s, action))
  <2>1. action \in Queued BY DEF Queued
  <2>2. QueueSound(Queue(s, action)) BY <2>1, Queues DEF QueueSound, SameStack
  <2> QED BY <2>1, <2>2, QueueAnswers
<1>3. SelectSafeMode(s) \in {Enter(s, "diagnostics"), Enter(s, "packageApps"),
                             Queue(s, "purgePackages"), Queue(s, "normalReboot")}
  <2>1. CASE s.sel = 0 BY <2>1 DEF SelectSafeMode
  <2>2. CASE s.sel = 1 BY <2>2 DEF SelectSafeMode
  <2>3. CASE s.sel \notin {0, 1} BY <2>3 DEF SelectSafeMode
  <2> QED BY <2>1, <2>2, <2>3
<1> QED BY <1>1, <1>2, <1>3

LEMMA SelectPackageAnswers ==
  ASSUME NEW s, Sound(s), s.action = "none", s.screen = "packageApps"
  PROVE  Answers(s, SelectPackage(s))
<1>1. ASSUME NEW action \in {"removePackage", "runPackage"}
      PROVE  Answers(s, Queue(s, action))
  <2>1. action \in Queued BY DEF Queued
  <2>2. QueueSound(Queue(s, action)) BY <2>1, Queues DEF QueueSound, SameStack
  <2> QED BY <2>1, <2>2, QueueAnswers
<1>2. Answers(s, s) BY Quiet DEF Answers, Bound
<1>3. SelectPackage(s) \in {s, Queue(s, "removePackage"), Queue(s, "runPackage")}
  BY DEF SelectPackage
<1> QED BY <1>1, <1>2, <1>3

LEMMA OpenMenuAnswers ==
  ASSUME NEW s, Sound(s), s.action = "none", s.screen = "watchface"
  PROVE  LET t == OpenMenu(s) IN Answers(s, t) /\ (Bare(s) => Bare(t))
<1> DEFINE screen == IF s.safe THEN "safeMode" ELSE "launcher"
<1>1. screen \in Screens /\ Follows("watchface", screen) /\ Allowed(screen, s.safe)
      /\ screen \notin Listings
  BY DEF Screens, Follows, Children, Allowed, SafeScreens, Listings
<1>2. OpenMenu(s) = Enter(s, screen) BY DEF OpenMenu
<1> HIDE DEF screen
<1> QED BY <1>1, <1>2, EnterAnswers

(* What the catalog is not read for leaves the lists closed.               *)
NeedsNoCatalog(s, input) ==
  /\ s.screen \notin {"selector", "packageApps", "safeMode"}
  /\ s.screen = "launcher" /\ input = "menu" => s.sel >= 2

LEMMA MenuAnswers ==
  ASSUME NEW s, Sound(s), s.action = "none", NEW home \in 0..(Zones - 1)
  PROVE  LET t == Menu(s, home) IN
         Answers(s, t) /\ (Bare(s) /\ NeedsNoCatalog(s, "menu") => Bare(t))
<1> DEFINE t == Menu(s, home)
<1>1. CASE s.screen = "selector"
  <2>1. t = SelectFace(s) BY <1>1 DEF Menu
  <2> QED BY <1>1, <2>1, SelectFaceAnswers DEF NeedsNoCatalog
<1>2. CASE s.screen = "watchface"
  <2>1. t = OpenMenu(s) BY <1>2 DEF Menu
  <2> QED BY <1>2, <2>1, OpenMenuAnswers
<1>3. CASE s.screen = "launcher"
  <2>1. t = SelectLauncher(s) BY <1>3 DEF Menu
  <2> QED BY <1>3, <2>1, SelectLauncherAnswers DEF NeedsNoCatalog
<1>4. CASE s.screen = "settings"
  <2>1. t = SelectSettings(s, home) BY <1>4 DEF Menu
  <2> QED BY <1>4, <2>1, SelectSettingsAnswers
<1>5. CASE s.screen = "timezone"
  <2> DEFINE u == Queue(s, "saveTimezone")
  <2>1. t = RestoreParent(u) BY <1>5 DEF Menu
  <2>2. "saveTimezone" \in Queued BY DEF Queued
  <2>3. Sound(u) /\ SameStack(s, u) /\ u.action = "saveTimezone" BY <2>2, Queues
  <2> HIDE DEF t, u
  <2>4. Sound(t) /\ t.action = u.action /\ t.safe = u.safe /\ t.catalog = u.catalog
    BY <1>5, <2>1, <2>3, ParentRestored DEF SameStack
  <2>5. CatalogFree(s) => Bare(t)
    BY <1>5, <2>1, <2>3, BareParent DEF SameStack, CatalogFree
  <2>6. QueueSound(t) BY <2>3, <2>4, Quiet DEF Bound
  <2> QED BY <2>3, <2>4, <2>5, <2>6 DEF Answers, SameStack, Bare, t
<1>6. CASE s.screen = "manualTime"
  <2>1. t = [s EXCEPT !.editing = ~s.editing] /\ s.editing \in BOOLEAN
    BY <1>6 DEF Menu, Sound, ShellRecord
  <2> HIDE DEF t
  <2>2. Sound(t) /\ SameStack(s, t) /\ t.action = s.action BY <2>1, Edits
  <2>3. QueueSound(t) BY <2>2, Quiet DEF Bound
  <2> QED BY <2>2, <2>3 DEF Answers, SameStack, Bare, CatalogFree, t
<1>7. CASE s.screen = "packagePortal"
  <2>1. t = Queue(s, "startPortal") BY <1>7 DEF Menu
  <2>2. "startPortal" \in Queued BY DEF Queued
  <2>3. QueueSound(Queue(s, "startPortal")) BY <1>7, <2>2, Queues DEF QueueSound, SameStack
  <2> QED BY <2>1, <2>2, <2>3, QueueAnswers
<1>8. CASE s.screen = "safeMode"
  <2>1. t = SelectSafeMode(s) BY <1>8 DEF Menu
  <2> QED BY <1>8, <2>1, SelectSafeModeAnswers DEF NeedsNoCatalog
<1>9. CASE s.screen = "packageApps"
  <2>1. t = SelectPackage(s) BY <1>9 DEF Menu
  <2> QED BY <1>9, <2>1, SelectPackageAnswers DEF NeedsNoCatalog
<1>10. CASE s.screen \notin {"selector", "watchface", "launcher", "settings", "timezone",
                             "manualTime", "packagePortal", "safeMode", "packageApps"}
  <2>1. t = s BY <1>10 DEF Menu
  <2>2. QueueSound(s) BY Quiet DEF Bound
  <2> QED BY <2>1, <2>2 DEF Answers
<1> QED BY <1>1, <1>2, <1>3, <1>4, <1>5, <1>6, <1>7, <1>8, <1>9, <1>10

LEMMA InputAnswers ==
  ASSUME NEW s, Sound(s), s.action = "none", NEW input, NEW home \in 0..(Zones - 1)
  PROVE  LET t == Input(s, input, home) IN
         Answers(s, t) /\ (Bare(s) /\ NeedsNoCatalog(s, input) => Bare(t))
<1>1. CASE input = "idle"
  <2>1. Input(s, input, home) = Leave(s) BY <1>1 DEF Input
  <2> QED BY <2>1, LeaveSound
<1>2. CASE input = "back"
  <2>1. Input(s, input, home) = Back(s) BY <1>2 DEF Input
  <2> QED BY <2>1, BackAnswers DEF Bare
<1>3. CASE input = "menu"
  <2>1. Input(s, input, home) = Menu(s, home) BY <1>3 DEF Input
  <2> QED BY <1>3, <2>1, MenuAnswers
<1>4. CASE input \notin {"idle", "back", "menu"}
  <2>1. Input(s, input, home) = Move(s, input) BY <1>4 DEF Input
  <2> QED BY <2>1, MoveSound
<1> QED BY <1>1, <1>2, <1>3, <1>4

LEMMA PortalLeft ==
  ASSUME NEW s, Sound(s), s.action = "none", s.screen \in {"packagePortal", "error"}, Bare(s),
         NEW input \in {"back", "idle"}, NEW c \in Known, NEW bad \in BOOLEAN
  PROVE  LET t == FailIf(bad \/ ~c.readable, SetCatalog(Input(s, input, 0), c)) IN
         Sound(t) /\ t.action = "none" /\ Bare(t)
<1> DEFINE u == Input(s, input, 0)
           v == SetCatalog(u, c)
           worse == bad \/ ~c.readable
<1>1. Sound(u) /\ u.action = "none" /\ Bare(u)
  <2>1. CASE input = "back"
    <3>1. u = Back(s) BY <2>1 DEF Input
    <3> QED BY <3>1, BackAnswers DEF Answers, Bare, Listings
  <2>2. CASE input = "idle"
    <3>1. u = Leave(s) BY <2>2 DEF Input
    <3> QED BY <3>1, LeaveSound DEF Answers
  <2> QED BY <2>1, <2>2
<1> HIDE DEF u
<1>2. Sound(v) /\ v.action = "none" /\ Bare(v)
  BY <1>1, CatalogChanged DEF Bare
<1>3. worse \in BOOLEAN OBVIOUS
<1> HIDE DEF v, worse
<1>4. Sound(FailIf(worse, v)) /\ FailIf(worse, v).action = "none" /\ Bare(FailIf(worse, v))
  BY <1>2, <1>3, MayFail
<1> QED BY <1>4 DEF u, v, worse

-----------------------------------------------------------------------------
(* What is drawn.                                                          *)

PackageDrawn == panel' \in {"face", "app"} /\ panel' # panel

Recovered == PackageDrawn => boot'.prepared /\ ~boot'.blocked /\ ~shell'.safe

(* The panel shows the screen, or the record says that it does not.        *)
Presented ==
  ~deferred' => panel' = shell'.screen \/ (panel' = "face" /\ shell'.screen = "watchface")

LEMMA Observed ==
  ASSUME NEW s, Sound(s), s.action = "none", NEW outcome, NEW m, Observe(s, outcome, m)
  PROVE  /\ Sound(shell') /\ SameStack(s, shell') /\ shell'.action = "none"
         /\ outcome # "target" => deferred'
         /\ Bare(s) => Bare(shell')
<1>1. Sound(shell') /\ SameStack(s, shell') /\ shell'.action = "none"
  BY Sleeps DEF Observe, SameStack
<1> QED BY <1>1 DEF Observe, Bare, SameStack, CatalogFree

LEMMA Refreshed ==
  ASSUME NEW s, Sound(s), s.action = "none", NEW cancellable, RefreshShell(s, cancellable)
  PROVE  /\ Sound(shell') /\ shell'.action = "none" /\ shell'.screen \in {s.screen, "error"}
         /\ shell'.safe = s.safe
         /\ ~deferred' => panel' = shell'.screen
         /\ panel' \notin {"face", "app"}
         /\ Bare(s) => Bare(shell')
<1>1. s.screen \in Screens BY DEF Sound, ShellRecord
<1>2. CASE Observe(s, "target", {}) /\ panel' = s.screen
  BY <1>1, <1>2, Observed DEF SameStack, Screens
<1>3. CASE panel' = "partial" /\ \E m \in Masks : Observe(s, "cancelled", m)
  <2>1. PICK m \in Masks : Observe(s, "cancelled", m) BY <1>3
  <2>2. /\ Sound(shell') /\ SameStack(s, shell') /\ shell'.action = "none"
        /\ deferred' /\ (Bare(s) => Bare(shell'))
    BY <2>1, Observed
  <2> QED BY <1>3, <2>2 DEF SameStack
<1>4. ASSUME NEW m, NEW outcome \in {"recovery", "failed"}, Observe(Fail(s), outcome, m)
      PROVE  /\ Sound(shell') /\ shell'.action = "none" /\ shell'.screen = "error"
             /\ shell'.safe = s.safe /\ deferred' /\ (Bare(s) => Bare(shell'))
  <2>1. /\ Sound(Fail(s)) /\ Fail(s).screen = "error" /\ Fail(s).action = "none"
        /\ Fail(s).safe = s.safe /\ (Bare(s) => Bare(Fail(s)))
    BY Failed
  <2> QED BY <1>4, <2>1, Observed DEF SameStack
<1>5. CASE \E m \in SomeOrNone :
             \/ Observe(Fail(s), "recovery", m) /\ panel' = "error"
             \/ Observe(Fail(s), "failed", m) /\ panel' = "unknown"
  BY <1>4, <1>5
<1> QED BY <1>2, <1>3, <1>5 DEF RefreshShell

LEMMA FacePresented ==
  ASSUME NEW s, Sound(s), s.action = "none", s.screen = "watchface", PresentFace(s)
  PROVE  /\ Sound(shell') /\ shell'.action = "none" /\ shell'.safe = s.safe
         /\ Presented /\ (Bare(s) => Bare(shell'))
<1>1. CatalogFree(s) /\ s.catalog \in Known BY ListsOnTop DEF Sound, ShellRecord
<1>2. ASSUME NEW c \in Known
      PROVE  /\ Sound(SetCatalog(s, c)) /\ SetCatalog(s, c).screen = "watchface"
             /\ SetCatalog(s, c).safe = s.safe /\ SetCatalog(s, c).action = "none"
             /\ Bare(SetCatalog(s, c))
  BY <1>1, CatalogChanged DEF Bare, Listings
<1>3. CASE /\ \E c \in Catalogs : c.selected /\ Observe(SetCatalog(s, c), "target", {})
           /\ panel' = "face"
  BY <1>2, <1>3, KnownShape, Observed DEF SameStack, Presented
<1>4. CASE \E c \in Catalogs, m \in Masks : Observe(SetCatalog(s, c), "cancelled", m)
  <2>1. PICK c \in Catalogs, m \in Masks : Observe(SetCatalog(s, c), "cancelled", m) BY <1>4
  <2> DEFINE t == SetCatalog(s, c)
  <2>2. /\ Sound(t) /\ t.safe = s.safe /\ t.action = "none" /\ Bare(t)
    BY <1>2, KnownShape
  <2> HIDE DEF t
  <2>3. Observe(t, "cancelled", m) BY <2>1 DEF t
  <2>4. /\ Sound(shell') /\ SameStack(t, shell') /\ shell'.action = "none"
        /\ deferred' /\ Bare(shell')
    BY <2>2, <2>3, Observed
  <2> QED BY <2>2, <2>4 DEF SameStack, Presented
<1>5. ASSUME NEW c \in Catalogs \cup {s.catalog}, NEW saveFailed \in BOOLEAN,
             RefreshShell(FailIf(saveFailed, SetCatalog(s, c)), FALSE)
      PROVE  /\ Sound(shell') /\ shell'.action = "none" /\ shell'.safe = s.safe
             /\ Presented /\ Bare(shell')
  <2> DEFINE t == FailIf(saveFailed, SetCatalog(s, c))
  <2>1. c \in Known BY <1>1, KnownShape
  <2>2. Sound(t) /\ t.action = "none" /\ t.safe = s.safe /\ Bare(t)
    BY <1>2, <2>1, MayFail
  <2> HIDE DEF t
  <2>3. RefreshShell(t, FALSE) BY <1>5 DEF t
  <2> QED BY <2>2, <2>3, Refreshed DEF Presented
<1> QED BY <1>3, <1>4, <1>5 DEF PresentFace

-----------------------------------------------------------------------------
(* The steps.                                                              *)

StepGood == NavInv' /\ Recovered

(* A step that leaves the boot work as it is and queues nothing.           *)
LEMMA Stepped ==
  ASSUME NavInv, Sound(shell'), shell'.action = "none", boot' = boot,
         Bare(shell) => Bare(shell'), TurnShape', ShownSound', Recovered,
         portal' => /\ at' \in {"present", "loop"}
                    /\ shell'.screen \in {"packagePortal", "error"} /\ Bare(shell')
  PROVE  StepGood
<1>1. ActionSound' BY Quiet DEF ActionSound, Bound
<1>2. BootSound' BY DEF NavInv, BootSound
<1>3. PortalSound' BY DEF PortalSound
<1> QED BY <1>1, <1>2, <1>3 DEF StepGood, NavInv

LEMMA NoTurnShape ==
  ASSUME turn' = NoTurn \/ turn' = turn \/ turn' = [turn EXCEPT !.saved = TRUE], TurnShape
  PROVE  TurnShape'
<1>1. CASE turn' = NoTurn BY <1>1 DEF NoTurn, TurnShape
<1>2. CASE turn' = turn BY <1>2 DEF TurnShape
<1>3. CASE turn' = [turn EXCEPT !.saved = TRUE] BY <1>3 DEF TurnShape
<1> QED BY <1>1, <1>2, <1>3

LEMMA NothingQueued ==
  ASSUME NavInv, at # "act"
  PROVE  Sound(shell) /\ shell.action = "none"
BY DEF NavInv, ActionSound

LEMMA AwakeStep ==
  ASSUME NavInv, at # "act", at' # "act", shell' = shell, boot' = boot, panel' = panel,
         ShownSound', TurnShape',
         portal' => portal /\ at' \in {"present", "loop"}
  PROVE  StepGood
<1>1. Recovered BY DEF Recovered, PackageDrawn
<1>2. Sound(shell') /\ shell'.action = "none" /\ (Bare(shell) => Bare(shell'))
  BY NothingQueued
<1>3. portal' => /\ at' \in {"present", "loop"}
                 /\ shell'.screen \in {"packagePortal", "error"} /\ Bare(shell')
  BY DEF NavInv, PortalSound
<1> QED BY <1>1, <1>2, <1>3, Stepped

LEMMA PressStep ==
  ASSUME NavInv, NEW m, PressIgnoredByPortal(m) \/ PressTaken(m)
  PROVE  StepGood
<1>1. CASE PressIgnoredByPortal(m)
  <2>1. ShownSound' BY <1>1 DEF PressIgnoredByPortal, NavInv, ShownSound
  <2>2. at = "loop" BY <1>1 DEF PressIgnoredByPortal, TakePress, Pressed, InLoop
  <2>3. TurnShape' BY <1>1, NoTurnShape DEF PressIgnoredByPortal, NavInv
  <2> QED BY <1>1, <2>1, <2>2, <2>3, AwakeStep DEF PressIgnoredByPortal
<1>2. CASE PressTaken(m)
  <2>1. at = "loop" /\ at' = "input" BY <1>2 DEF PressTaken, TakePress, Pressed, InLoop
  <2>2. ShownSound' BY <2>1 DEF ShownSound
  <2>3. TurnShape' BY <1>2 DEF PressTaken, NoTurn, TurnShape
  <2> QED BY <1>2, <2>1, <2>2, <2>3, AwakeStep DEF PressTaken
<1> QED BY <1>1, <1>2

LEMMA IdleStep ==
  ASSUME NavInv, Idle
  PROVE  StepGood
<1>1. at = "loop" /\ at' = "input" BY DEF Idle, InLoop
<1>2. ShownSound' BY <1>1 DEF ShownSound
<1>3. TurnShape' BY DEF Idle, NoTurn, TurnShape
<1> QED BY <1>1, <1>2, <1>3, AwakeStep DEF Idle

(* A presentation of s, which is what the shell has become.                *)
LEMMA RefreshStep ==
  ASSUME NavInv, NEW s, Sound(s), s.action = "none", NEW cancellable,
         RefreshShell(s, cancellable), boot' = boot, Bare(shell) => Bare(s),
         turn' = NoTurn \/ turn' = turn, at' # "asleep",
         portal' => /\ at' \in {"present", "loop"}
                    /\ s.screen \in {"packagePortal", "error"} /\ Bare(s)
  PROVE  StepGood
<1>1. /\ Sound(shell') /\ shell'.action = "none" /\ shell'.screen \in {s.screen, "error"}
      /\ ~deferred' => panel' = shell'.screen
      /\ panel' \notin {"face", "app"}
      /\ Bare(s) => Bare(shell')
  BY Refreshed
<1>2. ShownSound' BY <1>1 DEF ShownSound
<1>3. Recovered BY <1>1 DEF Recovered, PackageDrawn
<1>4. TurnShape' BY NoTurnShape DEF NavInv
<1> QED BY <1>1, <1>2, <1>3, <1>4, Stepped

LEMMA InputFailsStep ==
  ASSUME NavInv, InputFails
  PROVE  StepGood
<1>1. at = "loop" BY DEF InputFails, InLoop
<1>2. Sound(shell) BY DEF NavInv
<1> DEFINE s == Fail(shell)
<1>3. Sound(s) /\ s.action = "none" /\ (Bare(shell) => Bare(s)) BY <1>2, Failed
<1>4. /\ RefreshShell(s, FALSE) /\ boot' = boot /\ turn' = turn /\ at' = "inputFailure"
      /\ ~portal'
  BY DEF InputFails
<1> HIDE DEF s
<1> QED BY <1>3, <1>4, RefreshStep

LEMMA BootWork ==
  ASSUME NEW safe \in BOOLEAN, NEW done \in PackageBoot(safe)
  PROVE  /\ done.catalog \in Known /\ done.blocked \in BOOLEAN
         /\ done.saveFailed \in BOOLEAN
<1>1. PICK c \in Known, recovered \in BOOLEAN, failed \in BOOLEAN :
        done = [catalog |-> c, blocked |-> safe \/ ~recovered \/ ~c.readable,
                saveFailed |-> failed /\ c.readable /\ ~safe]
  BY DEF PackageBoot, Known
<1> DEFINE blocked == safe \/ ~recovered \/ ~c.readable
           saveFailed == failed /\ c.readable /\ ~safe
<1>2. blocked \in BOOLEAN /\ saveFailed \in BOOLEAN OBVIOUS
<1>3. done = [catalog |-> c, blocked |-> blocked, saveFailed |-> saveFailed] BY <1>1
<1> HIDE DEF blocked, saveFailed
<1> QED BY <1>2, <1>3

LEMMA EnsureCatalogStep ==
  ASSUME NavInv, EnsureCatalog
  PROVE  StepGood
<1>1. /\ at = "input" /\ ~boot.prepared /\ portal' = portal
  BY DEF EnsureCatalog
<1>2. Sound(shell) /\ shell.action = "none" /\ Bare(shell) /\ ~portal
  BY <1>1, NothingQueued DEF NavInv, BootSound, PortalSound
<1>3. PICK done \in PackageBoot(shell.safe) :
        LET bad == done.saveFailed \/ (done.blocked /\ ~shell.safe) IN
        /\ boot' = [prepared |-> TRUE, blocked |-> done.blocked]
        /\ IF bad
           THEN RefreshShell(Fail(SetCatalog(shell, done.catalog)), FALSE)
                /\ at' = "loop" /\ turn' = NoTurn
           ELSE shell' = SetCatalog(shell, done.catalog)
                /\ UNCHANGED <<deferred, pending, panel, at, turn>>
  BY DEF EnsureCatalog
<1>4. done.catalog \in Known /\ done.blocked \in BOOLEAN
  <2>1. shell.safe \in BOOLEAN BY <1>2 DEF Sound, ShellRecord
  <2> QED BY <2>1, BootWork
<1> DEFINE s == SetCatalog(shell, done.catalog)
           f == Fail(s)
<1>5. Sound(s) /\ s.action = "none" /\ Bare(s)
  BY <1>2, <1>4, CatalogChanged DEF Bare
<1>6. Sound(f) /\ f.action = "none" /\ Bare(f) BY <1>5, Failed
<1>7. \/ RefreshShell(f, FALSE) /\ at' = "loop" /\ turn' = NoTurn
      \/ shell' = s /\ UNCHANGED <<deferred, panel, at, turn>>
  BY <1>3
<1>8. BootSound' BY <1>3, <1>4 DEF BootSound
<1> HIDE DEF s, f
<1>9. CASE RefreshShell(f, FALSE) /\ at' = "loop" /\ turn' = NoTurn
  <2>1. /\ Sound(shell') /\ shell'.action = "none"
        /\ ~deferred' => panel' = shell'.screen
        /\ panel' \notin {"face", "app"}
    BY <1>6, <1>9, Refreshed
  <2>2. ShownSound' BY <1>9, <2>1 DEF ShownSound
  <2>3. Recovered BY <2>1 DEF Recovered, PackageDrawn
  <2>4. TurnShape' BY <1>9, NoTurnShape DEF NavInv
  <2>5. ActionSound' BY <2>1, Quiet DEF ActionSound, Bound
  <2>6. PortalSound' BY <1>1, <1>2 DEF PortalSound
  <2> QED BY <1>8, <2>1, <2>2, <2>3, <2>4, <2>5, <2>6 DEF StepGood, NavInv
<1>10. CASE shell' = s /\ UNCHANGED <<deferred, panel, at, turn>>
  <2>1. ShownSound' BY <1>1, <1>10 DEF ShownSound
  <2>2. Recovered BY <1>10 DEF Recovered, PackageDrawn
  <2>3. TurnShape' BY <1>10, NoTurnShape DEF NavInv
  <2>4. ActionSound' BY <1>5, <1>10, Quiet DEF ActionSound, Bound
  <2>5. PortalSound' BY <1>1, <1>2 DEF PortalSound
  <2> QED BY <1>5, <1>8, <1>10, <2>1, <2>2, <2>3, <2>4, <2>5 DEF StepGood, NavInv
<1> QED BY <1>7, <1>9, <1>10

LEMMA HandleInputStep ==
  ASSUME NavInv, HandleInput
  PROVE  StepGood
<1>1. /\ at = "input" /\ at' = "act" /\ (boot.prepared \/ ~CatalogNeeded)
      /\ boot' = boot /\ portal' = portal /\ turn' = turn /\ panel' = panel
  BY DEF HandleInput
<1>2. Sound(shell) /\ shell.action = "none" /\ ~portal
  BY <1>1, NothingQueued DEF NavInv, PortalSound
<1>3. PICK home \in 0..(Zones - 1) : shell' = Input(shell, turn.input, home)
  BY DEF HandleInput
<1>4. shell.sel \in Nat BY <1>2 DEF Sound, ShellRecord
<1>5. ~CatalogNeeded => NeedsNoCatalog(shell, turn.input)
  BY <1>4 DEF CatalogNeeded, NeedsNoCatalog
<1>6. /\ Answers(shell, shell')
      /\ Bare(shell) /\ NeedsNoCatalog(shell, turn.input) => Bare(shell')
  BY <1>2, <1>3, InputAnswers
<1>7. ActionSound' BY <1>1, <1>6 DEF ActionSound, Answers
<1>8. BootSound' BY <1>1, <1>5, <1>6 DEF NavInv, BootSound
<1>9. PortalSound' BY <1>1, <1>2 DEF PortalSound
<1>10. ShownSound' BY <1>1 DEF ShownSound
<1>11. TurnShape' BY <1>1, NoTurnShape DEF NavInv
<1>12. Recovered BY <1>1 DEF Recovered, PackageDrawn
<1> QED BY <1>6, <1>7, <1>8, <1>9, <1>10, <1>11, <1>12 DEF StepGood, NavInv, Answers

LEMMA PortalEndsStep ==
  ASSUME NavInv, PortalEnds
  PROVE  StepGood
<1>1. /\ at = "loop" /\ portal /\ ~portal' /\ at' = "present" /\ boot' = boot
      /\ panel' = panel
  BY DEF PortalEnds, InLoop
<1>2. /\ Sound(shell) /\ shell.action = "none" /\ Bare(shell)
      /\ shell.screen \in {"packagePortal", "error"}
  BY <1>1, NothingQueued DEF NavInv, PortalSound
<1>3. PICK input \in {"back", "idle"} :
        /\ PortalExit(input)
        /\ turn' = [NoTurn EXCEPT !.from = shell.screen, !.input = input]
  BY DEF PortalEnds
<1>4. PICK c \in Known, bad \in BOOLEAN :
        shell' = FailIf(bad \/ ~c.readable, SetCatalog(Input(shell, input, 0), c))
  BY <1>3 DEF PortalExit, Known
<1>5. Sound(shell') /\ shell'.action = "none" /\ Bare(shell')
  BY <1>2, <1>4, PortalLeft
<1>6. TurnShape' BY <1>3 DEF NoTurn, TurnShape
<1>7. ShownSound' BY <1>1 DEF ShownSound
<1>8. Recovered BY <1>1 DEF Recovered, PackageDrawn
<1> QED BY <1>1, <1>5, <1>6, <1>7, <1>8, Stepped

LEMMA PresentStep ==
  ASSUME NavInv, Present
  PROVE  StepGood
<1>1. at = "present" /\ at' = "loop" /\ turn' = NoTurn /\ boot' = boot /\ portal' = portal
  BY DEF Present
<1>2. Sound(shell) /\ shell.action = "none" BY <1>1, NothingQueued
<1>3. portal => shell.screen \in {"packagePortal", "error"} /\ Bare(shell)
  BY DEF NavInv, PortalSound
<1>4. CASE RefreshShell(shell, ~Cuts(shell))
  <2> DEFINE cancellable == ~Cuts(shell)
  <2>1. RefreshShell(shell, cancellable) BY <1>4
  <2> HIDE DEF cancellable
  <2> QED BY <1>1, <1>2, <1>3, <2>1, RefreshStep
<1>5. CASE shell.screen = "watchface" /\ FaceRuns(shell) /\ PresentFace(shell)
  <2>1. /\ Sound(shell') /\ shell'.action = "none" /\ shell'.safe = shell.safe
        /\ Presented /\ (Bare(shell) => Bare(shell'))
    BY <1>2, <1>5, FacePresented
  <2>2. ShownSound' BY <1>1, <2>1 DEF ShownSound, Presented
  <2>3. ~shell.safe /\ ~boot.blocked /\ boot.prepared
    BY <1>5 DEF FaceRuns, FaceMayRun, NavInv, BootSound
  <2>4. Recovered BY <1>1, <2>1, <2>3 DEF Recovered
  <2>5. TurnShape' BY <1>1, NoTurnShape DEF NavInv
  <2>6. ~portal' BY <1>1, <1>3, <1>5
  <2> QED BY <1>1, <2>1, <2>2, <2>4, <2>5, <2>6, Stepped
<1> QED BY <1>4, <1>5 DEF Present

(* The actions: what the request that was taken leaves behind.             *)
LEMMA TakenSound ==
  ASSUME NavInv, at = "act"
  PROVE  /\ Sound(Taken) /\ SameStack(shell, Taken) /\ Taken.action = "none"
         /\ Bare(shell) => Bare(Taken)
         /\ Taken.sleep = shell.sleep /\ ~portal
<1>1. Taken = Queue(shell, "none") /\ Sound(shell) /\ "none" \in Queued
  BY DEF Taken, Queue, NavInv, Queued
<1>2. Sound(Taken) /\ SameStack(shell, Taken) /\ Taken.action = "none" BY <1>1, Queues
<1>3. Taken.sleep = shell.sleep BY <1>1 DEF Taken, Sound, ShellRecord
<1>4. ~portal BY DEF NavInv, PortalSound
<1> QED BY <1>2, <1>3, <1>4 DEF Bare, CatalogFree, SameStack

(* An action that leaves the panel to the presentation that follows.       *)
LEMMA UnshownStep ==
  ASSUME NavInv, NEW s, Sound(s), s.action = "none", shell' = s, Bare(shell) => Bare(s),
         boot' = boot, panel' = panel, at' \notin {"loop", "tail", "booted", "asleep"},
         turn' = NoTurn \/ turn' = turn \/ turn' = [turn EXCEPT !.saved = TRUE],
         portal' => /\ at' \in {"present", "loop"}
                    /\ s.screen \in {"packagePortal", "error"} /\ Bare(s)
  PROVE  StepGood
<1>1. TurnShape' BY NoTurnShape DEF NavInv
<1>2. ShownSound' BY DEF ShownSound
<1>3. Recovered BY DEF Recovered, PackageDrawn
<1> QED BY <1>1, <1>2, <1>3, Stepped

LEMMA EndsStep ==
  ASSUME NavInv, NEW s, Sound(s), s.action = "none", Bare(shell) => Bare(s), ~portal,
         ActionEnds(s) \/ Saved(s)
  PROVE  StepGood
<1>1. /\ shell' = s /\ boot' = boot /\ panel' = panel /\ at' = "present" /\ portal' = portal
      /\ turn' = turn \/ turn' = [turn EXCEPT !.saved = TRUE]
  BY DEF ActionEnds, ActionDone, Saved
<1> QED BY <1>1, UnshownStep

LEMMA SaveStep ==
  ASSUME NavInv, NoAction \/ AdjustTime \/ SaveSettings \/ SaveTimezone \/ SaveManualTime
  PROVE  StepGood
<1>1. at = "act" BY DEF NoAction, AdjustTime, SaveSettings, SaveTimezone, SaveManualTime, Acting
<1>2. /\ Sound(Taken) /\ Taken.action = "none" /\ ~portal /\ (Bare(shell) => Bare(Taken))
  BY <1>1, TakenSound
<1>3. /\ Sound(Fail(Taken)) /\ Fail(Taken).action = "none"
      /\ Bare(shell) => Bare(Fail(Taken))
  BY <1>2, Failed
<1>4. \/ ActionEnds(Taken) \/ Saved(Taken)
      \/ ActionEnds(Fail(Taken))
  BY DEF NoAction, AdjustTime, SaveSettings, SaveTimezone, SaveManualTime
<1>5. CASE ActionEnds(Taken) \/ Saved(Taken) BY <1>2, <1>5, EndsStep
<1>6. CASE ActionEnds(Fail(Taken)) BY <1>2, <1>3, <1>6, EndsStep
<1> QED BY <1>4, <1>5, <1>6

LEMMA SyncNtpStep ==
  ASSUME NavInv, SyncNtp
  PROVE  StepGood
<1>1. /\ at = "act" /\ RefreshShell(Taken, TRUE) /\ boot' = boot /\ portal' = portal
      /\ IF deferred' THEN at' = "loop" /\ turn' = NoTurn
         ELSE at' = "sync" /\ turn' = [turn EXCEPT !.from = "ntpSync"]
  BY DEF SyncNtp, Acting
<1>2. /\ Sound(Taken) /\ Taken.action = "none" /\ ~portal /\ (Bare(shell) => Bare(Taken))
  BY <1>1, TakenSound
<1>3. CASE deferred'
  <2>1. at' = "loop" /\ turn' = NoTurn BY <1>1, <1>3
  <2> DEFINE s == Taken
  <2> HIDE DEF s
  <2> QED BY <1>1, <1>2, <2>1, RefreshStep DEF s
<1>4. CASE ~deferred'
  <2>1. at' = "sync" /\ turn' = [turn EXCEPT !.from = "ntpSync"] BY <1>1, <1>4
  <2>2. /\ Sound(shell') /\ shell'.action = "none" /\ panel' \notin {"face", "app"}
        /\ Bare(Taken) => Bare(shell')
    BY <1>1, <1>2, Refreshed
  <2>3. TurnShape' BY <2>1 DEF NavInv, TurnShape
  <2>4. ShownSound' BY <2>1 DEF ShownSound
  <2>5. Recovered BY <2>2 DEF Recovered, PackageDrawn
  <2> QED BY <1>1, <1>2, <2>2, <2>3, <2>4, <2>5, Stepped
<1> QED BY <1>3, <1>4

LEMMA SyncEndsStep ==
  ASSUME NavInv, SyncEnds
  PROVE  StepGood
<1>1. at = "sync" BY DEF SyncEnds
<1>2. Sound(shell) /\ shell.action = "none" /\ ~portal
  BY <1>1, NothingQueued DEF NavInv, PortalSound
<1>3. PICK bad \in BOOLEAN : ActionEnds(FailIf(bad, shell)) BY DEF SyncEnds
<1> DEFINE s == FailIf(bad, shell)
<1>4. Sound(s) /\ s.action = "none" /\ (Bare(shell) => Bare(s)) BY <1>2, MayFail
<1>5. ActionEnds(s) BY <1>3
<1> HIDE DEF s
<1> QED BY <1>2, <1>4, <1>5, EndsStep

LEMMA StartPortalStep ==
  ASSUME NavInv, StartPortal
  PROVE  StepGood
<1>1. /\ at = "act" /\ shell.action = "startPortal" /\ boot' = boot /\ turn' = turn
      /\ panel' = panel /\ at' = "present"
      /\ \/ shell' = Taken /\ portal' = TRUE
         \/ shell' = Fail(Taken) /\ portal' = portal
  BY DEF StartPortal, Acting, ActionDone
<1>2. /\ Sound(Taken) /\ Taken.action = "none" /\ ~portal /\ (Bare(shell) => Bare(Taken))
      /\ SameStack(shell, Taken)
  BY <1>1, TakenSound
<1>3. Taken.screen = "packagePortal" /\ Bare(Taken)
  <2>1. Taken.screen = "packagePortal"
    BY <1>1, <1>2 DEF NavInv, ActionSound, QueueSound, SameStack
  <2> QED BY <1>2, <2>1, ListsOnTop DEF Bare, Listings
<1>4. Sound(Fail(Taken)) /\ Fail(Taken).action = "none" /\ Bare(Fail(Taken))
  BY <1>2, <1>3, Failed
<1>5. CASE shell' = Taken /\ portal' = TRUE BY <1>1, <1>2, <1>3, <1>5, UnshownStep
<1>6. CASE shell' = Fail(Taken) /\ portal' = portal BY <1>1, <1>2, <1>4, <1>6, UnshownStep
<1> QED BY <1>1, <1>5, <1>6

(* A catalog that is read back under a screen that is not an error.        *)
LEMMA ListedAgain ==
  ASSUME NavInv, at = "act", shell.screen # "error", NEW c \in Catalogs
  PROVE  LET t == SetCatalog(Taken, c) IN
         /\ Sound(t) /\ t.action = "none" /\ t.screen = shell.screen /\ t.safe = shell.safe
         /\ Bare(shell) => Bare(t)
<1>1. Sound(Taken) /\ SameStack(shell, Taken) /\ Taken.action = "none" BY TakenSound
<1>2. CatalogFree(Taken) BY <1>1, ListsOnTop DEF SameStack
<1>3. c \in Known BY KnownShape
<1> QED BY <1>1, <1>2, <1>3, CatalogChanged DEF SameStack, Bare

LEMMA ReconcileMutationStep ==
  ASSUME NavInv, ReconcileMutation
  PROVE  StepGood
<1>1. at = "act" /\ shell.action \in {"removePackage", "purgePackages"}
  BY DEF ReconcileMutation, Acting
<1>2. /\ Sound(Taken) /\ Taken.action = "none" /\ ~portal /\ (Bare(shell) => Bare(Taken))
  BY <1>1, TakenSound
<1>3. shell.screen # "error" BY <1>1 DEF NavInv, ActionSound, QueueSound
<1>4. CASE ActionEnds(Fail(Taken))
  <2>1. Sound(Fail(Taken)) /\ Fail(Taken).action = "none" /\ (Bare(shell) => Bare(Fail(Taken)))
    BY <1>2, Failed
  <2> QED BY <1>2, <1>4, <2>1, EndsStep
<1>5. ASSUME NEW c \in Catalogs, NEW bad \in BOOLEAN,
             ActionEnds(FailIf(bad, SetCatalog(Taken, c)))
      PROVE  StepGood
  <2> DEFINE t == SetCatalog(Taken, c)
             s == FailIf(bad, t)
  <2>1. Sound(t) /\ t.action = "none" /\ (Bare(shell) => Bare(t))
    BY <1>1, <1>3, ListedAgain
  <2> HIDE DEF t
  <2>2. Sound(s) /\ s.action = "none" /\ (Bare(shell) => Bare(s)) BY <2>1, MayFail
  <2>3. ActionEnds(s) BY <1>5 DEF t
  <2> HIDE DEF s
  <2> QED BY <1>2, <2>2, <2>3, EndsStep
<1> QED BY <1>4, <1>5 DEF ReconcileMutation

LEMMA RunPackageStep ==
  ASSUME NavInv, RunPackage
  PROVE  StepGood
<1>1. at = "act" BY DEF RunPackage, Acting
<1>2. /\ Sound(Taken) /\ Taken.action = "none" /\ ~portal /\ (Bare(shell) => Bare(Taken))
      /\ SameStack(shell, Taken)
  BY <1>1, TakenSound
<1>3. CASE shell.safe \/ boot.blocked
  <2>1. ActionEnds(Fail(Taken)) BY <1>3 DEF RunPackage
  <2>2. Sound(Fail(Taken)) /\ Fail(Taken).action = "none" /\ (Bare(shell) => Bare(Fail(Taken)))
    BY <1>2, Failed
  <2> QED BY <1>2, <2>1, <2>2, EndsStep
<1>4. CASE ~(shell.safe \/ boot.blocked)
  <2>1. /\ at' = "present" /\ boot' = boot /\ portal' = portal /\ turn' = turn
        /\ \E ok \in BOOLEAN, m \in SomeOrNone :
             shell' = [FailIf(~ok, Taken) EXCEPT !.sleep = @ /\ m = {}]
    BY <1>4 DEF RunPackage
  <2>2. PICK ok \in BOOLEAN, m \in SomeOrNone :
          shell' = [FailIf(~ok, Taken) EXCEPT !.sleep = @ /\ m = {}]
    BY <2>1
  <2> DEFINE bad == ~ok
             s == FailIf(bad, Taken)
             sleep == s.sleep /\ m = {}
  <2>3. /\ Sound(s) /\ s.action = "none" /\ (Bare(shell) => Bare(s)) /\ s.safe = shell.safe
    BY <1>2, MayFail DEF SameStack
  <2>4. shell' = [s EXCEPT !.sleep = sleep] /\ sleep \in BOOLEAN
    BY <2>2, <2>3 DEF Sound, ShellRecord
  <2> HIDE DEF s, sleep
  <2>5. Sound(shell') /\ SameStack(s, shell') /\ shell'.action = "none"
    BY <2>3, <2>4, Sleeps
  <2>6. Bare(shell) => Bare(shell') BY <2>3, <2>5 DEF Bare, CatalogFree, SameStack
  <2>7. ~shell.safe /\ ~boot.blocked /\ boot.prepared BY <1>4 DEF NavInv, BootSound
  <2>8. Recovered BY <2>1, <2>3, <2>5, <2>7 DEF Recovered, SameStack
  <2>9. ShownSound' BY <2>1 DEF ShownSound
  <2>10. TurnShape' BY <2>1, NoTurnShape DEF NavInv
  <2> QED BY <1>2, <2>1, <2>5, <2>6, <2>8, <2>9, <2>10, Stepped
<1> QED BY <1>3, <1>4

LEMMA SelectBuiltinStep ==
  ASSUME NavInv, SelectBuiltin
  PROVE  StepGood
<1>1. at = "act" /\ shell.action = "selectBuiltin" BY DEF SelectBuiltin, Acting
<1>2. /\ Sound(Taken) /\ Taken.action = "none" /\ ~portal /\ (Bare(shell) => Bare(Taken))
  BY <1>1, TakenSound
<1>3. shell.screen # "error" BY <1>1 DEF NavInv, ActionSound, QueueSound
<1>4. CASE ActionEnds(Fail(Taken))
  <2>1. Sound(Fail(Taken)) /\ Fail(Taken).action = "none" /\ (Bare(shell) => Bare(Fail(Taken)))
    BY <1>2, Failed
  <2> QED BY <1>2, <1>4, <2>1, EndsStep
<1>5. ASSUME NEW c \in Catalogs, ActionEnds(SetCatalog(Taken, c)) PROVE StepGood
  <2> DEFINE t == SetCatalog(Taken, c)
  <2>1. Sound(t) /\ t.action = "none" /\ (Bare(shell) => Bare(t))
    BY <1>1, <1>3, ListedAgain
  <2>2. ActionEnds(t) BY <1>5
  <2> HIDE DEF t
  <2> QED BY <1>2, <2>1, <2>2, EndsStep
<1> QED BY <1>4, <1>5 DEF SelectBuiltin

LEMMA SelectWatchfaceStep ==
  ASSUME NavInv, SelectWatchface
  PROVE  StepGood
<1>1. at = "act" /\ shell.action = "selectWatchface" BY DEF SelectWatchface, Acting
<1>2. /\ Sound(Taken) /\ Taken.action = "none" /\ ~portal /\ (Bare(shell) => Bare(Taken))
  BY <1>1, TakenSound
<1>3. shell.screen = "watchface" BY <1>1 DEF NavInv, ActionSound, QueueSound
<1>4. CASE SelectionFails
  <2>1. Sound(Fail(Taken)) /\ Fail(Taken).action = "none" /\ (Bare(shell) => Bare(Fail(Taken)))
    BY <1>2, Failed
  <2> QED BY <1>2, <1>4, <2>1, EndsStep DEF SelectionFails
<1>5. CASE ~SelectionFails
  <2>1. /\ FaceMayRun(shell) /\ at' = "loop" /\ turn' = NoTurn /\ boot' = boot
        /\ portal' = portal
        /\ \E c \in Catalogs :
             \/ shell' = SetCatalog(Taken, c) /\ panel' = "face"
             \/ \E m \in Masks : Observe(SetCatalog(Taken, c), "cancelled", m)
    BY <1>5 DEF SelectWatchface
  <2>2. PICK c \in Catalogs :
             \/ shell' = SetCatalog(Taken, c) /\ panel' = "face"
             \/ \E m \in Masks : Observe(SetCatalog(Taken, c), "cancelled", m)
    BY <2>1
  <2> DEFINE t == SetCatalog(Taken, c)
  <2>3. /\ Sound(t) /\ t.action = "none" /\ t.screen = "watchface" /\ t.safe = shell.safe
        /\ Bare(shell) => Bare(t)
    BY <1>1, <1>3, ListedAgain
  <2> HIDE DEF t
  <2>4. \/ shell' = t /\ panel' = "face"
        \/ \E m \in Masks : Observe(t, "cancelled", m)
    BY <2>2 DEF t
  <2>5. /\ Sound(shell') /\ shell'.action = "none" /\ shell'.safe = shell.safe /\ Presented
        /\ Bare(shell) => Bare(shell')
    <3>1. CASE shell' = t /\ panel' = "face" BY <2>3, <3>1 DEF Presented
    <3>2. CASE \E m \in Masks : Observe(t, "cancelled", m)
      <4>1. PICK m \in Masks : Observe(t, "cancelled", m) BY <3>2
      <4> QED BY <2>3, <4>1, Observed DEF SameStack, Presented
    <3> QED BY <2>4, <3>1, <3>2
  <2>6. ~shell.safe /\ ~boot.blocked /\ boot.prepared
    BY <2>1 DEF FaceMayRun, NavInv, BootSound
  <2>7. Recovered BY <2>1, <2>5, <2>6 DEF Recovered
  <2>8. ShownSound' BY <2>1, <2>5 DEF ShownSound, Presented
  <2>9. TurnShape' BY <2>1, NoTurnShape DEF NavInv
  <2> QED BY <1>2, <2>1, <2>5, <2>7, <2>8, <2>9, Stepped
<1> QED BY <1>4, <1>5

LEMMA NormalRebootStep ==
  ASSUME NavInv, NormalReboot
  PROVE  StepGood
<1>1. /\ at = "act" /\ at' = "off" /\ ~portal' /\ turn' = NoTurn /\ shell' = Taken
      /\ boot' = boot /\ panel' = panel
  BY DEF NormalReboot, Acting
<1>2. Sound(Taken) /\ Taken.action = "none" /\ (Bare(shell) => Bare(Taken))
  BY <1>1, TakenSound
<1> QED BY <1>1, <1>2, UnshownStep

(* From a wake to the loop, and from the loop to sleep.                    *)
LEMMA BootStep ==
  ASSUME NavInv, Boot
  PROVE  StepGood
<1>1. PICK wake \in IF at = "off" THEN {"cold"} ELSE {"button", "minute", "motion"},
           safe \in BOOLEAN, motionWake \in BOOLEAN, rtcValid \in BOOLEAN, bad \in BOOLEAN :
       LET defer == wake = "button" /\ ~safe
           dark  == wake = "motion" /\ ~motionWake IN
       /\ safe <=> (IF at = "asleep" THEN shell.safe ELSE safe)
       /\ \E done \in IF defer THEN {[catalog |-> Unlisted, blocked |-> TRUE, saveFailed |-> FALSE]}
                      ELSE PackageBoot(safe) :
            /\ boot' = IF defer THEN DeferredBoot
                       ELSE [prepared |-> TRUE, blocked |-> done.blocked]
            /\ \/ /\ panel' = IF at = "off" THEN "unknown" ELSE panel
                  /\ wake # "button" /\ ~dark /\ rtcValid /\ ~safe /\ ~done.blocked
                       => ~done.catalog.selected
                  /\ shell' = NewShell(wake, motionWake, safe, rtcValid, done, FALSE, bad)
                  /\ at' = IF dark THEN "booted" ELSE "bootShow"
                  /\ pending' = {} /\ deferred' = FALSE
               \/ /\ wake # "button" /\ ~dark /\ rtcValid /\ ~safe /\ ~done.blocked
                  /\ done.catalog.selected
                  /\ \E c \in Catalogs \cup {Unlisted}, m \in SomeOrNone,
                        rendered \in BOOLEAN :
                       /\ rendered => m = {}
                       /\ shell' = NewShell(wake, motionWake, safe, rtcValid,
                                            [done EXCEPT !.catalog = c], m # {}, bad)
                       /\ pending' = m /\ deferred' = (m # {})
                       /\ panel' = IF rendered THEN "face" ELSE "partial"
                       /\ at' = IF rendered \/ m # {} THEN "booted" ELSE "bootShow"
       /\ turn' = [NoTurn EXCEPT !.input = "boot",
                                 !.stays = wake = "button" \/ safe \/ ~rtcValid]
  BY Zenon DEF Boot
<1> DEFINE defer == wake = "button" /\ ~safe
           unread == [catalog |-> Unlisted, blocked |-> TRUE, saveFailed |-> FALSE]
<1>2. PICK done :
        /\ defer => done = unread
        /\ ~defer => done \in PackageBoot(safe)
        /\ boot' = IF defer THEN DeferredBoot
                   ELSE [prepared |-> TRUE, blocked |-> done.blocked]
        /\ \/ /\ panel' = IF at = "off" THEN "unknown" ELSE panel
              /\ shell' = NewShell(wake, motionWake, safe, rtcValid, done, FALSE, bad)
              /\ at' \in {"booted", "bootShow"}
           \/ /\ wake # "button" /\ ~safe /\ ~done.blocked
              /\ \E c \in Known, m \in SomeOrNone :
                   shell' = NewShell(wake, motionWake, safe, rtcValid,
                                     [done EXCEPT !.catalog = c], m # {}, bad)
              /\ at' \in {"booted", "bootShow"}
  BY <1>1 DEF Known
<1> HIDE <1>1
<1>3. done.catalog \in Known /\ done.blocked \in BOOLEAN /\ done.saveFailed \in BOOLEAN
  <2>1. CASE defer
    <3>1. done = unread BY <1>2, <2>1
    <3> QED BY <3>1, KnownShape
  <2>2. CASE ~defer
    <3>1. done \in PackageBoot(safe) BY <1>2, <2>2
    <3> QED BY <3>1, BootWork
  <2> QED BY <2>1, <2>2
<1> HIDE DEF defer, unread
<1>4. Sound(shell') /\ shell'.action = "none" /\ shell'.safe = safe /\ Bare(shell')
  <2>1. CASE shell' = NewShell(wake, motionWake, safe, rtcValid, done, FALSE, bad)
    <3> DEFINE cancelled == FALSE
    <3>1. shell' = NewShell(wake, motionWake, safe, rtcValid, done, cancelled, bad)
          /\ cancelled \in BOOLEAN
      BY <2>1
    <3> HIDE DEF cancelled
    <3> QED BY <1>3, <3>1, NewlyMade
  <2>2. ASSUME NEW c \in Known, NEW m,
               shell' = NewShell(wake, motionWake, safe, rtcValid,
                                 [done EXCEPT !.catalog = c], m # {}, bad)
        PROVE  Sound(shell') /\ shell'.action = "none" /\ shell'.safe = safe /\ Bare(shell')
    <3> DEFINE listed == [done EXCEPT !.catalog = c]
               cancelled == m # {}
    <3>1. /\ listed.catalog \in Known /\ listed.blocked \in BOOLEAN
          /\ listed.saveFailed \in BOOLEAN /\ cancelled \in BOOLEAN
      <4>1. CASE defer
        <5>1. done = unread BY <1>2, <4>1
        <5> QED BY <5>1 DEF unread
      <4>2. CASE ~defer
        <5>1. done \in PackageBoot(safe) BY <1>2, <4>2
        <5>2. PICK d \in Known, recovered \in BOOLEAN, failed \in BOOLEAN :
                done = [catalog |-> d, blocked |-> safe \/ ~recovered \/ ~d.readable,
                        saveFailed |-> failed /\ d.readable /\ ~safe]
          BY <5>1 DEF PackageBoot, Known
        <5>3. listed.blocked = done.blocked /\ listed.saveFailed = done.saveFailed
              /\ listed.catalog = c
          BY <5>2
        <5> HIDE DEF listed
        <5> QED BY <1>3, <5>3
      <4> QED BY <4>1, <4>2
    <3>2. shell' = NewShell(wake, motionWake, safe, rtcValid, listed, cancelled, bad)
      BY <2>2
    <3> HIDE DEF listed, cancelled
    <3> QED BY <3>1, <3>2, NewlyMade
  <2> QED BY <1>2, <2>1, <2>2
<1>5. boot' = DeferredBoot \/ boot' = [prepared |-> TRUE, blocked |-> done.blocked]
  BY <1>2
<1>6. BootSound'
  <2>1. CASE boot' = DeferredBoot BY <1>4, <2>1 DEF BootSound, DeferredBoot
  <2>2. CASE boot' = [prepared |-> TRUE, blocked |-> done.blocked]
    BY <1>3, <2>2 DEF BootSound
  <2> QED BY <1>5, <2>1, <2>2
<1>7. at' \in {"booted", "bootShow"} BY <1>2
<1>8. turn'.input = "boot" /\ TurnShape' BY <1>1 DEF NoTurn, TurnShape
<1>9. ShownSound' BY <1>7, <1>8 DEF ShownSound
<1>10. ActionSound' BY <1>4, Quiet DEF ActionSound, Bound
<1>11. PortalSound' BY DEF Boot, PortalSound
<1>12. Recovered
  <2>1. CASE panel' = IF at = "off" THEN "unknown" ELSE panel
    BY <2>1 DEF Recovered, PackageDrawn
  <2>2. CASE wake # "button" /\ ~safe /\ ~done.blocked
    <3>1. boot' = [prepared |-> TRUE, blocked |-> done.blocked] BY <1>2, <2>2 DEF defer
    <3> QED BY <1>4, <2>2, <3>1 DEF Recovered
  <2> QED BY <1>2, <2>1, <2>2
<1> QED BY <1>4, <1>6, <1>8, <1>9, <1>10, <1>11, <1>12 DEF StepGood, NavInv

LEMMA BootShowStep ==
  ASSUME NavInv, BootShow
  PROVE  StepGood
<1>1. /\ at = "bootShow" /\ at' = "booted" /\ turn' = [turn EXCEPT !.input = "none"]
      /\ RefreshShell(shell, FALSE) /\ boot' = boot /\ portal' = portal
  BY DEF BootShow
<1>2. Sound(shell) /\ shell.action = "none" /\ ~portal
  BY <1>1, NothingQueued DEF NavInv, PortalSound
<1>3. /\ Sound(shell') /\ shell'.action = "none" /\ panel' \notin {"face", "app"}
      /\ ~deferred' => panel' = shell'.screen
      /\ Bare(shell) => Bare(shell')
  BY <1>1, <1>2, Refreshed
<1>4. TurnShape' BY <1>1 DEF NavInv, TurnShape
<1>5. ShownSound' BY <1>1, <1>3 DEF ShownSound
<1>6. Recovered BY <1>3 DEF Recovered, PackageDrawn
<1> QED BY <1>1, <1>2, <1>3, <1>4, <1>5, <1>6, Stepped

LEMMA BootedStep ==
  ASSUME NavInv, Booted
  PROVE  StepGood
<1>1. /\ at = "booted" /\ at' \in {"loop", "tail"} /\ turn' = [turn EXCEPT !.stays = FALSE]
      /\ UNCHANGED <<shell, boot, deferred, portal, panel>>
  BY DEF Booted
<1>2. TurnShape' /\ turn'.input = turn.input BY <1>1 DEF NavInv, TurnShape
<1>3. ShownSound' BY <1>1, <1>2 DEF NavInv, ShownSound
<1>4. ~portal BY <1>1 DEF NavInv, PortalSound
<1> QED BY <1>1, <1>2, <1>3, <1>4, AwakeStep

LEMMA SleepStep ==
  ASSUME NavInv, RemainsAwake \/ InputBeforeSleep \/ FailsClosed \/ EntersSleep
  PROVE  StepGood
<1>1. /\ at \in {"tail", "loop"} /\ ~portal' /\ boot' = boot /\ deferred' = deferred
      /\ turn' = turn /\ panel' = panel
      /\ at' = "asleep" => ~deferred
      /\ \/ shell' = shell /\ at' \in {"stuck", "closed", "asleep"}
         \/ shell' = [shell EXCEPT !.sleep = FALSE] /\ at' = "loop"
  BY DEF RemainsAwake, InputBeforeSleep, FailsClosed, EntersSleep, Goes, ShellDone,
         AllowsSleep
<1>2. Sound(shell) /\ shell.action = "none" BY <1>1, NothingQueued
<1>3. /\ Sound(shell') /\ shell'.action = "none" /\ shell'.screen = shell.screen
      /\ Bare(shell) => Bare(shell')
  BY <1>1, <1>2, Sleeps DEF SameStack, Bare, CatalogFree
<1>4. TurnShape' BY <1>1, NoTurnShape DEF NavInv
<1>5. ShownSound' BY <1>1, <1>3 DEF NavInv, ShownSound
<1>6. Recovered BY <1>1 DEF Recovered, PackageDrawn
<1> QED BY <1>1, <1>3, <1>4, <1>5, <1>6, Stepped

-----------------------------------------------------------------------------
(* The invariant.                                                          *)

LEMMA NavInit ==
  ASSUME Init
  PROVE  NavInv
<1>1. Sound(shell) /\ shell.action = "none" /\ Bare(shell) BY Begun DEF Init
<1>2. QueueSound(shell) BY <1>1, Quiet DEF Bound
<1>3. TurnShape BY DEF Init, NoTurn, TurnShape
<1> QED BY <1>1, <1>2, <1>3
      DEF Init, NavInv, ActionSound, BootSound, PortalSound, ShownSound, DeferredBoot

LEMMA NavStep ==
  ASSUME NavInv, [Next]_vars
  PROVE  StepGood
<1>1. CASE UNCHANGED vars
  <2>1. NavInv'
    BY <1>1 DEF vars, NavInv, ActionSound, BootSound, PortalSound, TurnShape, ShownSound
  <2>2. Recovered BY <1>1 DEF vars, Recovered, PackageDrawn
  <2> QED BY <2>1, <2>2 DEF StepGood
<1>2. CASE Pass
  <2>1. CASE \E m \in SUBSET Buttons \ {{}} : PressIgnoredByPortal(m) \/ PressTaken(m)
    BY <2>1, PressStep
  <2> QED BY <1>2, <2>1, IdleStep, PortalEndsStep, InputFailsStep, EnsureCatalogStep,
             HandleInputStep, PresentStep DEF Pass
<1>3. CASE Actions
  BY <1>3, SaveStep, SyncNtpStep, SyncEndsStep, StartPortalStep, ReconcileMutationStep,
     RunPackageStep, SelectBuiltinStep, SelectWatchfaceStep, NormalRebootStep DEF Actions
<1>4. CASE Boot \/ BootShow \/ Booted BY <1>4, BootStep, BootShowStep, BootedStep
<1>5. CASE RemainsAwake \/ InputBeforeSleep \/ FailsClosed \/ EntersSleep
  BY <1>5, SleepStep
<1> QED BY <1>1, <1>2, <1>3, <1>4, <1>5 DEF Next, MainTask

(* Every reachable state satisfies the inductive invariant.                *)
THEOREM NavInvariant == Spec => []NavInv
<1>1. Init => NavInv BY NavInit
<1>2. NavInv /\ [Next]_vars => NavInv' BY NavStep DEF StepGood
<1> QED BY <1>1, <1>2, PTL DEF Spec

(* The selected row of the screen, and of every screen Back returns to, is *)
(* a row of that screen and in its window (shell_policy.c:152).            *)
THEOREM SelectionAlwaysVisible == Spec => []SelectionVisible
<1>1. NavInv => SelectionVisible
  <2> SUFFICES ASSUME NavInv PROVE SelectionVisible OBVIOUS
  <2>1. Sound(shell) /\ shell.history \in Seq(Frame) BY DEF NavInv, Sound, ShellRecord
  <2>2. InWindow(shell)
    BY <2>1, RowsCounted DEF InWindow, Sound, ScreenSound, Fits
  <2>3. ASSUME NEW i \in DOMAIN shell.history
        PROVE  LET frame == shell.history[i] IN
               InWindow([shell EXCEPT !.screen = frame.screen, !.sel = frame.sel,
                                      !.view = frame.view])
    <3> DEFINE frame == shell.history[i]
               s == [shell EXCEPT !.screen = frame.screen, !.sel = frame.sel,
                                  !.view = frame.view]
    <3>1. i \in 1..Len(shell.history) BY <2>1
    <3>2. Fits(frame, shell.safe, shell.catalog)
      BY <2>1, <3>1 DEF Sound, FramesSound, FrameSound
    <3>3. /\ s.screen = frame.screen /\ s.sel = frame.sel /\ s.view = frame.view
          /\ s.safe = shell.safe /\ s.catalog = shell.catalog
      BY <2>1 DEF Sound, ShellRecord
    <3> HIDE DEF s, frame
    <3>4. InWindow(s) BY <3>2, <3>3, RowsCounted DEF InWindow, Fits
    <3> QED BY <3>4 DEF s, frame
  <2> QED BY <2>2, <2>3 DEF SelectionVisible
<1> QED BY <1>1, NavInvariant, PTL

(* The stack is a path of the menu from its root, of which the bound of    *)
(* four never drops a frame (shell_policy.c:107).                          *)
THEOREM HistoryAlwaysPath == Spec => []HistoryIsPath
<1>1. NavInv => HistoryIsPath
  <2> SUFFICES ASSUME NavInv PROVE HistoryIsPath OBVIOUS
  <2> DEFINE h == shell.history
             n == Len(h)
             screens == [i \in DOMAIN h |-> h[i].screen]
             path == Append(screens, shell.screen)
  <2>1. Sound(shell) /\ h \in Seq(Frame) /\ n \in Nat /\ DOMAIN h = 1..n
    BY DEF NavInv, Sound, ShellRecord
  <2>2. screens \in Seq(Screens) /\ Len(screens) = n
    <3>1. ASSUME NEW i \in 1..n PROVE h[i].screen \in Screens
      <4>1. h[i] \in Frame BY <2>1
      <4> QED BY <4>1 DEF Frame
    <3> QED BY <2>1, <3>1
  <2>3. shell.screen \in Screens BY <2>1 DEF Sound, ShellRecord
  <2>4. /\ Len(path) = n + 1 /\ path[n + 1] = shell.screen
        /\ \A i \in 1..n : path[i] = h[i].screen
    <3> HIDE DEF h
    <3>1. \A i \in 1..n : screens[i] = h[i].screen BY <2>1
    <3> HIDE DEF screens, n
    <3> QED BY <2>1, <2>2, <2>3, <3>1
  <2> HIDE DEF path
  <2>5. path[1] \in Roots(shell.safe)
    <3>1. CASE h = <<>> BY <2>4, <3>1 DEF NavInv, Sound, ScreenSound
    <3>2. CASE h # <<>>
      <4>1. 1 \in 1..n BY <2>1, <3>2
      <4> QED BY <2>1, <2>4, <3>2, <4>1 DEF Sound, FramesSound
    <3> QED BY <3>1, <3>2
  <2>6. ASSUME NEW i \in 1..(Len(path) - 1) PROVE Follows(path[i], path[i + 1])
    <3>1. CASE i = n
      <4>1. h # <<>> /\ i \in 1..n BY <2>1, <2>4, <3>1
      <4> QED BY <2>1, <2>4, <3>1, <4>1 DEF Sound, ScreenSound, Top
    <3>2. CASE i # n
      <4>1. i \in 1..(n - 1) /\ i \in 1..n /\ i + 1 \in 1..n BY <2>1, <2>4, <3>2
      <4> QED BY <2>1, <2>4, <4>1 DEF Sound, FramesSound
    <3> QED BY <3>1, <3>2
  <2> QED BY <2>5, <2>6 DEF HistoryIsPath, Roots, Follows, path
<1> QED BY <1>1, NavInvariant, PTL

(* A watch that was drawn on in this wake sleeps with the screen the shell *)
(* believes in on its panel (main.c:1142).                                 *)
THEOREM SleepAlwaysShowsScreen == Spec => []SleepShowsScreen
<1>1. NavInv => SleepShowsScreen BY DEF NavInv, ShownSound, SleepShowsScreen
<1> QED BY <1>1, NavInvariant, PTL

(* No package is run before the boot work was done and went well, and none *)
(* in safe mode, whatever the order of presses, wakes and failures.        *)
THEOREM RecoveredBeforePackages == Spec => NoPackageBeforeRecovery
<1>1. NavInv /\ [Next]_vars
        => [panel' \in {"face", "app"} /\ panel' # panel
              => boot'.prepared /\ ~boot'.blocked /\ ~shell'.safe]_vars
  BY NavStep DEF StepGood, Recovered, PackageDrawn
<1> QED BY <1>1, NavInvariant, PTL DEF Spec, NoPackageBeforeRecovery
=============================================================================
