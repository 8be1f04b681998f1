---------------------------- MODULE SettingsClock ----------------------------
(***************************************************************************)
(* The settings, the home zone and the clock: what the watch's screens and *)
(* the portal's handlers do to the settings of NVS (settings_idf.c), to    *)
(* the copy of them main.c holds, to the UTC offset the RTC service keeps  *)
(* under a key of its own (rtc.c) and to the registers of the chip.        *)
(*                                                                         *)
(* A save writes key after key and may stop after any of them; an offset   *)
(* and a zone are written one after the other; the watch may be reset      *)
(* between any two writes.  The watch's own actions and the handlers of    *)
(* the portal never run at once: while the portal is up main.c does        *)
(* nothing but wait for its end, and stops the server before it goes on.   *)
(*                                                                         *)
(* Of the nine settings five are here, in the order of their writing: the  *)
(* zone, one that is a plain choice (hour24), the face and the two halves  *)
(* of the Wi-Fi credentials.  A zone is the text UTC-h:mm or UTCh:mm of a  *)
(* fixed offset, or another POSIX zone.                                    *)
(***************************************************************************)
EXTENDS Calendar, FiniteSets

CONSTANTS
  Offsets,      \* the fixed offsets a user chooses from
  CustomOffset, \* the offset a POSIX zone has on the day
  Faces,        \* the installed faces
  Networks,     \* the pairs of name and password a user enters
  Instants,     \* what a time server may say, in minutes since 1970
  Entries,      \* the local times entered in the portal, without an offset
  MaxOps,       \* bound: operations asked for
  MaxFaults,    \* bound: writes, reads and saves that fail, resets within one
  MaxEdits      \* bound: presses in the editor of the time

VARIABLES
  nvs,        \* the stored settings
  zone,       \* the stored UTC offset of the RTC service
  regs,       \* the registers of the chip
  rtcOffset,  \* s_utc_offset_minutes
  rtcReady,   \* s_ready
  ram,        \* the settings of main.c
  time,       \* the local time of main.c
  active,     \* the face the package index has as active
  where,      \* boot, shell, portal or the exit from it
  call,       \* the change of the zone that is under way
  report,     \* what the last operation told the user
  wish,       \* history: the values a key may have, by what was asked
  zoneFault,  \* history: a fault hit the zone, the offset or their reading
  ops, faults, edits

stores == <<nvs, zone, regs>>
rtcVars == <<zone, regs, rtcOffset, rtcReady>>
bounds == <<ops, faults, edits>>
vars == <<nvs, zone, regs, rtcOffset, rtcReady, ram, time, active, where, call,
          report, wish, zoneFault, bounds>>

TimezoneOffsets ==
  {-720, -660, -600, -570, -540, -480, -420, -360, -300, -240, -210, -180,
   -120, -60, 0, 60, 120, 180, 210, 240, 270, 300, 330, 345, 360, 390, 420,
   480, 525, 540, 570, 600, 630, 660, 720, 765, 780, 840}

ASSUME OffsetsAssumption == Offsets \subseteq TimezoneOffsets
ASSUME InstantsAssumption == Instants \subseteq Int

-----------------------------------------------------------------------------
(* Values.                                                                 *)

(* POSIX counts west of Greenwich: the sign of the text is the other one.  *)
Fixed(sign, h, m) == [sign |-> sign, hours |-> h, minutes |-> m]
Custom == Fixed("posix", 0, 0)

Magnitude(v) == IF v < 0 THEN -v ELSE v

ZoneOf(offset) ==
  Fixed(IF offset > 0 THEN "-" ELSE "", Magnitude(offset) \div 60, Magnitude(offset) % 60)

ParsedOffset(tz) ==
  LET magnitude == tz.hours * 60 + tz.minutes
  IN  IF tz.sign = "-" THEN magnitude ELSE -magnitude

HasOffset(tz) == tz.sign # "posix" /\ ParsedOffset(tz) \in TimezoneOffsets

Keys == {"tz", "hour24", "face", "ssid", "pass"}
SaveOrder == <<"tz", "hour24", "face", "ssid", "pass">>

Defaults == [tz |-> ZoneOf(0), hour24 |-> TRUE, face |-> "", ssid |-> "", pass |-> ""]

WifiValid(ssid, pass) == pass # "short" /\ (ssid = "" => pass = "")

(* What a load makes of stored values that do not belong together.         *)
Sanitized(s) ==
  IF WifiValid(s.ssid, s.pass) THEN s ELSE [s EXCEPT !.ssid = "", !.pass = ""]

(* The values after a save that stopped after any number of its writes.    *)
PartlySaved(next) ==
  {[k \in Keys |-> IF \E i \in 1..n : SaveOrder[i] = k THEN next[k] ELSE nvs[k]] :
     n \in 0..Len(SaveOrder)}

NoCall == [pc |-> "none"]
NoReport == [kind |-> "none"]

Told(kind) == report' = [kind |-> kind]
Fault == faults < MaxFaults /\ faults' = faults + 1

(* An operation of the watch or of the portal, one of a bounded number.    *)
Op(place) ==
  /\ where = place /\ call = NoCall
  /\ ops < MaxOps /\ ops' = ops + 1

Asked(k, v) == [wish EXCEPT ![k] = @ \cup {v}]
Granted(k, v) == [wish EXCEPT ![k] = {v}]

(* watchy_settings_save of next, of which the user asked for key k.        *)
SaveOk(next, k) ==
  /\ nvs' = next
  /\ wish' = Granted(k, next[k])
  /\ UNCHANGED faults

SaveFails(next, k) ==
  /\ Fault
  /\ nvs' \in PartlySaved(next)
  /\ wish' = Asked(k, next[k])

-----------------------------------------------------------------------------
(* The RTC service.                                                        *)

Local == ReadLocal(regs, rtcOffset)
Readable == rtcReady /\ Local # NoTime

(* watchy_rtc_set_local: the offset is stored before the chip is written.  *)
SetLocalOk(t) ==
  LET utc == FromUnix(ToUnix(t), 0)
  IN  /\ utc # NoTime
      /\ zone' = t.offset /\ rtcOffset' = t.offset
      /\ regs' = Encode(utc)
      /\ rtcReady' = TRUE

(* A time the chip cannot hold is refused; a chip that did not answer at   *)
(* the start takes no time.                                                *)
SetLocalFails(t) ==
  /\ UNCHANGED <<regs, rtcOffset, rtcReady>>
  /\ \/ /\ FromUnix(ToUnix(t), 0) = NoTime \/ ~rtcReady
        /\ UNCHANGED <<zone, faults, zoneFault>>
     \/ Fault /\ zone' \in {zone, t.offset} /\ zoneFault' = TRUE

(* watchy_rtc_set_utc_offset.                                              *)
SetOffsetOk(offset) ==
  /\ zone' = offset /\ rtcOffset' = offset
  /\ UNCHANGED <<regs, rtcReady, faults>>

SetOffsetFails(offset) ==
  /\ Fault
  /\ zone' \in {zone, offset}
  /\ zoneFault' = TRUE
  /\ UNCHANGED <<regs, rtcOffset, rtcReady>>

(* External: the chip counts.                                              *)
Tick ==
  /\ where \in {"shell", "portal"} /\ Decode(regs) # NoTime
  /\ ops < MaxOps /\ ops' = ops + 1
  /\ regs' = Encode(FromUnix(ToUnix(Decode(regs)) + 1, 0))
  /\ report' = NoReport
  /\ UNCHANGED <<nvs, zone, rtcOffset, rtcReady, ram, time, active, where, call,
                 wish, zoneFault, faults, edits>>

-----------------------------------------------------------------------------
(* Boot.                                                                   *)

DefaultTime == [year |-> 2024, month |-> 1, day |-> 1, hour |-> 0, minute |-> 0,
                weekday |-> 1, offset |-> 0]

(* A failed load leaves the RAM copy s, which a later save may store.      *)
LoadFailed(s) ==
  /\ Fault
  /\ ram' = s
  /\ wish' = [k \in Keys |-> wish[k] \cup {s[k]}]
  /\ zoneFault' = TRUE

LoadOk ==
  /\ ram' = Sanitized(nvs)
  /\ UNCHANGED <<wish, zoneFault, faults>>

(* The chip may not answer, or the offset may not be read, also when both  *)
(* are sound; then the offset stays zero and the time is made up.          *)
RtcInit ==
  \E ready \in {Decode(regs) # NoTime, FALSE} :
    /\ rtcReady' = ready
    /\ rtcOffset' = IF ready THEN zone ELSE 0
    /\ time' = IF ready /\ ReadLocal(regs, zone) # NoTime
               THEN ReadLocal(regs, zone) ELSE DefaultTime

Boot ==
  /\ where = "boot"
  /\ where' = "shell"
  /\ LoadOk \/ LoadFailed(Defaults)
  /\ RtcInit
  /\ call' = NoCall /\ report' = NoReport
  /\ UNCHANGED <<stores, active, ops, edits>>

(* Deep sleep, or a reset in the middle of a change of the zone: what is   *)
(* only in RAM is gone.                                                    *)
Reset ==
  /\ where # "boot"
  /\ IF call = NoCall THEN UNCHANGED <<faults, zoneFault>> ELSE Fault /\ zoneFault' = TRUE
  /\ where' = "boot"
  /\ rtcOffset' = 0 /\ rtcReady' = FALSE
  /\ ram' = Defaults /\ time' = DefaultTime
  /\ call' = NoCall /\ report' = NoReport
  /\ UNCHANGED <<stores, active, wish, ops, edits>>

-----------------------------------------------------------------------------
(* Settings from the watch.                                                *)

(* SAVE_SETTINGS: the copy changes first, and keeps the change when the    *)
(* save fails.                                                             *)
ToggleSetting ==
  /\ Op("shell")
  /\ ram' = [ram EXCEPT !.hour24 = ~@]
  /\ \/ SaveOk(ram', "hour24") /\ Told("saved")
     \/ SaveFails(ram', "hour24") /\ Told("failed")
  /\ UNCHANGED <<rtcVars, time, active, where, call, zoneFault, edits>>

(* A face is promoted, removed or quarantined; the portal only removes it. *)
(* The index has the last word and the settings follow it.                 *)
ActiveChanges ==
  /\ \/ Op("shell") /\ active' \in (Faces \cup {""}) \ {active}
     \/ Op("portal") /\ active # "" /\ active' = ""
  /\ Told("none")
  /\ UNCHANGED <<stores, rtcOffset, rtcReady, ram, time, where, call, wish,
                 zoneFault, faults, edits>>

Reconcile ==
  /\ where = "shell" /\ call = NoCall
  /\ ram.face # active
  /\ ram' = [ram EXCEPT !.face = active]
  /\ SaveOk(ram', "face") \/ SaveFails(ram', "face")
  /\ report' = NoReport
  /\ UNCHANGED <<rtcVars, time, active, where, call, zoneFault, ops, edits>>

-----------------------------------------------------------------------------
(* watchy_timezone_action_apply, from the watch and from the portal.       *)

(* Mutant: whether the RTC service needs telling is not asked.             *)
OffsetNotChanged(prior, next) == FALSE

OffsetChanged(prior, next) ==
  ~HasOffset(prior.tz) \/ ParsedOffset(prior.tz) # ParsedOffset(next.tz)

(* The offset first.  "back" is what a rollback would set.                 *)
ChangeZone(who, prior, next, k, back) ==
  LET saving == [pc |-> "save", who |-> who, prior |-> prior, next |-> next,
                 key |-> k, back |-> back]
  IN  \/ /\ ~HasOffset(next.tz)
         /\ Told("failed") /\ UNCHANGED <<rtcVars, call, wish, zoneFault, faults>>
      \/ /\ HasOffset(next.tz) /\ OffsetChanged(prior, next)
         /\ SetOffsetOk(ParsedOffset(next.tz))
         /\ call' = saving /\ wish' = Asked(k, next[k])
         /\ report' = NoReport /\ UNCHANGED zoneFault
      \/ /\ HasOffset(next.tz) /\ OffsetChanged(prior, next)
         /\ SetOffsetFails(ParsedOffset(next.tz))
         /\ Told("failed") /\ UNCHANGED <<call, wish>>
      \/ /\ HasOffset(next.tz) /\ ~OffsetChanged(prior, next)
         /\ call' = saving /\ wish' = Asked(k, next[k])
         /\ report' = NoReport /\ UNCHANGED <<rtcVars, zoneFault, faults>>

(* The settings next; then the time is read again.                         *)
SaveZone ==
  /\ call.pc = "save"
  /\ SaveOk(call.next, call.key)
  /\ zoneFault' = (zoneFault /\ ~OffsetChanged(call.prior, call.next))
  /\ IF call.who = "watch"
     THEN /\ ram' = call.next
          /\ time' = IF Readable THEN Local ELSE time
     ELSE UNCHANGED <<ram, time>>
  /\ Told(IF Readable THEN "zoneSaved" ELSE "failed")
  /\ call' = NoCall
  /\ UNCHANGED <<rtcVars, active, where, ops, edits>>

SaveZoneFails ==
  /\ call.pc = "save"
  /\ SaveFails(call.next, call.key)
  /\ zoneFault' = TRUE
  /\ IF OffsetChanged(call.prior, call.next)
     THEN call' = [call EXCEPT !.pc = "rollback"] /\ UNCHANGED report
     ELSE call' = NoCall /\ Told("failed")
  /\ UNCHANGED <<rtcVars, ram, time, active, where, ops, edits>>

RollBackZone ==
  /\ call.pc = "rollback"
  /\ \/ SetOffsetOk(call.back) /\ UNCHANGED zoneFault
     \/ SetOffsetFails(call.back)
  /\ call' = NoCall /\ Told("failed")
  /\ UNCHANGED <<nvs, ram, time, active, where, wish, ops, edits>>

SaveTimezone(offset) ==
  /\ Op("shell")
  /\ ChangeZone("watch", ram, [ram EXCEPT !.tz = ZoneOf(offset)], "tz", time.offset)
  /\ UNCHANGED <<nvs, ram, time, active, where, edits>>

-----------------------------------------------------------------------------
(* The time from the watch.                                                *)

AdjustTime(field, delta) ==
  /\ where = "shell" /\ call = NoCall
  /\ edits < MaxEdits /\ edits' = edits + 1
  /\ time' = AdjustManualTime(time, field, delta)
  /\ report' = NoReport
  /\ UNCHANGED <<stores, rtcOffset, rtcReady, ram, active, where, call, wish,
                 zoneFault, ops, faults>>

(* SAVE_MANUAL_TIME: the time shown, which may have been read long ago.    *)
SaveManualTime ==
  /\ Op("shell")
  /\ time' = IF HasOffset(ram.tz) THEN [time EXCEPT !.offset = ParsedOffset(ram.tz)] ELSE time
  /\ \/ SetLocalOk(time') /\ report' = [kind |-> "timeSet", time |-> time']
        /\ UNCHANGED <<faults, zoneFault>>
     \/ SetLocalFails(time') /\ Told("failed")
  /\ UNCHANGED <<nvs, ram, active, where, call, wish, edits>>

(* watchy_time_sync_connected with settings s: a fixed zone has its        *)
(* offset, another the one its rules give.                                 *)
SyncedTime(s, utc) ==
  FromUnix(utc, IF HasOffset(s.tz) THEN ParsedOffset(s.tz) ELSE CustomOffset)

(* watchy_time_sync_connected: what the server says is set, or nothing is. *)
SyncConnected(s) ==
  \E utc \in Instants :
    LET t == SyncedTime(s, utc)
    IN  /\ t # NoTime
        /\ \/ /\ SetLocalOk(t) /\ report' = [kind |-> "timeSet", time |-> t]
              /\ UNCHANGED <<faults, zoneFault>>
           \/ SetLocalFails(t) /\ Told("failed")

SyncSavedWifi(s) == s.ssid # "" /\ SyncConnected(s)

SyncNtp ==
  /\ Op("shell")
  /\ \/ /\ SyncSavedWifi(ram)
        /\ time' = IF report'.kind = "timeSet" THEN ReadLocal(regs', rtcOffset') ELSE time
     \/ Told("failed") /\ UNCHANGED <<rtcVars, time, faults, zoneFault>>
  /\ UNCHANGED <<nvs, ram, active, where, call, wish, edits>>

-----------------------------------------------------------------------------
(* The portal: every handler works on what it loads.                       *)

Stored == Sanitized(nvs)

StartPortal ==
  /\ Op("shell")
  /\ where' = "portal" /\ report' = NoReport
  /\ UNCHANGED <<stores, rtcOffset, rtcReady, ram, time, active, call, wish,
                 zoneFault, faults, edits>>

(* A handler that refuses, or whose load fails, changes nothing.           *)
PortalKeeps == UNCHANGED <<ram, time, active, where, edits>>

(* A patch names the zone or leaves it; the other setting is flipped by a  *)
(* patch that leaves the zone.                                             *)
Patches == [zoned : {TRUE}, offset : Offsets] \cup [zoned : {FALSE}, offset : {0}]

Patched(s, patch) ==
  IF patch.zoned THEN [s EXCEPT !.tz = ZoneOf(patch.offset)]
                 ELSE [s EXCEPT !.hour24 = ~@]

(* Mutant: the handler patches the copy of main.c.                         *)
UpdateCopiedSettings(patch) ==
  /\ Op("portal")
  /\ Readable
  /\ ChangeZone("portal", ram, Patched(ram, patch),
                IF patch.zoned THEN "tz" ELSE "hour24", Local.offset)
  /\ PortalKeeps /\ UNCHANGED nvs

UpdateSettings(patch) ==
  /\ Op("portal")
  /\ Readable
  /\ ChangeZone("portal", Stored, Patched(Stored, patch),
                IF patch.zoned THEN "tz" ELSE "hour24", Local.offset)
  /\ PortalKeeps /\ UNCHANGED nvs

(* update_wifi: a name alone keeps the password of the same network.       *)
PatchedWifi(ssid, pass) ==
  [Stored EXCEPT !.ssid = ssid, !.pass = IF pass = "absent" THEN @ ELSE pass]

UpdateWifi(ssid, pass) ==
  LET next == PatchedWifi(ssid, pass)
  IN  /\ Op("portal")
      /\ pass = "absent" => ssid = Stored.ssid
      /\ WifiValid(ssid, next.pass)
      /\ \/ /\ nvs' = next /\ Told("saved")
            /\ wish' = [wish EXCEPT !["ssid"] = {ssid}, !["pass"] = {next.pass}]
            /\ UNCHANGED faults
         \/ /\ Fault /\ nvs' \in PartlySaved(next) /\ Told("failed")
            /\ wish' = [wish EXCEPT !["ssid"] = @ \cup {ssid}, !["pass"] = @ \cup {next.pass}]
      /\ PortalKeeps /\ UNCHANGED <<rtcVars, call, zoneFault>>

(* The older route: a password that is not sent is empty, for an open      *)
(* network.                                                                *)
ProvisionWifi(ssid, pass) == pass # "absent" /\ UpdateWifi(ssid, pass)

(* set_time, with the fixed offset of the stored zone.                     *)
EntryValid(entry) ==
  /\ entry.year \in 2000..2099 /\ entry.month \in 1..12 /\ entry.day \in 1..31
  /\ entry.hour \in 0..23 /\ entry.minute \in 0..59

EnteredTime(entry, offset) ==
  LET t == [year |-> entry.year, month |-> entry.month, day |-> entry.day,
            hour |-> entry.hour, minute |-> entry.minute, weekday |-> 0,
            offset |-> offset]
  IN  IF CalendarValid(t) THEN FromUnix(ToUnix(t), offset) ELSE NoTime

SetTime(entry) ==
  LET t == EnteredTime(entry, ParsedOffset(Stored.tz))
  IN  /\ Op("portal")
      /\ EntryValid(entry) /\ HasOffset(Stored.tz) /\ t # NoTime
      /\ \/ SetLocalOk(t) /\ report' = [kind |-> "timeSet", time |-> t]
            /\ UNCHANGED <<faults, zoneFault>>
         \/ SetLocalFails(t) /\ Told("failed")
      /\ PortalKeeps /\ UNCHANGED <<nvs, call, wish>>

PortalSync ==
  /\ Op("portal")
  /\ Stored.ssid # ""
  /\ SyncConnected(Stored)
  /\ PortalKeeps /\ UNCHANGED <<nvs, call, wish>>

(* The main loop's part of an exit: the settings read back and the face    *)
(* brought in line with the index, in one copy and one save.               *)
Reloaded(s) ==
  \/ s.face = active /\ ram' = s /\ UNCHANGED <<nvs, faults>>
  \/ s.face # active /\ ram' = [s EXCEPT !.face = active] /\ nvs' = ram' /\ UNCHANGED faults
  \/ s.face # active /\ ram' = [s EXCEPT !.face = active] /\ nvs' \in PartlySaved(ram') /\ Fault
  \/ s.face # active /\ ram' = s /\ UNCHANGED nvs /\ Fault

FaceWish(w) == [w EXCEPT !["face"] = @ \cup {active}]

ExitPortal ==
  /\ where = "portal" /\ call = NoCall
  /\ where' = "exit" /\ report' = NoReport
  /\ Reloaded(Sanitized(nvs))
  /\ wish' = FaceWish(wish)
  /\ UNCHANGED <<rtcVars, time, active, call, zoneFault, ops, edits>>

(* The settings could not be read back: the old copy stays, and may be     *)
(* saved for the sake of the face.                                         *)
ExitPortalUnread ==
  /\ where = "portal" /\ call = NoCall
  /\ where' = "shell" /\ report' = NoReport
  /\ faults < MaxFaults
  /\ Reloaded(ram)
  /\ wish' = FaceWish([k \in Keys |-> wish[k] \cup {ram[k]}])
  /\ zoneFault' = TRUE
  /\ UNCHANGED <<rtcVars, time, active, call, ops, edits>>

(* The offset of the service, if it is not the one of the time on show.    *)
RepairOffset ==
  LET offset == ParsedOffset(ram.tz)
  IN  /\ where = "exit"
      /\ where' = "shell"
      /\ IF HasOffset(ram.tz) /\ offset # time.offset
         THEN \/ /\ SetOffsetOk(offset)
                 /\ time' = IF rtcReady /\ ReadLocal(regs, offset) # NoTime
                            THEN ReadLocal(regs, offset) ELSE time
                 /\ UNCHANGED zoneFault
              \/ SetOffsetFails(offset) /\ UNCHANGED time
         ELSE UNCHANGED <<rtcVars, time, faults, zoneFault>>
      /\ UNCHANGED <<nvs, ram, active, call, report, wish, ops, edits>>

-----------------------------------------------------------------------------
Init ==
  /\ \E tz \in {ZoneOf(0), Custom} :
       /\ nvs = [Defaults EXCEPT !.tz = tz]
       /\ zone = IF tz = Custom THEN CustomOffset ELSE 0
       /\ wish = [k \in Keys |-> {nvs[k]}]
  /\ regs \in {LowVoltage} \cup {Encode(FromUnix(utc, 0)) : utc \in Instants}
  /\ rtcOffset = 0 /\ rtcReady = FALSE
  /\ ram = Defaults /\ time = DefaultTime
  /\ active = ""
  /\ where = "boot" /\ call = NoCall /\ report = NoReport
  /\ zoneFault = FALSE
  /\ ops = 0 /\ faults = 0 /\ edits = 0

Watch ==
  \/ Boot \/ Reset \/ Tick
  \/ ToggleSetting \/ ActiveChanges \/ Reconcile
  \/ \E offset \in Offsets : SaveTimezone(offset)
  \/ SaveZone \/ SaveZoneFails \/ RollBackZone
  \/ \E field \in 0..4, delta \in {-1, 1} : AdjustTime(field, delta)
  \/ SaveManualTime \/ SyncNtp \/ StartPortal
  \/ ExitPortal \/ ExitPortalUnread \/ RepairOffset

Portal ==
  \/ \E patch \in Patches : UpdateSettings(patch)
  \/ \E network \in Networks : UpdateWifi(network[1], network[2])
                                \/ ProvisionWifi(network[1], network[2])
  \/ \E entry \in Entries : SetTime(entry)
  \/ PortalSync

Next == Watch \/ Portal

Spec == Init /\ [][Next]_vars

-----------------------------------------------------------------------------
(* Properties.                                                             *)

(* No setting is ever stored that was not asked for: a save writes all of  *)
(* the copy it is given, so a copy that is behind the store would undo     *)
(* what another screen or the portal stored.  After a failed read the      *)
(* copies the program goes on with (the defaults at boot, the old copy     *)
(* after the portal) count as asked for: the code does store those.        *)
StoredAsAsked == \A k \in Keys : nvs[k] \in wish[k]

(* The copies the program saves hold a network and its password, or        *)
(* neither, also after a save of the two stopped between them:             *)
(* watchy_settings_save refuses every other copy, so that no setting could *)
(* be changed any more (settings_idf.c:85).                                *)
CopiesSavable ==
  /\ WifiValid(ram.ssid, ram.pass)
  /\ call # NoCall => WifiValid(call.next.ssid, call.next.pass)

(* The zone of the settings, the offset the RTC service stored and the one *)
(* it converts with are the same, unless a write failed, a reset fell      *)
(* within a change or the settings could not be read: then they may differ *)
(* until a change of the zone to another offset succeeds.                  *)
ZoneAgrees ==
  (HasOffset(nvs.tz) /\ ~zoneFault /\ call = NoCall /\ where # "boot") =>
    /\ zone = ParsedOffset(nvs.tz)
    /\ rtcReady => rtcOffset = zone

(* A time reported as set is the time read back, over the conversion to    *)
(* UTC, the century and the decimals of the chip and the stored offset.    *)
SetIsRead ==
  report.kind = "timeSet" =>
    ReadLocal(regs, rtcOffset) = report.time /\ zone = report.time.offset

=============================================================================
