-------------------------- MODULE SettingsClockProofs --------------------------
(***************************************************************************)
(* For every choice of networks, instants, faces and offsets: nothing is   *)
(* stored that was not asked for, the zone and its offsets agree, and a    *)
(* time that was set is read back; and, at the end, what the panel shows   *)
(* and what the watch keeps of it over a deep sleep (DisplayPresent).      *)
(*                                                                         *)
(* The store may be left between two sets of settings by a save that       *)
(* stops, so the invariant says what every mixture of two sound sets is    *)
(* worth, and of every copy how far it may be behind the store where it is *)
(* used next.  A change of the zone carries the offset it has written and  *)
(* not yet stored the zone of.  That a set time is read back needs the     *)
(* calendar itself: days and dates are each other's inverse, and so are    *)
(* minutes and times, registers and times.                                 *)
(***************************************************************************)
EXTENDS SettingsClock, DisplayPresent, TLAPS

-----------------------------------------------------------------------------
(* What a stored set of settings and a copy of them are worth, against the *)
(* values asked for: a password without its network may be all that a save *)
(* left of a pair, and a load makes it no network at all.                  *)
Whole(s) == DOMAIN s = Keys

Kept(s, w) ==
  /\ Whole(s) /\ \A k \in Keys : s[k] \in w[k]
  /\ s.pass # "short"
  /\ s.ssid = "" => "" \in w["pass"]

Meant(s, w) ==
  /\ Whole(s) /\ \A k \in Keys : s[k] \in w[k]
  /\ WifiValid(s.ssid, s.pass)

(* The change of the zone that is under way.                               *)
CallShape ==
  \/ call = NoCall
  \/ /\ call = [pc |-> call.pc, who |-> call.who, prior |-> call.prior, next |-> call.next,
                key |-> call.key, back |-> call.back]
     /\ call.pc \in {"save", "rollback"}
     /\ call.who = (IF where = "shell" THEN "watch" ELSE "portal")
     /\ where \in {"shell", "portal"}
     /\ call.key \in Keys

Saving == call # NoCall /\ call.pc = "save"

CopySound ==
  /\ Whole(ram) /\ WifiValid(ram.ssid, ram.pass)
  /\ where \in {"shell", "exit"} => Meant(ram, wish)
  /\ Saving => Meant(call.next, wish)
  /\ call # NoCall => WifiValid(call.next.ssid, call.next.pass)

StoreInv ==
  DOMAIN wish = Keys /\ Kept(nvs, wish) /\ CallShape /\ CopySound

(* The zone and its two offsets, also while a change of it is under way.   *)
ZoneSound ==
  /\ ~zoneFault /\ HasOffset(nvs.tz) /\ call = NoCall => zone = ParsedOffset(nvs.tz)
  /\ ~zoneFault /\ where # "boot" /\ rtcReady => rtcOffset = zone
  /\ ~zoneFault /\ where \in {"shell", "exit"} => ram.tz = nvs.tz
  /\ where = "exit" => call = NoCall

SaveSound ==
  Saving =>
    /\ HasOffset(call.next.tz)
    /\ OffsetChanged(call.prior, call.next) \/ ~zoneFault =>
         zone = ParsedOffset(call.next.tz)
    /\ OffsetChanged(call.prior, call.next) => rtcOffset = zone

RollbackSound == call # NoCall /\ call.pc = "rollback" => zoneFault

ZoneInv == ZoneSound /\ SaveSound /\ RollbackSound


(* Twice the same set of names, as keys and as fields.                     *)
LEMMA KeysListed ==
  /\ \A k \in Keys : k \in {"tz", "hour24", "face", "ssid", "pass"}
  /\ "tz" \in Keys /\ "hour24" \in Keys /\ "face" \in Keys /\ "ssid" \in Keys
  /\ "pass" \in Keys
BY DEF Keys

LEMMA MeantIsKept ==
  ASSUME NEW s, NEW w, Meant(s, w)
  PROVE  Kept(s, w)
<1>1. s.pass \in w["pass"] BY KeysListed DEF Meant
<1> QED BY <1>1 DEF Meant, Kept, WifiValid

LEMMA Sanitizes ==
  ASSUME NEW s, NEW w, Kept(s, w)
  PROVE  Meant(Sanitized(s), w) /\ Sanitized(s).tz = s.tz
<1>1. CASE WifiValid(s.ssid, s.pass) BY <1>1 DEF Sanitized, Kept, Meant
<1>2. CASE ~WifiValid(s.ssid, s.pass)
  <2> DEFINE t == Sanitized(s)
  <2>1. t = [s EXCEPT !.ssid = "", !.pass = ""] BY <1>2 DEF Sanitized
  <2>2. s.ssid = "" /\ s.pass # "" BY <1>2 DEF Kept, WifiValid
  <2>3. /\ DOMAIN t = Keys /\ t.ssid = "" /\ t.pass = "" /\ t.tz = s.tz
        /\ t["hour24"] = s["hour24"] /\ t["face"] = s["face"] /\ t["tz"] = s["tz"]
    BY <2>1, KeysListed DEF Kept, Whole
  <2> HIDE DEF t
  <2>4. \A k \in Keys : t[k] \in w[k] BY <2>2, <2>3, KeysListed DEF Kept
  <2> QED BY <2>3, <2>4 DEF Meant, Whole, WifiValid, t
<1> QED BY <1>1, <1>2

(* A save that stops leaves the one, the other, or a password without its  *)
(* network.                                                                *)
LEMMA Mixes ==
  ASSUME NEW w, Kept(nvs, w), NEW next, Meant(next, w), NEW s \in PartlySaved(next)
  PROVE  Kept(s, w) /\ s.tz \in {next.tz, nvs.tz}
<1>1. PICK n \in 0..Len(SaveOrder) :
        s = [k \in Keys |-> IF \E i \in 1..n : SaveOrder[i] = k THEN next[k] ELSE nvs[k]]
  BY DEF PartlySaved
<1>2. DOMAIN s = Keys /\ \A k \in Keys : s[k] \in {next[k], nvs[k]} BY <1>1
<1>3. \A k \in Keys : s[k] \in w[k] BY <1>2 DEF Kept, Meant
<1>4. /\ s.tz \in {next.tz, nvs.tz} /\ s.pass \in {next.pass, nvs.pass}
      /\ s.ssid \in {next.ssid, nvs.ssid} /\ next.pass \in w["pass"]
  BY <1>2, KeysListed DEF Meant
<1> QED BY <1>2, <1>3, <1>4 DEF Kept, Meant, WifiValid, Whole

Wider(w, v) == \A k \in Keys : w[k] \subseteq v[k]

LEMMA Widened ==
  ASSUME NEW w, NEW v, Wider(w, v), NEW s
  PROVE  /\ Kept(s, w) => Kept(s, v)
         /\ Meant(s, w) => Meant(s, v)
BY KeysListed DEF Wider, Kept, Meant

LEMMA AskedFor ==
  ASSUME DOMAIN wish = Keys, NEW k \in Keys, NEW v
  PROVE  /\ DOMAIN Asked(k, v) = Keys /\ Wider(wish, Asked(k, v)) /\ v \in Asked(k, v)[k]
         /\ \A j \in Keys \ {k} : Asked(k, v)[j] = wish[j]
BY DEF Asked, Wider

LEMMA GrantedTo ==
  ASSUME DOMAIN wish = Keys, NEW k \in Keys, NEW v
  PROVE  /\ DOMAIN Granted(k, v) = Keys /\ Granted(k, v)[k] = {v}
         /\ \A j \in Keys \ {k} : Granted(k, v)[j] = wish[j]
BY DEF Granted

(* A copy that was meant but for the key the user has just changed.        *)
LEMMA SaveSucceeds ==
  ASSUME StoreInv, NEW next, NEW k \in Keys, Whole(next), WifiValid(next.ssid, next.pass),
         \A j \in Keys \ {k} : next[j] \in wish[j], SaveOk(next, k)
  PROVE  /\ DOMAIN wish' = Keys /\ Meant(next, wish') /\ Kept(nvs', wish') /\ nvs' = next
<1>1. nvs' = next /\ wish' = Granted(k, next[k]) BY DEF SaveOk
<1>2. DOMAIN wish' = Keys /\ \A j \in Keys : next[j] \in wish'[j]
  BY <1>1, GrantedTo DEF StoreInv
<1>3. Meant(next, wish') BY <1>2 DEF Meant
<1> QED BY <1>1, <1>2, <1>3, MeantIsKept

LEMMA SaveStops ==
  ASSUME StoreInv, NEW next, NEW k \in Keys, Whole(next), WifiValid(next.ssid, next.pass),
         \A j \in Keys \ {k} : next[j] \in wish[j], SaveFails(next, k)
  PROVE  /\ DOMAIN wish' = Keys /\ Meant(next, wish') /\ Kept(nvs', wish')
         /\ Wider(wish, wish') /\ nvs'.tz \in {next.tz, nvs.tz}
<1>1. nvs' \in PartlySaved(next) /\ wish' = Asked(k, next[k]) BY DEF SaveFails
<1>2. /\ DOMAIN wish' = Keys /\ Wider(wish, wish') /\ \A j \in Keys : next[j] \in wish'[j]
  BY <1>1, AskedFor DEF StoreInv
<1>3. Meant(next, wish') /\ Kept(nvs, wish') BY <1>2, Widened DEF Meant, StoreInv
<1>4. Kept(nvs', wish') /\ nvs'.tz \in {next.tz, nvs.tz} BY <1>1, <1>3, Mixes
<1> QED BY <1>2, <1>3, <1>4

-----------------------------------------------------------------------------
(* The store: every step of the watch and of the portal.                   *)
storeVars == <<nvs, ram, wish, where, call>>

LEMMA StoreUntouched ==
  ASSUME StoreInv, UNCHANGED storeVars
  PROVE  StoreInv'
BY DEF storeVars, StoreInv, Kept, Meant, Whole, CallShape, CopySound, Saving

(* What is left to say of a step that changes the stored settings, the     *)
(* copies or the wishes while no change of the zone is under way after it. *)
LEMMA StoreSettled ==
  ASSUME DOMAIN wish' = Keys, Kept(nvs', wish'), call' = NoCall,
         Whole(ram'), WifiValid(ram'.ssid, ram'.pass),
         where' \in {"shell", "exit"} => Meant(ram', wish')
  PROVE  StoreInv'
BY DEF StoreInv, Kept, Meant, Whole, CallShape, CopySound, Saving

LEMMA DefaultsSound ==
  Whole(Defaults) /\ WifiValid(Defaults.ssid, Defaults.pass)
BY DEF Whole, Defaults, Keys, WifiValid

LEMMA BootKeepsStore ==
  ASSUME StoreInv, Boot
  PROVE  StoreInv'
<1>1. CASE LoadOk
  <2>1. Meant(Sanitized(nvs), wish) BY Sanitizes DEF StoreInv
  <2>2. Meant(ram', wish') /\ Kept(nvs', wish') /\ DOMAIN wish' = Keys
    BY <1>1, <2>1 DEF LoadOk, Boot, stores, StoreInv
  <2> QED BY <2>2, StoreSettled DEF Boot, Meant
<1>2. CASE LoadFailed(Defaults)
  <2>1. wish' = [k \in Keys |-> wish[k] \cup {Defaults[k]}] /\ ram' = Defaults
    BY <1>2 DEF LoadFailed
  <2>2. DOMAIN wish' = Keys /\ Wider(wish, wish') /\ \A k \in Keys : ram'[k] \in wish'[k]
    BY <2>1 DEF Wider
  <2>3. Kept(nvs', wish') BY <2>2, Widened DEF Boot, stores, StoreInv
  <2>4. Meant(ram', wish') BY <2>1, <2>2, DefaultsSound DEF Meant
  <2> QED BY <2>2, <2>3, <2>4, StoreSettled DEF Boot, Meant
<1> QED BY <1>1, <1>2 DEF Boot

LEMMA ResetKeepsStore ==
  ASSUME StoreInv, Reset
  PROVE  StoreInv'
<1>1. /\ nvs' = nvs /\ ram' = Defaults /\ wish' = wish /\ where' = "boot" /\ call' = NoCall
  BY DEF Reset, stores
<1> QED BY <1>1, DefaultsSound, StoreSettled DEF StoreInv

(* The copy with one other value under one key that is not of the Wi-Fi.   *)
LEMMA OneChanged ==
  ASSUME NEW s, NEW w, Meant(s, w), NEW k \in {"tz", "hour24", "face"}, NEW v,
         NEW t, t = [s EXCEPT ![k] = v]
  PROVE  /\ Whole(t) /\ WifiValid(t.ssid, t.pass) /\ t[k] = v
         /\ \A j \in Keys \ {k} : t[j] \in w[j] /\ t[j] = s[j]
BY KeysListed DEF Meant, Whole

LEMMA CopySaved ==
  ASSUME StoreInv, where = "shell", where' = where, call = NoCall, call' = call,
         NEW k \in {"hour24", "face"}, NEW v, ram' = [ram EXCEPT ![k] = v],
         SaveOk(ram', k) \/ SaveFails(ram', k)
  PROVE  StoreInv'
<1>1. Meant(ram, wish) BY DEF StoreInv, CopySound
<1>2. k \in Keys BY DEF Keys
<1>3. /\ Whole(ram') /\ WifiValid(ram'.ssid, ram'.pass)
      /\ \A j \in Keys \ {k} : ram'[j] \in wish[j]
  BY <1>1, OneChanged
<1>4. DOMAIN wish' = Keys /\ Meant(ram', wish') /\ Kept(nvs', wish')
  BY <1>2, <1>3, SaveSucceeds, SaveStops
<1> QED BY <1>3, <1>4, StoreSettled

LEMMA ToggleKeepsStore ==
  ASSUME StoreInv, ToggleSetting
  PROVE  StoreInv'
<1>1. PICK v : ram' = [ram EXCEPT !["hour24"] = v] BY DEF ToggleSetting
<1> QED BY <1>1, CopySaved DEF ToggleSetting, Op

LEMMA ReconcileKeepsStore ==
  ASSUME StoreInv, Reconcile
  PROVE  StoreInv'
BY CopySaved DEF Reconcile

Caller(who) == (who = "watch" /\ where = "shell") \/ (who = "portal" /\ where = "portal")
Alterable == {"tz", "hour24"}

LEMMA ChangeKeepsStore ==
  ASSUME StoreInv, NEW who, NEW prior, Meant(prior, wish), NEW k \in Alterable, NEW v,
         NEW next, next = [prior EXCEPT ![k] = v], NEW undo,
         Caller(who), call = NoCall,
         ChangeZone(who, prior, next, k, undo), nvs' = nvs, ram' = ram,
         where' = where
  PROVE  StoreInv'
<1>1. k \in Keys /\ k \in {"tz", "hour24", "face"} BY DEF Keys, Alterable
<1>2. /\ Whole(next) /\ WifiValid(next.ssid, next.pass)
      /\ \A j \in Keys \ {k} : next[j] \in wish[j]
  BY <1>1, OneChanged
<1> DEFINE saving == [pc |-> "save", who |-> who, prior |-> prior, next |-> next,
                      key |-> k, back |-> undo]
<1>3. \/ wish' = wish /\ call' = call
      \/ wish' = Asked(k, next[k]) /\ call' = saving
  BY DEF ChangeZone
<1>4. CASE wish' = wish /\ call' = call
  BY <1>4, StoreUntouched DEF storeVars
<1>5. CASE wish' = Asked(k, next[k]) /\ call' = saving
  <2>1. DOMAIN wish = Keys BY DEF StoreInv
  <2>2. DOMAIN wish' = Keys /\ Wider(wish, wish') /\ next[k] \in wish'[k]
    BY <1>1, <1>5, <2>1, AskedFor
  <2>3. Meant(next, wish') BY <1>2, <2>2 DEF Wider, Meant
  <2>4. Kept(nvs', wish') /\ (Meant(ram, wish) => Meant(ram', wish'))
    BY <2>2, Widened DEF StoreInv
  <2>5. Whole(ram') /\ WifiValid(ram'.ssid, ram'.pass)
        /\ (where' \in {"shell", "exit"} => Meant(ram', wish'))
    BY <2>4 DEF StoreInv, CopySound
  <2>6. CallShape' BY <1>1, <1>5 DEF CallShape, Caller
  <2>7. CopySound' BY <1>5, <2>3, <2>5 DEF CopySound, Saving, Meant
  <2> QED BY <2>2, <2>4, <2>6, <2>7 DEF StoreInv
<1> QED BY <1>3, <1>4, <1>5

LEMMA SaveTimezoneKeepsStore ==
  ASSUME StoreInv, NEW offset, SaveTimezone(offset)
  PROVE  StoreInv'
<1> DEFINE next == [ram EXCEPT !["tz"] = ZoneOf(offset)]
<1>1. Meant(ram, wish) /\ call = NoCall /\ where = "shell"
  BY DEF SaveTimezone, Op, StoreInv, CopySound
<1>2. ChangeZone("watch", ram, next, "tz", time.offset)
      /\ nvs' = nvs /\ ram' = ram /\ where' = where
  BY DEF SaveTimezone
<1> HIDE DEF next
<1>3. next = [ram EXCEPT !["tz"] = ZoneOf(offset)] BY DEF next
<1>4. "tz" \in Alterable /\ Caller("watch") BY <1>1 DEF Alterable, Caller
<1> QED BY <1>1, <1>2, <1>3, <1>4, ChangeKeepsStore

LEMMA StoredIsMeant ==
  ASSUME StoreInv PROVE Meant(Stored, wish) /\ Stored.tz = nvs.tz
BY Sanitizes DEF Stored, StoreInv

LEMMA UpdateKeepsStore ==
  ASSUME StoreInv, NEW patch \in Patches, UpdateSettings(patch)
  PROVE  StoreInv'
<1> DEFINE k == IF patch.zoned THEN "tz" ELSE "hour24"
<1>1. Meant(Stored, wish) /\ call = NoCall /\ where = "portal"
  BY StoredIsMeant DEF UpdateSettings, Op
<1>2. PICK v : Patched(Stored, patch) = [Stored EXCEPT ![k] = v]
  BY DEF Patched
<1>3. /\ ChangeZone("portal", Stored, Patched(Stored, patch), k, Local.offset)
      /\ nvs' = nvs /\ ram' = ram /\ where' = where
  BY DEF UpdateSettings, PortalKeeps
<1>4. k \in Alterable BY DEF Alterable
<1>5. Caller("portal") BY <1>1 DEF Caller
<1> HIDE DEF k
<1> QED BY <1>1, <1>2, <1>3, <1>4, <1>5, ChangeKeepsStore

LEMMA SaveZoneKeepsStore ==
  ASSUME StoreInv, SaveZone
  PROVE  StoreInv'
<1>1. Saving BY DEF SaveZone, Saving, NoCall
<1>2. Meant(call.next, wish) /\ call.key \in Keys
  BY <1>1 DEF StoreInv, CopySound, CallShape, Saving
<1>3. DOMAIN wish' = Keys /\ Meant(call.next, wish') /\ Kept(nvs', wish')
  BY <1>2, SaveSucceeds DEF SaveZone, Meant
<1>4. /\ call' = NoCall /\ where' = where
      /\ ram' = IF call.who = "watch" THEN call.next ELSE ram
  BY DEF SaveZone
<1>5. \/ where = "shell" /\ call.who = "watch"
      \/ where = "portal" /\ call.who = "portal"
  <2>1. /\ call.who = (IF where = "shell" THEN "watch" ELSE "portal")
        /\ where \in {"shell", "portal"}
    BY <1>1 DEF StoreInv, CallShape, Saving
  <2> QED BY <2>1
<1>6. Whole(ram') /\ WifiValid(ram'.ssid, ram'.pass)
      /\ (where' \in {"shell", "exit"} => Meant(ram', wish'))
  BY <1>3, <1>4, <1>5 DEF StoreInv, CopySound, Meant
<1> QED BY <1>3, <1>4, <1>6, StoreSettled

LEMMA SaveZoneFailsKeepsStore ==
  ASSUME StoreInv, SaveZoneFails
  PROVE  StoreInv'
<1>1. Saving BY DEF SaveZoneFails, Saving, NoCall
<1>2. Meant(call.next, wish) /\ call.key \in Keys
  BY <1>1 DEF StoreInv, CopySound, CallShape, Saving
<1>3. DOMAIN wish' = Keys /\ Wider(wish, wish') /\ Kept(nvs', wish')
  BY <1>2, SaveStops DEF SaveZoneFails, Meant
<1>4. ram' = ram /\ where' = where /\ (Meant(ram, wish) => Meant(ram', wish'))
  BY <1>3, Widened DEF SaveZoneFails
<1>5. Whole(ram') /\ WifiValid(ram'.ssid, ram'.pass)
      /\ (where' \in {"shell", "exit"} => Meant(ram', wish'))
  BY <1>4 DEF StoreInv, CopySound
<1>6. CASE OffsetChanged(call.prior, call.next)
  <2>1. call' = [call EXCEPT !.pc = "rollback"] BY <1>6 DEF SaveZoneFails
  <2>2. CallShape' BY <1>1, <1>4, <2>1 DEF StoreInv, CallShape, Saving
  <2>3. CopySound' BY <1>1, <1>5, <2>1 DEF CopySound, Saving, StoreInv, CallShape
  <2> QED BY <1>3, <2>2, <2>3 DEF StoreInv
<1>7. CASE ~OffsetChanged(call.prior, call.next)
  <2>1. call' = NoCall BY <1>7 DEF SaveZoneFails
  <2> QED BY <1>3, <1>5, <2>1, StoreSettled
<1> QED BY <1>6, <1>7

LEMMA RollBackKeepsStore ==
  ASSUME StoreInv, RollBackZone
  PROVE  StoreInv'
<1>1. nvs' = nvs /\ ram' = ram /\ wish' = wish /\ where' = where /\ call' = NoCall
  BY DEF RollBackZone
<1> QED BY <1>1, StoreSettled DEF StoreInv, CopySound

LEMMA WifiKeepsStore ==
  ASSUME StoreInv, NEW ssid, NEW pass, UpdateWifi(ssid, pass)
  PROVE  StoreInv'
<1> DEFINE next == PatchedWifi(ssid, pass)
<1>1. /\ where = "portal" /\ call = NoCall /\ UNCHANGED <<ram, where, call>>
      /\ pass = "absent" => ssid = Stored.ssid
      /\ WifiValid(ssid, next.pass)
  BY DEF UpdateWifi, Op, PortalKeeps
<1>2. Meant(Stored, wish) BY StoredIsMeant
<1>3. /\ Whole(next) /\ next.ssid = ssid
      /\ next["tz"] = Stored["tz"] /\ next["hour24"] = Stored["hour24"]
      /\ next["face"] = Stored["face"]
  BY <1>2 DEF PatchedWifi, Meant, Whole, Keys
<1>4. \/ /\ nvs' = next
         /\ wish' = [wish EXCEPT !["ssid"] = {ssid}, !["pass"] = {next.pass}]
      \/ /\ nvs' \in PartlySaved(next)
         /\ wish' = [wish EXCEPT !["ssid"] = @ \cup {ssid}, !["pass"] = @ \cup {next.pass}]
  BY DEF UpdateWifi
<1> HIDE DEF next
<1>5. DOMAIN wish' = Keys /\ \A k \in Keys : next[k] \in wish'[k]
  BY <1>2, <1>3, <1>4 DEF StoreInv, Meant, Keys
<1>6. Meant(next, wish') BY <1>1, <1>3, <1>5 DEF Meant
<1>7. Kept(nvs', wish')
  <2>1. CASE nvs' = next BY <1>6, <2>1, MeantIsKept
  <2>2. CASE /\ nvs' \in PartlySaved(next)
             /\ wish' = [wish EXCEPT !["ssid"] = @ \cup {ssid}, !["pass"] = @ \cup {next.pass}]
    <3>1. Wider(wish, wish') BY <2>2 DEF StoreInv, Wider, Keys
    <3>2. Kept(nvs, wish') BY <3>1, Widened DEF StoreInv
    <3> QED BY <1>6, <2>2, <3>2, Mixes
  <2> QED BY <1>4, <2>1, <2>2
<1> QED BY <1>1, <1>5, <1>7, StoreSettled DEF StoreInv, CopySound

LEMMA ReloadedSound ==
  ASSUME NEW w, Kept(nvs, w), NEW s, Meant(s, w), active \in w["face"], Reloaded(s)
  PROVE  Meant(ram', w) /\ Kept(nvs', w)
<1> DEFINE t == [s EXCEPT !.face = active]
<1>1. Meant(t, w) BY KeysListed DEF Meant, Whole
<1>2. Kept(t, w) BY <1>1, MeantIsKept
<1>3. \/ ram' = s /\ nvs' = nvs
      \/ ram' = t /\ nvs' = t
      \/ ram' = t /\ nvs' \in PartlySaved(t)
  BY DEF Reloaded
<1> HIDE DEF t
<1>4. nvs' \in PartlySaved(t) => Kept(nvs', w) BY <1>1, Mixes
<1> QED BY <1>1, <1>2, <1>3, <1>4

LEMMA FaceWished ==
  ASSUME NEW w, DOMAIN w = Keys
  PROVE  DOMAIN FaceWish(w) = Keys /\ Wider(w, FaceWish(w)) /\ active \in FaceWish(w)["face"]
BY DEF FaceWish, Wider, Keys

LEMMA ExitKeepsStore ==
  ASSUME StoreInv, ExitPortal
  PROVE  StoreInv'
<1>1. /\ Reloaded(Sanitized(nvs)) /\ wish' = FaceWish(wish) /\ call' = NoCall
  BY DEF ExitPortal
<1>2. DOMAIN wish' = Keys /\ Wider(wish, wish') /\ active \in wish'["face"]
  BY <1>1, FaceWished DEF StoreInv
<1>3. Meant(Sanitized(nvs), wish') /\ Kept(nvs, wish')
  BY <1>2, Sanitizes, Widened DEF StoreInv
<1>4. Meant(ram', wish') /\ Kept(nvs', wish') BY <1>1, <1>2, <1>3, ReloadedSound
<1> QED BY <1>1, <1>2, <1>4, StoreSettled DEF Meant

LEMMA ExitUnreadKeepsStore ==
  ASSUME StoreInv, ExitPortalUnread
  PROVE  StoreInv'
<1> DEFINE w == [k \in Keys |-> wish[k] \cup {ram[k]}]
<1>1. Reloaded(ram) /\ wish' = FaceWish(w) /\ call' = NoCall
  BY DEF ExitPortalUnread
<1>2. DOMAIN w = Keys /\ Wider(wish, w) /\ \A k \in Keys : ram[k] \in w[k] BY DEF Wider
<1> HIDE DEF w
<1>3. DOMAIN wish' = Keys /\ Wider(w, wish') /\ active \in wish'["face"]
  BY <1>1, <1>2, FaceWished
<1>4. Meant(ram, w) /\ Kept(nvs, w) BY <1>2, Widened DEF StoreInv, CopySound, Meant
<1>5. Meant(ram, wish') /\ Kept(nvs, wish') BY <1>3, <1>4, Widened
<1>6. Meant(ram', wish') /\ Kept(nvs', wish') BY <1>1, <1>3, <1>5, ReloadedSound
<1> QED BY <1>1, <1>3, <1>6, StoreSettled DEF Meant

(* Steps that leave the settings and their copies alone, and may move      *)
(* between the watch and the portal.                                       *)
LEMMA StartKeepsStore ==
  ASSUME StoreInv, StartPortal
  PROVE  StoreInv'
<1>1. nvs' = nvs /\ ram' = ram /\ wish' = wish /\ where' = "portal" /\ call' = NoCall
  BY DEF StartPortal, stores, Op
<1> QED BY <1>1, StoreSettled DEF StoreInv, CopySound

LEMMA RepairKeepsStore ==
  ASSUME StoreInv, RepairOffset
  PROVE  StoreInv'
<1>1. /\ nvs' = nvs /\ ram' = ram /\ wish' = wish /\ call' = call
      /\ where = "exit" /\ where' = "shell"
  BY DEF RepairOffset
<1>2. call = NoCall BY <1>1 DEF StoreInv, CallShape
<1> QED BY <1>1, <1>2, StoreSettled DEF StoreInv, CopySound

LEMMA StoreStep ==
  ASSUME StoreInv, [Next]_vars
  PROVE  StoreInv'
<1>1. CASE UNCHANGED vars BY <1>1, StoreUntouched DEF vars, storeVars
<1>2. CASE Boot BY <1>2, BootKeepsStore
<1>3. CASE Reset BY <1>3, ResetKeepsStore
<1>4. CASE Tick BY <1>4, StoreUntouched DEF Tick, storeVars
<1>5. CASE ToggleSetting BY <1>5, ToggleKeepsStore
<1>6. CASE ActiveChanges BY <1>6, StoreUntouched DEF ActiveChanges, storeVars, stores
<1>7. CASE Reconcile BY <1>7, ReconcileKeepsStore
<1>8. CASE \E offset \in Offsets : SaveTimezone(offset) BY <1>8, SaveTimezoneKeepsStore
<1>9. CASE SaveZone BY <1>9, SaveZoneKeepsStore
<1>10. CASE SaveZoneFails BY <1>10, SaveZoneFailsKeepsStore
<1>11. CASE RollBackZone BY <1>11, RollBackKeepsStore
<1>12. CASE \E field \in 0..4, delta \in {-1, 1} : AdjustTime(field, delta)
  <2>1. UNCHANGED storeVars BY <1>12 DEF AdjustTime, storeVars, stores
  <2> QED BY <2>1, StoreUntouched
<1>13. CASE SaveManualTime BY <1>13, StoreUntouched DEF SaveManualTime, storeVars
<1>14. CASE SyncNtp BY <1>14, StoreUntouched DEF SyncNtp, storeVars
<1>15. CASE StartPortal BY <1>15, StartKeepsStore
<1>16. CASE ExitPortal BY <1>16, ExitKeepsStore
<1>17. CASE ExitPortalUnread BY <1>17, ExitUnreadKeepsStore
<1>18. CASE RepairOffset BY <1>18, RepairKeepsStore
<1>19. CASE \E patch \in Patches : UpdateSettings(patch) BY <1>19, UpdateKeepsStore
<1>20. CASE \E network \in Networks : UpdateWifi(network[1], network[2])
                                      \/ ProvisionWifi(network[1], network[2])
  BY <1>20, WifiKeepsStore DEF ProvisionWifi
<1>21. CASE \E entry \in Entries : SetTime(entry)
  <2>1. UNCHANGED storeVars BY <1>21 DEF SetTime, storeVars, PortalKeeps
  <2> QED BY <2>1, StoreUntouched
<1>22. CASE PortalSync BY <1>22, StoreUntouched DEF PortalSync, storeVars, PortalKeeps
<1> QED BY <1>1, <1>2, <1>3, <1>4, <1>5, <1>6, <1>7, <1>8, <1>9, <1>10, <1>11, <1>12, <1>13,
           <1>14, <1>15, <1>16, <1>17, <1>18, <1>19, <1>20, <1>21, <1>22
        DEF Next, Watch, Portal

LEMMA StoreInit ==
  ASSUME Init PROVE StoreInv
<1>1. PICK tz \in {ZoneOf(0), Custom} : nvs = [Defaults EXCEPT !.tz = tz] BY DEF Init
<1>2. wish = [k \in Keys |-> {nvs[k]}] /\ ram = Defaults /\ where = "boot" /\ call = NoCall
  BY DEF Init
<1>3. Whole(nvs) /\ nvs.pass = "" /\ nvs.ssid = "" BY <1>1 DEF Defaults, Whole, Keys
<1>4. Kept(nvs, wish) BY <1>2, <1>3, KeysListed DEF Kept
<1> QED BY <1>2, <1>4, DefaultsSound DEF StoreInv, CallShape, CopySound, Saving

(* Every stored setting is one that was asked for (settings_idf.c, and the *)
(* copies of main.c and of the portal's handlers).  Nothing is said of the *)
(* keys together: a save that stops may leave a password alone.            *)
THEOREM StoredAlwaysAsAsked == Spec => []StoredAsAsked
<1>1. StoreInv => StoredAsAsked BY DEF StoreInv, Kept, StoredAsAsked
<1> QED BY <1>1, StoreInit, StoreStep, PTL DEF Spec

(* The copies the program saves are such as watchy_settings_save takes, a  *)
(* network with a password it can have or none at all, although the store  *)
(* need not be: every load drops what does not belong together             *)
(* (settings_policy.c, settings_idf.c).                                    *)
THEOREM CopiesAlwaysSavable == Spec => []CopiesSavable
<1>1. StoreInv => CopiesSavable BY DEF StoreInv, CopySound, CopiesSavable
<1> QED BY <1>1, StoreInit, StoreStep, PTL DEF Spec

-----------------------------------------------------------------------------
(* The calendar: days and dates are each other's inverse.  Years begin in  *)
(* March, in eras of 400 years; the last day of a leap year is its 366th.  *)
Leap(n) == n % 4 = 0 /\ (n % 100 # 0 \/ n % 400 = 0)

InEra(doe) == 0 <= doe /\ doe <= 146096
EraOf(z) == z \div 146097
DayOfEra(z, era) == z - era * 146097
DayCount(era, doe) == era * 146097 + doe

YearOfEra(doe) == (doe - doe \div 1460 + doe \div 36524 - doe \div 146096) \div 365
DayOfYear(doe, yoe) == doe - (365 * yoe + yoe \div 4 - yoe \div 100)
DaysToYear(yoe, doy) == yoe * 365 + yoe \div 4 - yoe \div 100 + doy

Shifted(doy) == (5 * doy + 2) \div 153
MonthOf(s) == IF s < 10 THEN s + 3 ELSE s - 9
DayOf(doy, s) == doy - (153 * s + 2) \div 5 + 1
ShiftOf(month) == IF month > 2 THEN month - 3 ELSE month + 9
DaysToMonth(s, day) == (153 * s + 2) \div 5 + day - 1

MarchYear(y, month) == IF month <= 2 THEN y - 1 ELSE y
MarchEra(y, month) == MarchYear(y, month) \div 400
YearInEra(y, month, era) == MarchYear(y, month) - era * 400
CivilYear(yoe, era, month) == yoe + era * 400 + IF month <= 2 THEN 1 ELSE 0

Length(month, leap) ==
  IF month = 2 THEN IF leap THEN 29 ELSE 28
  ELSE IF month \in {4, 6, 9, 11} THEN 30 ELSE 31

InYear(doy, yoe) == 0 <= doy /\ doy <= 365 /\ (doy = 365 => Leap(yoe + 1))

LEMMA MonthLength ==
  ASSUME NEW y, NEW m \in 1..12
  PROVE  DaysInMonth(y, m) = Length(m, LeapYear(y))
<1>1. m \in {1, 2, 3, 4, 5, 6, 7, 8, 9, 10, 11, 12} OBVIOUS
<1> QED BY <1>1 DEF DaysInMonth, Length

LEMMA DayOfEraFound ==
  ASSUME NEW z \in Int
  PROVE  /\ EraOf(z) \in Int /\ DayOfEra(z, EraOf(z)) \in Int
         /\ InEra(DayOfEra(z, EraOf(z)))
         /\ DayCount(EraOf(z), DayOfEra(z, EraOf(z))) = z
BY SMT DEF EraOf, DayOfEra, InEra, DayCount

LEMMA EraFound ==
  ASSUME NEW era \in Int, NEW doe \in Int, InEra(doe)
  PROVE  /\ DayCount(era, doe) \in Int
         /\ EraOf(DayCount(era, doe)) = era
         /\ DayOfEra(DayCount(era, doe), era) = doe
BY SMT DEF EraOf, DayOfEra, InEra, DayCount

LEMMA YearFound ==
  ASSUME NEW yoe \in Int, 0 <= yoe, yoe <= 399, NEW doy \in Int, InYear(doy, yoe),
         NEW doe, doe = DaysToYear(yoe, doy)
  PROVE  /\ doe \in Int /\ InEra(doe)
         /\ YearOfEra(doe) = yoe /\ DayOfYear(doe, yoe) = doy
<1>1. doe \in Int BY DEF DaysToYear
<1>2. InEra(doe) /\ yoe = YearOfEra(doe)
  BY <1>1 DEF DaysToYear, YearOfEra, InYear, Leap, InEra
<1>3. DayOfYear(doe, yoe) = doy BY <1>1 DEF DaysToYear, DayOfYear
<1> QED BY <1>1, <1>2, <1>3

LEMMA DayOfYearFound ==
  ASSUME NEW doe \in Int, InEra(doe), NEW yoe, yoe = YearOfEra(doe),
         NEW doy, doy = DayOfYear(doe, yoe)
  PROVE  /\ yoe \in Int /\ 0 <= yoe /\ yoe <= 399
         /\ doy \in Int /\ InYear(doy, yoe) /\ DaysToYear(yoe, doy) = doe
<1>1. yoe \in Int BY DEF YearOfEra
<1>2. doy \in Int BY <1>1 DEF DayOfYear
<1>3. 0 <= yoe /\ yoe <= 399 /\ InYear(doy, yoe)
  BY <1>1, <1>2 DEF InEra, Leap, YearOfEra, DayOfYear, InYear
<1>4. DaysToYear(yoe, doy) = doe BY <1>1, <1>2 DEF DaysToYear, DayOfYear
<1> QED BY <1>1, <1>2, <1>3, <1>4

LEMMA MonthFound ==
  ASSUME NEW doy \in Int, 0 <= doy, doy <= 365, NEW s, s = Shifted(doy),
         NEW month, month = MonthOf(s), NEW day, day = DayOf(doy, s)
  PROVE  /\ month \in 1..12 /\ day \in Int /\ 1 <= day
         /\ day <= Length(month, doy = 365)
         /\ ShiftOf(month) = s /\ DaysToMonth(s, day) = doy
<1>1. s \in Int /\ s = (5 * doy + 2) \div 153 BY DEF Shifted
<1>2. day \in Int /\ day = doy - (153 * s + 2) \div 5 + 1 BY <1>1 DEF DayOf
<1>3. s \in 0..11 BY <1>1
<1>4. s \in {0, 1, 2, 3, 4, 5, 6, 7, 8, 9, 10, 11} BY <1>3
<1>5. /\ month \in 1..12 /\ ShiftOf(month) = s
      /\ 1 <= day /\ day <= Length(month, doy = 365)
  BY <1>1, <1>2, <1>4 DEF Length, MonthOf, ShiftOf
<1>6. DaysToMonth(s, day) = doy BY <1>1, <1>2 DEF DaysToMonth
<1> QED BY <1>2, <1>5, <1>6, Zenon

LEMMA DayOfMonthFound ==
  ASSUME NEW month \in 1..12, NEW leap \in BOOLEAN, NEW day \in Int, 1 <= day,
         day <= Length(month, leap), NEW s, s = ShiftOf(month),
         NEW doy, doy = DaysToMonth(s, day)
  PROVE  /\ doy \in Int /\ 0 <= doy /\ doy <= 365
         /\ doy = 365 => leap /\ month = 2
         /\ Shifted(doy) = s /\ MonthOf(s) = month /\ DayOf(doy, s) = day
<1>1. s \in Int /\ MonthOf(s) = month /\ s = IF month > 2 THEN month - 3 ELSE month + 9
  BY DEF ShiftOf, MonthOf
<1>2. doy \in Int /\ doy = (153 * s + 2) \div 5 + day - 1 BY <1>1 DEF DaysToMonth
<1>3. month \in {1, 2, 3, 4, 5, 6, 7, 8, 9, 10, 11, 12} OBVIOUS
<1>4. /\ 0 <= doy /\ doy <= 365 /\ (doy = 365 => leap /\ month = 2)
      /\ s = (5 * doy + 2) \div 153
  BY <1>1, <1>2, <1>3 DEF Length
<1>5. Shifted(doy) = s /\ DayOf(doy, s) = day BY <1>1, <1>2, <1>4 DEF Shifted, DayOf
<1> QED BY <1>1, <1>2, <1>4, <1>5, Zenon

LEMMA LeapShift ==
  ASSUME NEW n \in Int, NEW era \in Int
  PROVE  LeapYear(n + era * 400) = Leap(n)
<1>1. /\ (n + era * 400) % 4 = n % 4 /\ (n + era * 400) % 100 = n % 100
      /\ (n + era * 400) % 400 = n % 400
  BY SMT
<1> QED BY SMT, <1>1 DEF LeapYear, Leap

LEMMA CivilYearFound ==
  ASSUME NEW yoe \in Int, 0 <= yoe, yoe <= 399, NEW era \in Int, NEW month \in 1..12
  PROVE  /\ CivilYear(yoe, era, month) \in Int
         /\ MarchEra(CivilYear(yoe, era, month), month) = era
         /\ YearInEra(CivilYear(yoe, era, month), month, era) = yoe
         /\ month = 2 => LeapYear(CivilYear(yoe, era, month)) = Leap(yoe + 1)
<1> DEFINE y == CivilYear(yoe, era, month)
<1>1. y \in Int /\ MarchYear(y, month) = yoe + era * 400 BY DEF CivilYear, MarchYear
<1>2. month = 2 => y = yoe + 1 + era * 400 BY DEF CivilYear
<1> HIDE DEF y
<1>3. yoe + 1 \in Int OBVIOUS
<1>4. LeapYear(yoe + 1 + era * 400) = Leap(yoe + 1) BY <1>3, LeapShift, Zenon
<1>5. month = 2 => LeapYear(y) = Leap(yoe + 1) BY <1>2, <1>4, Zenon
<1>6. MarchEra(y, month) = era /\ YearInEra(y, month, era) = yoe
  BY <1>1 DEF MarchEra, YearInEra
<1> QED BY <1>1, <1>5, <1>6 DEF y

LEMMA MarchYearFound ==
  ASSUME NEW y \in Int, NEW month \in 1..12
  PROVE  /\ MarchEra(y, month) \in Int /\ YearInEra(y, month, MarchEra(y, month)) \in Int
         /\ 0 <= YearInEra(y, month, MarchEra(y, month))
         /\ YearInEra(y, month, MarchEra(y, month)) <= 399
         /\ CivilYear(YearInEra(y, month, MarchEra(y, month)), MarchEra(y, month), month) = y
BY DEF MarchYear, CivilYear, MarchEra, YearInEra

(* The two conversions, in the terms of the lemmas.                        *)
FromMarch0(days) == days + 719468
ToMarch0(z) == z - 719468

LEMMA March0 ==
  /\ \A days \in Int : FromMarch0(days) \in Int /\ ToMarch0(FromMarch0(days)) = days
  /\ \A z \in Int : ToMarch0(z) \in Int /\ FromMarch0(ToMarch0(z)) = z
BY SMT DEF FromMarch0, ToMarch0

LEMMA CivilParts ==
  ASSUME NEW days
  PROVE  LET era == EraOf(FromMarch0(days))
             doe == DayOfEra(FromMarch0(days), era)
             yoe == YearOfEra(doe)
             doy == DayOfYear(doe, yoe)
             s == Shifted(doy)
         IN  CivilFromDays(days) = [year |-> CivilYear(yoe, era, MonthOf(s)),
                                    month |-> MonthOf(s), day |-> DayOf(doy, s)]
BY SMT DEF CivilFromDays, EraOf, DayOfEra, YearOfEra, DayOfYear, Shifted, MonthOf,
           CivilYear, DayOf, FromMarch0

LEMMA DayParts ==
  ASSUME NEW year, NEW month, NEW day, NEW era, era = MarchEra(year, month),
         NEW yoe, yoe = YearInEra(year, month, era),
         NEW doy, doy = DaysToMonth(ShiftOf(month), day),
         NEW doe, doe = DaysToYear(yoe, doy)
  PROVE  DaysFromCivil(year, month, day) = ToMarch0(DayCount(era, doe))
BY SMT DEF DaysFromCivil, ToMarch0, MarchYear, MarchEra, YearInEra,
           DaysToMonth, ShiftOf, DaysToYear, DayCount

(* Every day has a date of which it is the day.                            *)
LEMMA DateOfDay ==
  ASSUME NEW days \in Int
  PROVE  \E year \in Int, month \in 1..12, day \in Int :
           /\ CivilFromDays(days) = [year |-> year, month |-> month, day |-> day]
           /\ 1 <= day /\ day <= Length(month, LeapYear(year))
           /\ DaysFromCivil(year, month, day) = days
<1>1. PICK z \in Int : z = FromMarch0(days) /\ days = ToMarch0(z) BY March0
<1>2. PICK era : era = EraOf(z) BY Zenon
<1>3. PICK doe : doe = DayOfEra(z, era) BY Zenon
<1>4. era \in Int /\ doe \in Int /\ InEra(doe) /\ DayCount(era, doe) = z
  BY <1>2, <1>3, DayOfEraFound, Zenon
<1>5. PICK yoe : yoe = YearOfEra(doe) BY Zenon
<1>6. PICK doy : doy = DayOfYear(doe, yoe) BY Zenon
<1>7. /\ yoe \in Int /\ 0 <= yoe /\ yoe <= 399
      /\ doy \in Int /\ InYear(doy, yoe) /\ DaysToYear(yoe, doy) = doe
  BY <1>4, <1>5, <1>6, DayOfYearFound
<1>8. 0 <= doy /\ doy <= 365 BY <1>7, Zenon DEF InYear
<1>9. PICK s : s = Shifted(doy) BY Zenon
<1>10. PICK month : month = MonthOf(s) BY Zenon
<1>11. PICK day : day = DayOf(doy, s) BY Zenon
<1>12. /\ month \in 1..12 /\ day \in Int /\ 1 <= day
       /\ day <= Length(month, doy = 365)
       /\ ShiftOf(month) = s /\ DaysToMonth(s, day) = doy
  BY <1>7, <1>8, <1>9, <1>10, <1>11, MonthFound
<1>13. PICK year : year = CivilYear(yoe, era, month) BY Zenon
<1>14. /\ year \in Int /\ MarchEra(year, month) = era
       /\ YearInEra(year, month, era) = yoe
       /\ month = 2 => LeapYear(year) = Leap(yoe + 1)
  <2>1. era \in Int /\ yoe \in Int /\ 0 <= yoe /\ yoe <= 399 /\ month \in 1..12
    BY <1>4, <1>7, <1>12, Zenon
  <2>2. /\ CivilYear(yoe, era, month) \in Int
        /\ MarchEra(CivilYear(yoe, era, month), month) = era
        /\ YearInEra(CivilYear(yoe, era, month), month, era) = yoe
        /\ month = 2 => LeapYear(CivilYear(yoe, era, month)) = Leap(yoe + 1)
    BY <2>1, CivilYearFound
  <2> QED BY <1>13, <2>2
<1>15. CivilFromDays(days) = [year |-> year, month |-> month, day |-> day]
  BY <1>1, <1>2, <1>3, <1>5, <1>6, <1>9, <1>10, <1>11, <1>13, CivilParts
<1>16. day <= Length(month, LeapYear(year))
  <2>1. month = 2 /\ doy = 365 => LeapYear(year) BY <1>7, <1>14, Zenon DEF InYear
  <2>2. Length(month, doy = 365) \in Int /\ Length(month, LeapYear(year)) \in Int
        /\ Length(month, doy = 365) <= Length(month, LeapYear(year))
    BY <2>1 DEF Length
  <2> QED BY <1>12, <2>2
<1>17. DaysFromCivil(year, month, day) = days
  <2>1. DaysFromCivil(year, month, day) = ToMarch0(DayCount(era, doe))
    BY <1>7, <1>12, <1>14, DayParts
  <2> QED BY <1>1, <1>4, <2>1, Zenon
<1> QED BY <1>12, <1>14, <1>15, <1>16, <1>17, Zenon

(* And the day of a date has that date.                                    *)
LEMMA DayOfDate ==
  ASSUME NEW year \in Int, NEW month \in 1..12, NEW day \in Int,
         1 <= day, day <= Length(month, LeapYear(year))
  PROVE  /\ DaysFromCivil(year, month, day) \in Int
         /\ CivilFromDays(DaysFromCivil(year, month, day)) =
              [year |-> year, month |-> month, day |-> day]
<1>1. PICK era : era = MarchEra(year, month) BY Zenon
<1>2. PICK yoe : yoe = YearInEra(year, month, era) BY Zenon
<1>3. /\ era \in Int /\ yoe \in Int /\ 0 <= yoe /\ yoe <= 399
      /\ CivilYear(yoe, era, month) = year
  BY <1>1, <1>2, MarchYearFound, Zenon
<1>4. month = 2 => LeapYear(year) = Leap(yoe + 1) BY <1>3, CivilYearFound, Zenon
<1>5. PICK s : s = ShiftOf(month) BY Zenon
<1>6. PICK doy : doy = DaysToMonth(s, day) BY Zenon
<1>7. LeapYear(year) \in BOOLEAN BY Zenon DEF LeapYear
<1>8. /\ doy \in Int /\ 0 <= doy /\ doy <= 365
      /\ doy = 365 => LeapYear(year) /\ month = 2
      /\ Shifted(doy) = s /\ MonthOf(s) = month /\ DayOf(doy, s) = day
  BY <1>5, <1>6, <1>7, DayOfMonthFound
<1>9. InYear(doy, yoe) BY <1>4, <1>8, Zenon DEF InYear
<1>10. PICK doe : doe = DaysToYear(yoe, doy) BY Zenon
<1>11. /\ doe \in Int /\ InEra(doe)
       /\ YearOfEra(doe) = yoe /\ DayOfYear(doe, yoe) = doy
  BY <1>3, <1>8, <1>9, <1>10, YearFound, Zenon
<1>12. PICK z : z = DayCount(era, doe) BY Zenon
<1>13. z \in Int /\ EraOf(z) = era /\ DayOfEra(z, era) = doe
  BY <1>3, <1>11, <1>12, EraFound, Zenon
<1>14. PICK days : days = DaysFromCivil(year, month, day) BY Zenon
<1>15. days = ToMarch0(z)
  <2>1. DaysFromCivil(year, month, day) = ToMarch0(DayCount(era, doe))
    BY <1>1, <1>2, <1>5, <1>6, <1>10, DayParts
  <2> QED BY <1>12, <1>14, <2>1, Zenon
<1>16. days \in Int /\ z = FromMarch0(days) BY <1>13, <1>15, March0, Zenon
<1>17. CivilFromDays(days) =
         [year |-> CivilYear(yoe, era, month), month |-> month, day |-> DayOf(doy, s)]
  BY <1>8, <1>11, <1>13, <1>16, CivilParts
<1> QED BY <1>3, <1>8, <1>14, <1>16, <1>17, Zenon

(* A time with the weekday of its date.                                    *)
WeekdayOf(days) == (days + 4) % 7
Weekday(t) == WeekdayOf(DaysFromCivil(t.year, t.month, t.day))

TimeRecord(t) ==
  t = [year |-> t.year, month |-> t.month, day |-> t.day, hour |-> t.hour,
       minute |-> t.minute, weekday |-> t.weekday, offset |-> t.offset]

Normal(t) == TimeRecord(t) /\ CalendarValid(t) /\ t.weekday = Weekday(t)

LEMMA YearRange ==
  \A n : n \in 1900..2099 <=> n \in Int /\ 1900 <= n /\ n <= 2099
OBVIOUS

LEMMA OffsetRange ==
  \A n : OffsetValid(n) => n \in Int
BY DEF OffsetValid

LEMMA DaysOfMonth ==
  ASSUME NEW y, NEW m \in 1..12
  PROVE  /\ DaysInMonth(y, m) \in 28..31
         /\ \A d : d \in 1..DaysInMonth(y, m)
                     <=> d \in Int /\ 1 <= d /\ d <= Length(m, LeapYear(y))
<1>1. Length(m, LeapYear(y)) \in 28..31 BY DEF Length
<1> QED BY <1>1, MonthLength

DaysIn(local) == local \div MinutesPerDay
OfDay(local) == local % MinutesPerDay
HourIn(ofDay) == ofDay \div 60
MinuteIn(ofDay) == ofDay % 60
Minutes(days, h, m) == days * MinutesPerDay + h * 60 + m

LEMMA HoursAndMinutes ==
  ASSUME NEW n \in 0..1439
  PROVE  \E h \in 0..23, m \in 0..59 : h = HourIn(n) /\ m = MinuteIn(n) /\ n = h * 60 + m
<1>1. HourIn(n) \in 0..23 /\ MinuteIn(n) \in 0..59 /\ n = HourIn(n) * 60 + MinuteIn(n)
  BY DEF HourIn, MinuteIn
<1> QED BY <1>1

LEMMA ClockOfMinutes ==
  ASSUME NEW local \in Int, NEW days, days = DaysIn(local), NEW ofDay, ofDay = OfDay(local)
  PROVE  /\ days \in Int /\ HourIn(ofDay) \in 0..23 /\ MinuteIn(ofDay) \in 0..59
         /\ Minutes(days, HourIn(ofDay), MinuteIn(ofDay)) = local
<1>1. days \in Int BY DEF MinutesPerDay, DaysIn
<1>2. ofDay \in 0..1439 BY DEF MinutesPerDay, OfDay
<1>3. local = days * 1440 + ofDay BY DEF MinutesPerDay, DaysIn, OfDay
<1>4. PICK h \in 0..23, m \in 0..59 :
        h = HourIn(ofDay) /\ m = MinuteIn(ofDay) /\ ofDay = h * 60 + m
  BY <1>2, HoursAndMinutes, SMTT(60)
<1>5. Minutes(days, h, m) = local BY <1>1, <1>3, <1>4 DEF Minutes, MinutesPerDay
<1> QED BY <1>1, <1>4, <1>5

LEMMA MinutesOfClock ==
  ASSUME NEW days \in Int, NEW h \in 0..23, NEW m \in 0..59,
         NEW local, local = Minutes(days, h, m)
  PROVE  /\ local \in Int /\ DaysIn(local) = days
         /\ HourIn(OfDay(local)) = h /\ MinuteIn(OfDay(local)) = m
<1>1. local \in Int BY DEF MinutesPerDay, Minutes
<1>2. DaysIn(local) = days BY <1>1 DEF MinutesPerDay, Minutes, DaysIn
<1>3. OfDay(local) = h * 60 + m BY <1>1, <1>2 DEF MinutesPerDay, Minutes, OfDay
<1>4. HourIn(h * 60 + m) = h /\ MinuteIn(h * 60 + m) = m BY DEF HourIn, MinuteIn
<1> QED BY <1>1, <1>2, <1>3, <1>4, Zenon

LEMMA FromUnixParts ==
  ASSUME NEW minutes, NEW offset, NEW local, local = minutes + offset,
         NEW days, days = DaysIn(local), NEW ofDay, ofDay = OfDay(local),
         NEW year, NEW month, NEW day,
         CivilFromDays(days) = [year |-> year, month |-> month, day |-> day]
  PROVE  FromUnix(minutes, offset) =
           IF OffsetValid(offset) /\ year \in 1900..2099
           THEN [year |-> year, month |-> month, day |-> day, hour |-> HourIn(ofDay),
                 minute |-> MinuteIn(ofDay), weekday |-> WeekdayOf(days), offset |-> offset]
           ELSE NoTime
BY DEF FromUnix, DaysIn, OfDay, HourIn, MinuteIn, WeekdayOf

LEMMA ToUnixParts ==
  ASSUME NEW t, NEW days \in Int, days = DaysFromCivil(t.year, t.month, t.day),
         NEW hour \in 0..23, hour = t.hour, NEW minute \in 0..59, minute = t.minute,
         NEW offset \in Int, offset = t.offset
  PROVE  ToUnix(t) = Minutes(days, hour, minute) - offset
BY DEF ToUnix, Minutes, MinutesPerDay

LEMMA WeekdayRange ==
  ASSUME NEW days \in Int
  PROVE  WeekdayOf(days) \in 0..6
BY DEF WeekdayOf

(* What a conversion returns is a time with the weekday of its date, and   *)
(* the instant asked for.                                                  *)
LEMMA FromUnixSound ==
  ASSUME NEW minutes \in Int, NEW offset, FromUnix(minutes, offset) # NoTime
  PROVE  /\ Normal(FromUnix(minutes, offset)) /\ ToUnix(FromUnix(minutes, offset)) = minutes
         /\ FromUnix(minutes, offset).offset = offset
<1>1. PICK t : t = FromUnix(minutes, offset) BY Zenon
<1>2. OffsetValid(offset) BY DEF FromUnix
<1>3. offset \in Int BY <1>2, OffsetRange
<1>4. PICK local \in Int : local = minutes + offset /\ minutes = local - offset BY <1>3
<1>5. PICK days : days = DaysIn(local) BY Zenon
<1>6. PICK ofDay : ofDay = OfDay(local) BY Zenon
<1>7. /\ days \in Int /\ HourIn(ofDay) \in 0..23 /\ MinuteIn(ofDay) \in 0..59
      /\ Minutes(days, HourIn(ofDay), MinuteIn(ofDay)) = local
  BY <1>5, <1>6, ClockOfMinutes
<1>8. PICK year \in Int, month \in 1..12, day \in Int :
        /\ CivilFromDays(days) = [year |-> year, month |-> month, day |-> day]
        /\ 1 <= day /\ day <= Length(month, LeapYear(year))
        /\ DaysFromCivil(year, month, day) = days
  BY <1>7, DateOfDay
<1>9. FromUnix(minutes, offset) =
        IF OffsetValid(offset) /\ year \in 1900..2099
        THEN [year |-> year, month |-> month, day |-> day, hour |-> HourIn(ofDay),
              minute |-> MinuteIn(ofDay), weekday |-> WeekdayOf(days), offset |-> offset]
        ELSE NoTime
  <2>1. CivilFromDays(days) = [year |-> year, month |-> month, day |-> day]
    BY <1>8, Zenon
  <2>2. local = minutes + offset BY <1>4, Zenon
  <2> QED BY <1>5, <1>6, <2>1, <2>2, FromUnixParts
<1>10. year \in 1900..2099
       /\ t = [year |-> year, month |-> month, day |-> day, hour |-> HourIn(ofDay),
               minute |-> MinuteIn(ofDay), weekday |-> WeekdayOf(days), offset |-> offset]
  BY <1>1, <1>2, <1>9
<1>11. /\ t.year = year /\ t.month = month /\ t.day = day /\ t.hour = HourIn(ofDay)
       /\ t.minute = MinuteIn(ofDay) /\ t.weekday = WeekdayOf(days) /\ t.offset = offset
  BY <1>10
<1>12. TimeRecord(t) BY <1>10, <1>11 DEF TimeRecord
<1>13. day \in 1..DaysInMonth(year, month) BY <1>8, DaysOfMonth
<1>14. WeekdayOf(days) \in 0..6 BY <1>7, WeekdayRange
<1>15. CalendarValid(t) BY <1>2, <1>7, <1>10, <1>11, <1>13, <1>14 DEF CalendarValid
<1>16. t.weekday = Weekday(t) BY <1>8, <1>11, Zenon DEF Weekday
<1>17. ToUnix(t) = minutes
  <2>1. ToUnix(t) = Minutes(days, HourIn(ofDay), MinuteIn(ofDay)) - offset
    <3>1. /\ days \in Int /\ HourIn(ofDay) \in 0..23 /\ MinuteIn(ofDay) \in 0..59
          /\ days = DaysFromCivil(t.year, t.month, t.day) /\ offset \in Int
          /\ HourIn(ofDay) = t.hour /\ MinuteIn(ofDay) = t.minute /\ offset = t.offset
      BY <1>3, <1>7, <1>8, <1>11
    <3> QED BY <3>1, ToUnixParts
  <2> QED BY <1>4, <1>7, <2>1
<1> QED BY <1>1, <1>11, <1>12, <1>15, <1>16, <1>17, Zenon DEF Normal

(* And an instant of a valid time is converted back to that time, with the *)
(* weekday of its date.                                                    *)
LEMMA ToUnixSound ==
  ASSUME NEW t, TimeRecord(t), NEW w, w = [t EXCEPT !.weekday = 0], CalendarValid(w)
  PROVE  /\ ToUnix(t) \in Int
         /\ FromUnix(ToUnix(t), t.offset) = [t EXCEPT !.weekday = Weekday(t)]
<1>1. /\ w.year = t.year /\ w.month = t.month /\ w.day = t.day /\ w.hour = t.hour
      /\ w.minute = t.minute /\ w.offset = t.offset
  BY DEF TimeRecord
<1>2. /\ t.year \in 1900..2099 /\ t.month \in 1..12 /\ t.hour \in 0..23
      /\ t.day \in 1..DaysInMonth(t.year, t.month)
      /\ t.minute \in 0..59 /\ OffsetValid(t.offset)
  BY <1>1 DEF CalendarValid
<1>3. PICK year : year = t.year BY Zenon
<1>4. PICK month : month = t.month BY Zenon
<1>5. PICK day : day = t.day BY Zenon
<1>6. PICK hour : hour = t.hour BY Zenon
<1>7. PICK minute : minute = t.minute BY Zenon
<1>8. PICK offset : offset = t.offset BY Zenon
<1>9. /\ year \in 1900..2099 /\ month \in 1..12 /\ day \in 1..DaysInMonth(year, month)
      /\ hour \in 0..23 /\ minute \in 0..59 /\ OffsetValid(offset)
  BY <1>2, <1>3, <1>4, <1>5, <1>6, <1>7, <1>8
<1>10. day \in Int /\ 1 <= day /\ day <= Length(month, LeapYear(year)) BY <1>9, DaysOfMonth
<1>11. year \in Int /\ offset \in Int BY <1>9, OffsetRange, YearRange
<1>12. PICK days \in Int :
         /\ days = DaysFromCivil(year, month, day)
         /\ CivilFromDays(days) = [year |-> year, month |-> month, day |-> day]
  BY <1>9, <1>10, <1>11, DayOfDate
<1>13. PICK local : local = Minutes(days, hour, minute) BY Zenon
<1>14. /\ local \in Int /\ DaysIn(local) = days
       /\ HourIn(OfDay(local)) = hour /\ MinuteIn(OfDay(local)) = minute
  <2>1. hour \in 0..23 /\ minute \in 0..59 BY <1>9
  <2> QED BY <1>13, <2>1, MinutesOfClock
<1>15. PICK minutes \in Int : minutes = local - offset /\ local = minutes + offset
  BY <1>11, <1>14
<1>16. ToUnix(t) = minutes
  <2>1. days = DaysFromCivil(t.year, t.month, t.day) BY <1>3, <1>4, <1>5, <1>12, Zenon
  <2>2. ToUnix(t) = Minutes(days, hour, minute) - offset
    <3>1. hour \in 0..23 /\ minute \in 0..59 BY <1>9
    <3> QED BY <1>6, <1>7, <1>8, <1>11, <2>1, <3>1, ToUnixParts
  <2> QED BY <1>13, <1>15, <2>2
<1>17. FromUnix(minutes, offset) =
         [year |-> year, month |-> month, day |-> day, hour |-> hour,
          minute |-> minute, weekday |-> WeekdayOf(days), offset |-> offset]
  <2>1. FromUnix(minutes, offset) =
          IF OffsetValid(offset) /\ year \in 1900..2099
          THEN [year |-> year, month |-> month, day |-> day, hour |-> HourIn(OfDay(local)),
                minute |-> MinuteIn(OfDay(local)), weekday |-> WeekdayOf(days),
                offset |-> offset]
          ELSE NoTime
    BY <1>12, <1>14, <1>15, FromUnixParts
  <2> QED BY <1>9, <1>14, <2>1
<1>18. Weekday(t) = WeekdayOf(days) BY <1>3, <1>4, <1>5, <1>12, Zenon DEF Weekday
<1>19. [t EXCEPT !.weekday = Weekday(t)] =
         [year |-> year, month |-> month, day |-> day, hour |-> hour,
          minute |-> minute, weekday |-> WeekdayOf(days), offset |-> offset]
  BY <1>3, <1>4, <1>5, <1>6, <1>7, <1>8, <1>18 DEF TimeRecord
<1> QED BY <1>8, <1>15, <1>16, <1>17, <1>19, Zenon

-----------------------------------------------------------------------------
(* The registers of the chip.                                              *)

LEMMA BcdByte ==
  ASSUME NEW v \in 0..99
  PROVE  \E b \in 0..153 : b = ToBcd(v) /\ b % 256 = b /\ ValidBcd(b) /\ FromBcd(b) = v
<1>1. ToBcd(v) \in 0..153 /\ ToBcd(v) % 256 = ToBcd(v) BY DEF ToBcd
<1>2. ToBcd(v) % 16 = v % 10 /\ ToBcd(v) \div 16 = v \div 10 BY DEF ToBcd
<1>3. ValidBcd(ToBcd(v)) /\ FromBcd(ToBcd(v)) = v BY <1>2 DEF ValidBcd, FromBcd
<1> QED BY <1>1, <1>3, Zenon

LEMMA BcdMonth ==
  ASSUME NEW v \in 1..12
  PROVE  \E b \in 1..18 : /\ b = ToBcd(v) /\ ValidBcd(b) /\ FromBcd(b) = v
                          /\ b % 32 = b /\ (b + 128) % 32 = b
                          /\ b + 128 >= 128 /\ ~(b >= 128)
<1>1. v \in {1, 2, 3, 4, 5, 6, 7, 8, 9, 10, 11, 12} OBVIOUS
<1>2. ToBcd(v) \in 1..18 BY DEF ToBcd
<1>3. PICK b \in 1..18 : b = ToBcd(v) BY <1>2
<1>4. ValidBcd(b) /\ FromBcd(b) = v BY <1>1, <1>3 DEF ToBcd, ValidBcd, FromBcd
<1>5. b % 32 = b /\ (b + 128) % 32 = b /\ b + 128 >= 128 /\ ~(b >= 128) OBVIOUS
<1> QED BY <1>3, <1>4, <1>5, Zenon

LEMMA Century ==
  ASSUME NEW y \in 1900..2099
  PROVE  /\ y % 100 \in 0..99
         /\ y < 2000 => 1900 + (y % 100) = y
         /\ ~(y < 2000) => 2000 + (y % 100) = y
OBVIOUS

LEMMA AnyWeekday ==
  ASSUME NEW t, TimeRecord(t), CalendarValid(t)
  PROVE  CalendarValid([t EXCEPT !.weekday = 0])
<1> DEFINE w == [t EXCEPT !.weekday = 0]
<1>1. /\ w.year = t.year /\ w.month = t.month /\ w.day = t.day /\ w.hour = t.hour
      /\ w.minute = t.minute /\ w.offset = t.offset /\ w.weekday = 0
  BY DEF TimeRecord
<1> HIDE DEF w
<1>2. CalendarValid(w) BY <1>1 DEF CalendarValid
<1> QED BY <1>2 DEF w

LEMMA DecodeSound ==
  ASSUME NEW r, Decode(r) # NoTime
  PROVE  TimeRecord(Decode(r)) /\ CalendarValid(Decode(r)) /\ Decode(r).offset = 0
<1> DEFINE t == [year |-> (IF r[5] >= 128 THEN 1900 ELSE 2000) + FromBcd(r[6]),
                 month |-> FromBcd(r[5] % 32), day |-> FromBcd(r[3]),
                 hour |-> FromBcd(r[2]), minute |-> FromBcd(r[1]),
                 weekday |-> FromBcd(r[4]), offset |-> 0]
<1>1. Decode(r) = t /\ CalendarValid(t) BY DEF Decode
<1>2. TimeRecord(t) /\ t.offset = 0 BY DEF TimeRecord
<1> HIDE DEF t
<1> QED BY <1>1, <1>2

(* What was encoded is decoded.                                            *)
LEMMA EncodeSound ==
  ASSUME NEW u, TimeRecord(u), CalendarValid(u), u.offset = 0
  PROVE  Decode(Encode(u)) = u
<1>1. /\ u.year \in 1900..2099 /\ u.month \in 1..12 /\ u.hour \in 0..23
      /\ u.day \in 1..DaysInMonth(u.year, u.month)
      /\ u.minute \in 0..59 /\ u.weekday \in 0..6
  BY DEF CalendarValid
<1>2. u.day \in 0..99 /\ u.hour \in 0..99 /\ u.minute \in 0..99 /\ u.weekday \in 0..99
  BY <1>1, DaysOfMonth
<1>3. PICK b1 \in 0..153 :
        b1 = ToBcd(u.minute) /\ b1 % 256 = b1 /\ ValidBcd(b1) /\ FromBcd(b1) = u.minute
  BY <1>2, BcdByte
<1>4. PICK b2 \in 0..153 :
        b2 = ToBcd(u.hour) /\ b2 % 256 = b2 /\ ValidBcd(b2) /\ FromBcd(b2) = u.hour
  BY <1>2, BcdByte
<1>5. PICK b3 \in 0..153 :
        b3 = ToBcd(u.day) /\ b3 % 256 = b3 /\ ValidBcd(b3) /\ FromBcd(b3) = u.day
  BY <1>2, BcdByte
<1>6. PICK b4 \in 0..153 :
        b4 = ToBcd(u.weekday) /\ b4 % 256 = b4 /\ ValidBcd(b4) /\ FromBcd(b4) = u.weekday
  BY <1>2, BcdByte
<1>7. PICK b5 \in 1..18 :
        /\ b5 = ToBcd(u.month) /\ ValidBcd(b5) /\ FromBcd(b5) = u.month
        /\ b5 % 32 = b5 /\ (b5 + 128) % 32 = b5 /\ b5 + 128 >= 128 /\ ~(b5 >= 128)
  BY <1>1, BcdMonth
<1>8. /\ u.year % 100 \in 0..99
      /\ u.year < 2000 => 1900 + (u.year % 100) = u.year
      /\ ~(u.year < 2000) => 2000 + (u.year % 100) = u.year
  BY <1>1, Century
<1>9. PICK y \in 0..99 : y = u.year % 100 BY <1>8
<1>10. PICK b6 \in 0..153 : b6 = ToBcd(y) /\ b6 % 256 = b6 /\ ValidBcd(b6) /\ FromBcd(b6) = y
  BY BcdByte
<1>11. PICK c \in {0, 128} : c = IF u.year < 2000 THEN 128 ELSE 0 OBVIOUS
<1> DEFINE r == <<b1, b2, b3, b4, b5 + c, b6>>
<1>12. Encode(u) = r BY <1>3, <1>4, <1>5, <1>6, <1>7, <1>9, <1>10, <1>11 DEF Encode
<1>13. /\ r[1] = b1 /\ r[2] = b2 /\ r[3] = b3 /\ r[4] = b4 /\ r[5] = b5 + c /\ r[6] = b6
       /\ r # LowVoltage
  BY DEF LowVoltage
<1> HIDE DEF r
<1>14. /\ r[5] % 32 = b5 /\ (IF r[5] >= 128 THEN 1900 ELSE 2000) + y = u.year
  BY <1>7, <1>8, <1>9, <1>11, <1>13
<1>15. \A i \in 1..6 : ValidBcd(r[i] % (IF i = 5 THEN 32 ELSE 256))
  <2>1. \A i \in 1..6 : i \in {1, 2, 3, 4, 5, 6} OBVIOUS
  <2> QED BY <1>3, <1>4, <1>5, <1>6, <1>7, <1>10, <1>13, <1>14, <2>1
<1> DEFINE t == [year |-> (IF r[5] >= 128 THEN 1900 ELSE 2000) + FromBcd(r[6]),
                 month |-> FromBcd(r[5] % 32), day |-> FromBcd(r[3]),
                 hour |-> FromBcd(r[2]), minute |-> FromBcd(r[1]),
                 weekday |-> FromBcd(r[4]), offset |-> 0]
<1>16. Decode(r) = IF CalendarValid(t) THEN t ELSE NoTime BY <1>13, <1>15 DEF Decode
<1>17. t = [year |-> u.year, month |-> u.month, day |-> u.day, hour |-> u.hour,
            minute |-> u.minute, weekday |-> u.weekday, offset |-> u.offset]
  BY <1>3, <1>4, <1>5, <1>6, <1>7, <1>10, <1>13, <1>14
<1> HIDE DEF t
<1>18. t = u BY <1>17 DEF TimeRecord
<1> QED BY <1>12, <1>16, <1>18

(* What is read of the chip, under any offset, is a time with the weekday  *)
(* of its date.                                                            *)
LEMMA ReadLocalSound ==
  ASSUME NEW r, NEW offset, ReadLocal(r, offset) # NoTime
  PROVE  Normal(ReadLocal(r, offset)) /\ ReadLocal(r, offset).offset = offset
<1> DEFINE u == Decode(r)
<1>1. u # NoTime /\ ReadLocal(r, offset) = FromUnix(ToUnix(u), offset) BY DEF ReadLocal
<1>2. TimeRecord(u) /\ CalendarValid(u) BY <1>1, DecodeSound
<1> HIDE DEF u
<1>3. ToUnix(u) \in Int BY <1>2, AnyWeekday, ToUnixSound
<1> QED BY <1>1, <1>3, FromUnixSound

LEMMA NormalNotNoTime ==
  ASSUME NEW t, Normal(t)
  PROVE  t # NoTime
<1>1. t.year \in 1900..2099 BY DEF Normal, CalendarValid
<1> QED BY <1>1 DEF NoTime

LEMMA NormalConverted ==
  ASSUME NEW t, Normal(t)
  PROVE  ToUnix(t) \in Int /\ FromUnix(ToUnix(t), t.offset) = t
<1>1. CalendarValid([t EXCEPT !.weekday = 0]) BY AnyWeekday DEF Normal
<1>2. t = [t EXCEPT !.weekday = Weekday(t)] BY DEF Normal, TimeRecord
<1> QED BY <1>1, <1>2, ToUnixSound DEF Normal

(* A time that was set is read back.                                       *)
LEMMA SetAndRead ==
  ASSUME NEW t, Normal(t), NEW u, u = FromUnix(ToUnix(t), 0), u # NoTime
  PROVE  ReadLocal(Encode(u), t.offset) = t
<1>1. ToUnix(t) \in Int /\ FromUnix(ToUnix(t), t.offset) = t BY NormalConverted
<1>2. Normal(u) /\ ToUnix(u) = ToUnix(t) /\ u.offset = 0 BY <1>1, FromUnixSound
<1>3. Decode(Encode(u)) = u BY <1>2, EncodeSound DEF Normal
<1> QED BY <1>1, <1>2, <1>3 DEF ReadLocal

(* A press in the editor of the time leaves a time with the weekday of its *)
(* date.                                                                   *)
InRanges(t) ==
  /\ t.year \in 1900..2099 /\ t.month \in 1..12 /\ t.day \in 1..31
  /\ t.hour \in 0..23 /\ t.minute \in 0..59 /\ t.weekday \in 0..6
  /\ OffsetValid(t.offset)

LEMMA MovedSound ==
  ASSUME NEW t, TimeRecord(t), CalendarValid(t), NEW field \in 0..4, NEW delta \in {-1, 1}
  PROVE  TimeRecord(Moved(t, field, delta)) /\ InRanges(Moved(t, field, delta))
<1> DEFINE m == Moved(t, field, delta)
<1>1. InRanges(t) BY DaysOfMonth DEF CalendarValid, InRanges
<1>2. LastDay(t) \in 28..31 BY <1>1, DaysOfMonth DEF LastDay, InRanges
<1>3. CASE field = 0
  <2>1. t.year \in 1900..2099 BY <1>1 DEF InRanges
  <2>2. PICK v : v = Cycled(t.year, delta, 2000, 2099) OBVIOUS
  <2>3. v \in 1900..2099 BY <1>2, <2>1, <2>2 DEF Cycled
  <2>4. m = [t EXCEPT !.year = v] BY <1>3, <2>2 DEF Moved
  <2> HIDE DEF m
  <2>5. /\ TimeRecord(m)
        /\ m.year = v /\ m.month = t.month /\ m.day = t.day /\ m.hour = t.hour
        /\ m.minute = t.minute /\ m.weekday = t.weekday /\ m.offset = t.offset
    BY <2>4 DEF TimeRecord
  <2>6. InRanges(m) BY <1>1, <2>3, <2>5 DEF InRanges
  <2> QED BY <2>5, <2>6 DEF m
<1>4. CASE field = 1
  <2>1. t.month \in 1..12 BY <1>1 DEF InRanges
  <2>2. PICK v : v = Cycled(t.month, delta, 1, 12) OBVIOUS
  <2>3. v \in 1..12 BY <1>2, <2>1, <2>2 DEF Cycled
  <2>4. m = [t EXCEPT !.month = v] BY <1>4, <2>2 DEF Moved
  <2> HIDE DEF m
  <2>5. /\ TimeRecord(m)
        /\ m.year = t.year /\ m.month = v /\ m.day = t.day /\ m.hour = t.hour
        /\ m.minute = t.minute /\ m.weekday = t.weekday /\ m.offset = t.offset
    BY <2>4 DEF TimeRecord
  <2>6. InRanges(m) BY <1>1, <2>3, <2>5 DEF InRanges
  <2> QED BY <2>5, <2>6 DEF m
<1>5. CASE field = 2
  <2>1. t.day \in 1..31 BY <1>1 DEF InRanges
  <2>2. PICK v : v = Cycled(t.day, delta, 1, LastDay(t)) OBVIOUS
  <2>3. v \in 1..31 BY <1>2, <2>1, <2>2 DEF Cycled
  <2>4. m = [t EXCEPT !.day = v] BY <1>5, <2>2 DEF Moved
  <2> HIDE DEF m
  <2>5. /\ TimeRecord(m)
        /\ m.year = t.year /\ m.month = t.month /\ m.day = v /\ m.hour = t.hour
        /\ m.minute = t.minute /\ m.weekday = t.weekday /\ m.offset = t.offset
    BY <2>4 DEF TimeRecord
  <2>6. InRanges(m) BY <1>1, <2>3, <2>5 DEF InRanges
  <2> QED BY <2>5, <2>6 DEF m
<1>6. CASE field = 3
  <2>1. t.hour \in 0..23 BY <1>1 DEF InRanges
  <2>2. PICK v : v = (t.hour + delta + 24) % 24 OBVIOUS
  <2>3. v \in 0..23 BY <1>2, <2>1, <2>2 DEF Cycled
  <2>4. m = [t EXCEPT !.hour = v] BY <1>6, <2>2 DEF Moved
  <2> HIDE DEF m
  <2>5. /\ TimeRecord(m)
        /\ m.year = t.year /\ m.month = t.month /\ m.day = t.day /\ m.hour = v
        /\ m.minute = t.minute /\ m.weekday = t.weekday /\ m.offset = t.offset
    BY <2>4 DEF TimeRecord
  <2>6. InRanges(m) BY <1>1, <2>3, <2>5 DEF InRanges
  <2> QED BY <2>5, <2>6 DEF m
<1>7. CASE field = 4
  <2>1. t.minute \in 0..59 BY <1>1 DEF InRanges
  <2>2. PICK v : v = (t.minute + delta + 60) % 60 OBVIOUS
  <2>3. v \in 0..59 BY <1>2, <2>1, <2>2 DEF Cycled
  <2>4. m = [t EXCEPT !.minute = v] BY <1>7, <2>2 DEF Moved
  <2> HIDE DEF m
  <2>5. /\ TimeRecord(m)
        /\ m.year = t.year /\ m.month = t.month /\ m.day = t.day /\ m.hour = t.hour
        /\ m.minute = v /\ m.weekday = t.weekday /\ m.offset = t.offset
    BY <2>4 DEF TimeRecord
  <2>6. InRanges(m) BY <1>1, <2>3, <2>5 DEF InRanges
  <2> QED BY <2>5, <2>6 DEF m
<1> QED BY <1>3, <1>4, <1>5, <1>6, <1>7

LEMMA AdjustSound ==
  ASSUME NEW t, Normal(t), NEW field \in 0..4, NEW delta \in {-1, 1}
  PROVE  Normal(AdjustManualTime(t, field, delta))
<1> DEFINE m == Moved(t, field, delta)
           cut == [m EXCEPT !.day = IF @ > LastDay(m) THEN LastDay(m) ELSE @]
           normal == FromUnix(ToUnix(cut), cut.offset)
<1>1. AdjustManualTime(t, field, delta) = IF normal = NoTime THEN cut ELSE normal
  BY Zenon DEF AdjustManualTime
<1>2. TimeRecord(m) /\ InRanges(m) BY MovedSound DEF Normal
<1> HIDE DEF m
<1>3. LastDay(m) = DaysInMonth(m.year, m.month) /\ LastDay(m) \in 28..31
  BY <1>2, DaysOfMonth DEF LastDay, InRanges
<1>4. /\ TimeRecord(cut) /\ cut.year = m.year /\ cut.month = m.month
      /\ cut.hour = m.hour /\ cut.minute = m.minute /\ cut.weekday = m.weekday
      /\ cut.offset = m.offset /\ cut.day = IF m.day > LastDay(m) THEN LastDay(m) ELSE m.day
  BY <1>2 DEF TimeRecord
<1> HIDE DEF cut
<1>5. cut.day \in 1..DaysInMonth(cut.year, cut.month) BY <1>2, <1>3, <1>4 DEF InRanges
<1>6. CalendarValid(cut) BY <1>2, <1>4, <1>5 DEF CalendarValid, InRanges
<1>7. ToUnix(cut) \in Int /\ normal = [cut EXCEPT !.weekday = Weekday(cut)]
  BY <1>4, <1>6, AnyWeekday, ToUnixSound
<1>8. normal.year \in 1900..2099 BY <1>2, <1>4, <1>7 DEF TimeRecord, InRanges
<1>9. normal # NoTime BY <1>8 DEF NoTime
<1>10. Normal(normal) BY <1>7, <1>9, FromUnixSound
<1> QED BY <1>1, <1>9, <1>10

LEMMA DefaultNormal ==
  Normal([year |-> 2024, month |-> 1, day |-> 1, hour |-> 0, minute |-> 0,
          weekday |-> 1, offset |-> 0])
<1> DEFINE t == [year |-> 2024, month |-> 1, day |-> 1, hour |-> 0, minute |-> 0,
                 weekday |-> 1, offset |-> 0]
<1>1. /\ t.year = 2024 /\ t.month = 1 /\ t.day = 1 /\ t.hour = 0 /\ t.minute = 0
      /\ t.weekday = 1 /\ t.offset = 0
  OBVIOUS
<1>2. TimeRecord(t) BY DEF TimeRecord
<1>3. DaysFromCivil(2024, 1, 1) = 19723 BY SMT DEF DaysFromCivil
<1>4. WeekdayOf(19723) = 1 BY DEF WeekdayOf
<1> HIDE DEF t
<1>5. t.weekday = Weekday(t) BY <1>1, <1>3, <1>4 DEF Weekday
<1>6. 1 \in 1..DaysInMonth(2024, 1) BY DaysOfMonth
<1>7. CalendarValid(t) BY <1>1, <1>6 DEF CalendarValid, OffsetValid
<1> QED BY <1>2, <1>5, <1>7 DEF Normal, t

-----------------------------------------------------------------------------
(* The zone of the settings and the offsets of the RTC service.            *)

LEMMA ZoneSettled ==
  ASSUME call' = NoCall,
         ~zoneFault' =>
           /\ HasOffset(nvs'.tz) => zone' = ParsedOffset(nvs'.tz)
           /\ where' # "boot" /\ rtcReady' => rtcOffset' = zone'
           /\ where' \in {"shell", "exit"} => ram'.tz = nvs'.tz
  PROVE  ZoneInv'
BY DEF ZoneInv, ZoneSound, SaveSound, RollbackSound, Saving, HasOffset, ParsedOffset

LEMMA ZoneUntouched ==
  ASSUME ZoneInv, nvs'.tz = nvs.tz, ram'.tz = ram.tz,
         UNCHANGED <<zone, rtcOffset, rtcReady, where, call, zoneFault>>
  PROVE  ZoneInv'
BY DEF ZoneInv, ZoneSound, SaveSound, RollbackSound, Saving, HasOffset, ParsedOffset,
       OffsetChanged

LEMMA BootKeepsZone ==
  ASSUME StoreInv, ZoneInv, Boot
  PROVE  ZoneInv'
<1>1. call = NoCall /\ call' = NoCall /\ nvs' = nvs /\ zone' = zone
  BY DEF Boot, StoreInv, CallShape, stores
<1>2. rtcReady' => rtcOffset' = zone' BY <1>1 DEF Boot, RtcInit
<1>3. CASE LoadOk
  <2>1. ram'.tz = nvs.tz /\ zoneFault' = zoneFault
    BY <1>3, Sanitizes DEF LoadOk, StoreInv
  <2> QED BY <1>1, <1>2, <2>1, ZoneSettled DEF ZoneInv, ZoneSound
<1>4. CASE LoadFailed(Defaults)
  <2>1. zoneFault' BY <1>4 DEF LoadFailed
  <2> QED BY <1>1, <2>1, ZoneSettled
<1> QED BY <1>3, <1>4 DEF Boot

LEMMA ResetKeepsZone ==
  ASSUME ZoneInv, Reset
  PROVE  ZoneInv'
<1>1. /\ call' = NoCall /\ where' = "boot" /\ nvs' = nvs /\ zone' = zone
      /\ (call = NoCall /\ zoneFault' = zoneFault) \/ zoneFault'
  BY DEF Reset, stores
<1> QED BY <1>1, ZoneSettled DEF ZoneInv, ZoneSound

(* A save of the copy after a change of another key.                       *)
LEMMA CopySavedKeepsZone ==
  ASSUME StoreInv, ZoneInv, where = "shell", where' = where, call = NoCall, call' = call,
         UNCHANGED <<zone, rtcOffset, rtcReady, zoneFault>>,
         NEW k \in {"hour24", "face"}, NEW v, ram' = [ram EXCEPT ![k] = v],
         SaveOk(ram', k) \/ SaveFails(ram', k)
  PROVE  ZoneInv'
<1>1. Meant(ram, wish) BY DEF StoreInv, CopySound
<1>2. k \in Keys /\ "tz" \in Keys \ {k} BY DEF Keys
<1>3. /\ Whole(ram') /\ WifiValid(ram'.ssid, ram'.pass)
      /\ \A j \in Keys \ {k} : ram'[j] \in wish[j]
  BY <1>1, OneChanged
<1>4. ram'.tz = ram.tz BY <1>1, KeysListed DEF Meant, Whole
<1>5. nvs'.tz \in {ram'.tz, nvs.tz} BY <1>2, <1>3, SaveSucceeds, SaveStops
<1> QED BY <1>4, <1>5, ZoneSettled DEF ZoneInv, ZoneSound

LEMMA ToggleKeepsZone ==
  ASSUME StoreInv, ZoneInv, ToggleSetting
  PROVE  ZoneInv'
<1>1. PICK v : ram' = [ram EXCEPT !["hour24"] = v] BY DEF ToggleSetting
<1> QED BY <1>1, CopySavedKeepsZone DEF ToggleSetting, Op, rtcVars

LEMMA ReconcileKeepsZone ==
  ASSUME StoreInv, ZoneInv, Reconcile
  PROVE  ZoneInv'
BY CopySavedKeepsZone DEF Reconcile, rtcVars

LEMMA ChangeKeepsZone ==
  ASSUME ZoneInv, NEW who, NEW prior, ~zoneFault => prior.tz = nvs.tz,
         NEW next, NEW k, NEW undo, call = NoCall, where \in {"shell", "portal"},
         ChangeZone(who, prior, next, k, undo), nvs' = nvs, ram' = ram, where' = where
  PROVE  ZoneInv'
<1> DEFINE saving == [pc |-> "save", who |-> who, prior |-> prior, next |-> next,
                      key |-> k, back |-> undo]
<1>1. CASE ~HasOffset(next.tz)
  <2>1. UNCHANGED <<zone, rtcOffset, rtcReady, where, call, zoneFault>>
    BY <1>1 DEF ChangeZone, rtcVars
  <2> QED BY <2>1, ZoneUntouched
<1>2. CASE /\ HasOffset(next.tz) /\ OffsetChanged(prior, next)
           /\ SetOffsetOk(ParsedOffset(next.tz)) /\ call' = saving /\ zoneFault' = zoneFault
  <2>1. zone' = ParsedOffset(next.tz) /\ rtcOffset' = zone' BY <1>2 DEF SetOffsetOk
  <2>2. call' # NoCall /\ call'.pc = "save" /\ call'.next = next /\ call'.prior = prior
    BY <1>2 DEF NoCall
  <2> QED BY <1>2, <2>1, <2>2
          DEF ZoneInv, ZoneSound, SaveSound, RollbackSound, Saving, HasOffset, ParsedOffset
<1>3. CASE SetOffsetFails(ParsedOffset(next.tz)) /\ call' = call
  BY <1>3, ZoneSettled DEF SetOffsetFails
<1>4. CASE /\ HasOffset(next.tz) /\ ~OffsetChanged(prior, next)
           /\ call' = saving /\ UNCHANGED <<rtcVars, zoneFault>>
  <2>1. HasOffset(prior.tz) /\ ParsedOffset(prior.tz) = ParsedOffset(next.tz)
    BY <1>4 DEF OffsetChanged
  <2>2. ~zoneFault => zone = ParsedOffset(next.tz)
    BY <2>1 DEF ZoneInv, ZoneSound
  <2>3. call' # NoCall /\ call'.pc = "save" /\ call'.next = next /\ call'.prior = prior
    BY <1>4 DEF NoCall
  <2>4. SaveSound' /\ RollbackSound'
    BY <1>4, <2>2, <2>3
    DEF SaveSound, RollbackSound, Saving, HasOffset, ParsedOffset, rtcVars, OffsetChanged
  <2>5. ZoneSound' BY <1>4, <2>3 DEF ZoneInv, ZoneSound, rtcVars, HasOffset, ParsedOffset
  <2> QED BY <2>4, <2>5 DEF ZoneInv
<1> QED BY <1>1, <1>2, <1>3, <1>4 DEF ChangeZone

LEMMA SaveTimezoneKeepsZone ==
  ASSUME ZoneInv, NEW offset, SaveTimezone(offset)
  PROVE  ZoneInv'
<1> DEFINE next == [ram EXCEPT !["tz"] = ZoneOf(offset)]
<1>1. call = NoCall /\ where = "shell" /\ (~zoneFault => ram.tz = nvs.tz)
  BY DEF SaveTimezone, Op, ZoneInv, ZoneSound
<1>2. ChangeZone("watch", ram, next, "tz", time.offset)
      /\ nvs' = nvs /\ ram' = ram /\ where' = where
  BY DEF SaveTimezone
<1> HIDE DEF next
<1> QED BY <1>1, <1>2, ChangeKeepsZone

LEMMA UpdateKeepsZone ==
  ASSUME StoreInv, ZoneInv, NEW patch, UpdateSettings(patch)
  PROVE  ZoneInv'
<1> DEFINE k == IF patch.zoned THEN "tz" ELSE "hour24"
           next == Patched(Stored, patch)
<1>1. call = NoCall /\ where = "portal" /\ Stored.tz = nvs.tz
  BY StoredIsMeant DEF UpdateSettings, Op
<1>2. /\ ChangeZone("portal", Stored, next, k, Local.offset)
      /\ nvs' = nvs /\ ram' = ram /\ where' = where
  BY DEF UpdateSettings, PortalKeeps
<1> HIDE DEF next
<1> HIDE DEF k
<1> QED BY <1>1, <1>2, ChangeKeepsZone

LEMMA SaveZoneKeepsZone ==
  ASSUME StoreInv, ZoneInv, SaveZone
  PROVE  ZoneInv'
<1>1. Saving BY DEF SaveZone, Saving, NoCall
<1>2. /\ nvs' = call.next /\ call' = NoCall /\ where' = where
      /\ UNCHANGED <<zone, rtcOffset, rtcReady>>
      /\ zoneFault' = (zoneFault /\ ~OffsetChanged(call.prior, call.next))
      /\ ram' = IF call.who = "watch" THEN call.next ELSE ram
  BY DEF SaveZone, SaveOk, rtcVars
<1>3. \/ where = "shell" /\ call.who = "watch"
      \/ where = "portal"
  BY <1>1 DEF StoreInv, CallShape, Saving
<1>4. where' \in {"shell", "exit"} => ram'.tz = nvs'.tz BY <1>2, <1>3
<1>5. ~zoneFault' => zone' = ParsedOffset(nvs'.tz)
  BY <1>1, <1>2 DEF ZoneInv, SaveSound
<1>6. ~zoneFault' /\ where' # "boot" /\ rtcReady' => rtcOffset' = zone'
  BY <1>1, <1>2 DEF ZoneInv, ZoneSound, SaveSound
<1> QED BY <1>2, <1>4, <1>5, <1>6, ZoneSettled

LEMMA SaveZoneFailsKeepsZone ==
  ASSUME ZoneInv, StoreInv, SaveZoneFails
  PROVE  ZoneInv'
<1>1. Saving BY DEF SaveZoneFails, Saving, NoCall
<1>2. zoneFault' /\ (call' = NoCall \/ call' = [call EXCEPT !.pc = "rollback"])
      /\ where' = where
  BY DEF SaveZoneFails
<1>3. CASE call' = NoCall BY <1>2, <1>3, ZoneSettled
<1>4. CASE call' = [call EXCEPT !.pc = "rollback"]
  <2>1. call'.pc = "rollback" /\ where \in {"shell", "portal"}
    BY <1>1, <1>4 DEF Saving, StoreInv, CallShape
  <2> QED BY <1>2, <2>1 DEF ZoneInv, ZoneSound, SaveSound, RollbackSound, Saving
<1> QED BY <1>2, <1>3, <1>4

LEMMA RollBackKeepsZone ==
  ASSUME ZoneInv, RollBackZone
  PROVE  ZoneInv'
<1>1. zoneFault BY DEF RollBackZone, ZoneInv, RollbackSound, NoCall
<1>2. zoneFault' /\ call' = NoCall BY <1>1 DEF RollBackZone, SetOffsetFails
<1> QED BY <1>2, ZoneSettled

(* The time is set, from the watch or in the portal.                       *)
LEMMA SetKeepsZone ==
  ASSUME ZoneInv, call = NoCall, call' = call, nvs' = nvs, ram' = ram, where' = where,
         NEW t, ~zoneFault /\ HasOffset(nvs.tz) => t.offset = ParsedOffset(nvs.tz),
         \/ SetLocalOk(t) /\ zoneFault' = zoneFault
         \/ SetLocalFails(t)
  PROVE  ZoneInv'
<1>1. CASE SetLocalOk(t) /\ zoneFault' = zoneFault
  <2>1. zone' = t.offset /\ rtcOffset' = t.offset BY <1>1 DEF SetLocalOk
  <2> QED BY <1>1, <2>1, ZoneSettled DEF ZoneInv, ZoneSound
<1>2. CASE UNCHANGED <<zone, rtcOffset, rtcReady, zoneFault>> BY <1>2, ZoneUntouched
<1>3. CASE zoneFault' BY <1>3, ZoneSettled
<1> QED BY <1>1, <1>2, <1>3 DEF SetLocalFails

LEMMA SaveManualKeepsZone ==
  ASSUME ZoneInv, TimeRecord(time), SaveManualTime
  PROVE  ZoneInv'
<1>1. HasOffset(ram.tz) => time'.offset = ParsedOffset(ram.tz)
  BY DEF SaveManualTime, TimeRecord
<1>2. /\ call = NoCall /\ call' = call /\ nvs' = nvs /\ ram' = ram /\ where' = where
      /\ where = "shell"
      /\ (SetLocalOk(time') /\ zoneFault' = zoneFault) \/ SetLocalFails(time')
  BY DEF SaveManualTime, Op
<1>3. ~zoneFault => ram.tz = nvs.tz BY <1>2 DEF ZoneInv, ZoneSound
<1> QED BY <1>1, <1>2, <1>3, SetKeepsZone

LEMMA SyncedOffset ==
  ASSUME NEW s, NEW utc \in Int, SyncedTime(s, utc) # NoTime, HasOffset(s.tz)
  PROVE  SyncedTime(s, utc).offset = ParsedOffset(s.tz)
BY FromUnixSound DEF SyncedTime

LEMMA SyncKeepsZone ==
  ASSUME ZoneInv, call = NoCall, call' = call, nvs' = nvs, ram' = ram, where' = where,
         NEW s, ~zoneFault => s.tz = nvs.tz, SyncConnected(s)
  PROVE  ZoneInv'
<1>1. PICK utc \in Instants :
        /\ SyncedTime(s, utc) # NoTime
        /\ \/ SetLocalOk(SyncedTime(s, utc)) /\ zoneFault' = zoneFault
           \/ SetLocalFails(SyncedTime(s, utc))
  BY DEF SyncConnected
<1>2. PICK t : t = SyncedTime(s, utc) OBVIOUS
<1>3. HasOffset(s.tz) => t.offset = ParsedOffset(s.tz)
  BY <1>1, <1>2, SyncedOffset, InstantsAssumption
<1>4. (SetLocalOk(t) /\ zoneFault' = zoneFault) \/ SetLocalFails(t) BY <1>1, <1>2
<1> QED BY <1>3, <1>4, SetKeepsZone

LEMMA SyncNtpKeepsZone ==
  ASSUME ZoneInv, SyncNtp
  PROVE  ZoneInv'
<1>1. /\ call = NoCall /\ call' = call /\ nvs' = nvs /\ ram' = ram /\ where' = where
      /\ where = "shell"
      /\ SyncConnected(ram) \/ UNCHANGED <<rtcVars, zoneFault>>
  BY DEF SyncNtp, Op, SyncSavedWifi
<1>2. ~zoneFault => ram.tz = nvs.tz BY <1>1 DEF ZoneInv, ZoneSound
<1>3. CASE SyncConnected(ram) BY <1>1, <1>2, <1>3, SyncKeepsZone
<1>4. CASE UNCHANGED <<rtcVars, zoneFault>> BY <1>1, <1>4, ZoneUntouched DEF rtcVars
<1> QED BY <1>1, <1>3, <1>4

LEMMA PortalSyncKeepsZone ==
  ASSUME StoreInv, ZoneInv, PortalSync
  PROVE  ZoneInv'
<1>1. /\ call = NoCall /\ call' = call /\ nvs' = nvs /\ ram' = ram /\ where' = where
      /\ SyncConnected(Stored)
  BY DEF PortalSync, Op, PortalKeeps
<1> QED BY <1>1, StoredIsMeant, SyncKeepsZone

LEMMA EnteredMinutes ==
  ASSUME NEW entry, EntryValid(entry), NEW offset \in Int
  PROVE  EnteredTime(entry, offset) # NoTime =>
           /\ Normal(EnteredTime(entry, offset))
           /\ EnteredTime(entry, offset).offset = offset
<1> DEFINE t == [year |-> entry.year, month |-> entry.month, day |-> entry.day,
                 hour |-> entry.hour, minute |-> entry.minute, weekday |-> 0,
                 offset |-> offset]
<1>1. EnteredTime(entry, offset) =
        IF CalendarValid(t) THEN FromUnix(ToUnix(t), offset) ELSE NoTime
  BY DEF EnteredTime
<1>2. TimeRecord(t) BY DEF TimeRecord
<1> HIDE DEF t
<1>3. CalendarValid(t) => ToUnix(t) \in Int BY <1>2, AnyWeekday, ToUnixSound
<1> QED BY <1>1, <1>3, FromUnixSound

LEMMA SetTimeKeepsZone ==
  ASSUME StoreInv, ZoneInv, NEW entry, SetTime(entry)
  PROVE  ZoneInv'
<1> DEFINE t == EnteredTime(entry, ParsedOffset(Stored.tz))
<1>1. /\ call = NoCall /\ call' = call /\ nvs' = nvs /\ ram' = ram /\ where' = where
      /\ EntryValid(entry) /\ HasOffset(Stored.tz) /\ t # NoTime
      /\ (SetLocalOk(t) /\ zoneFault' = zoneFault) \/ SetLocalFails(t)
  BY DEF SetTime, Op, PortalKeeps
<1>2. ParsedOffset(Stored.tz) \in Int BY <1>1 DEF HasOffset, TimezoneOffsets
<1>3. t.offset = ParsedOffset(Stored.tz) BY <1>1, <1>2, EnteredMinutes
<1> HIDE DEF t
<1> QED BY <1>1, <1>3, StoredIsMeant, SetKeepsZone

LEMMA WifiKeepsZone ==
  ASSUME StoreInv, ZoneInv, NEW ssid, NEW pass, UpdateWifi(ssid, pass)
  PROVE  ZoneInv'
<1> DEFINE next == PatchedWifi(ssid, pass)
<1>1. /\ UNCHANGED <<zone, rtcOffset, rtcReady, where, call, zoneFault>> /\ ram' = ram
      /\ nvs' = next \/ nvs' \in PartlySaved(next)
  BY DEF UpdateWifi, PortalKeeps, rtcVars
<1>2. next.tz = nvs.tz BY StoredIsMeant DEF PatchedWifi, Meant, Whole, Keys
<1> HIDE DEF next
<1>3. nvs' \in PartlySaved(next) => nvs'.tz \in {next.tz, nvs.tz}
  BY KeysListed DEF PartlySaved
<1>4. nvs'.tz = nvs.tz BY <1>1, <1>2, <1>3
<1> QED BY <1>1, <1>4, ZoneUntouched

LEMMA ReloadedZone ==
  ASSUME NEW s, Whole(s), s.tz = nvs.tz, Reloaded(s)
  PROVE  nvs'.tz = nvs.tz /\ ram'.tz = nvs.tz
<1> DEFINE t == [s EXCEPT !.face = active]
<1>1. t.tz = nvs.tz BY DEF Whole, Keys
<1>2. \/ ram' = s /\ nvs' = nvs
      \/ ram' = t /\ nvs' = t
      \/ ram' = t /\ nvs' \in PartlySaved(t)
  BY DEF Reloaded
<1> HIDE DEF t
<1>3. nvs' \in PartlySaved(t) => nvs'.tz \in {t.tz, nvs.tz} BY KeysListed DEF PartlySaved
<1> QED BY <1>1, <1>2, <1>3

LEMMA ExitKeepsZone ==
  ASSUME StoreInv, ZoneInv, ExitPortal
  PROVE  ZoneInv'
<1>1. /\ call = NoCall /\ call' = NoCall /\ where = "portal" /\ Reloaded(Sanitized(nvs))
      /\ UNCHANGED <<zone, rtcOffset, rtcReady, zoneFault>>
  BY DEF ExitPortal, rtcVars
<1>2. Whole(Sanitized(nvs)) /\ Sanitized(nvs).tz = nvs.tz
  BY Sanitizes DEF StoreInv, Meant
<1>3. nvs'.tz = nvs.tz /\ ram'.tz = nvs.tz BY <1>1, <1>2, ReloadedZone
<1> QED BY <1>1, <1>3, ZoneSettled DEF ZoneInv, ZoneSound

LEMMA RepairKeepsZone ==
  ASSUME ZoneInv, RepairOffset
  PROVE  ZoneInv'
<1> DEFINE offset == ParsedOffset(ram.tz)
<1>1. /\ where = "exit" /\ where' = "shell" /\ call = NoCall /\ call' = NoCall
      /\ nvs' = nvs /\ ram' = ram /\ (~zoneFault => ram.tz = nvs.tz)
  BY DEF RepairOffset, ZoneInv, ZoneSound
<1>2. \/ SetOffsetOk(offset) /\ zoneFault' = zoneFault
      \/ zoneFault'
      \/ UNCHANGED <<zone, rtcOffset, rtcReady, zoneFault>>
  BY DEF RepairOffset, SetOffsetFails, rtcVars
<1>3. CASE SetOffsetOk(offset) /\ zoneFault' = zoneFault
  <2>1. zone' = offset /\ rtcOffset' = offset BY <1>3 DEF SetOffsetOk
  <2> QED BY <1>1, <1>3, <2>1, ZoneSettled
<1>4. CASE zoneFault' BY <1>1, <1>4, ZoneSettled
<1>5. CASE UNCHANGED <<zone, rtcOffset, rtcReady, zoneFault>>
  BY <1>1, <1>5, ZoneSettled DEF ZoneInv, ZoneSound
<1> QED BY <1>2, <1>3, <1>4, <1>5

LEMMA ZoneStep ==
  ASSUME StoreInv, ZoneInv, TimeRecord(time), [Next]_vars
  PROVE  ZoneInv'
<1>1. CASE UNCHANGED vars BY <1>1, ZoneUntouched DEF vars
<1>2. CASE Boot BY <1>2, BootKeepsZone
<1>3. CASE Reset BY <1>3, ResetKeepsZone
<1>4. CASE Tick BY <1>4, ZoneUntouched DEF Tick
<1>5. CASE ToggleSetting BY <1>5, ToggleKeepsZone
<1>6. CASE ActiveChanges BY <1>6, ZoneUntouched DEF ActiveChanges, stores
<1>7. CASE Reconcile BY <1>7, ReconcileKeepsZone
<1>8. CASE \E offset \in Offsets : SaveTimezone(offset) BY <1>8, SaveTimezoneKeepsZone
<1>9. CASE SaveZone BY <1>9, SaveZoneKeepsZone
<1>10. CASE SaveZoneFails BY <1>10, SaveZoneFailsKeepsZone
<1>11. CASE RollBackZone BY <1>11, RollBackKeepsZone
<1>12. CASE \E field \in 0..4, delta \in {-1, 1} : AdjustTime(field, delta)
  <2>1. UNCHANGED <<nvs, ram, zone, rtcOffset, rtcReady, where, call, zoneFault>>
    BY <1>12 DEF AdjustTime, stores
  <2> QED BY <2>1, ZoneUntouched
<1>13. CASE SaveManualTime BY <1>13, SaveManualKeepsZone
<1>14. CASE SyncNtp BY <1>14, SyncNtpKeepsZone
<1>15. CASE StartPortal
  <2>1. /\ call' = NoCall /\ where' = "portal" /\ call = NoCall /\ where = "shell"
        /\ UNCHANGED <<nvs, ram, zone, rtcOffset, rtcReady, zoneFault>>
    BY <1>15 DEF StartPortal, stores, Op
  <2> QED BY <2>1, ZoneSettled DEF ZoneInv, ZoneSound
<1>16. CASE ExitPortal BY <1>16, ExitKeepsZone
<1>17. CASE ExitPortalUnread BY <1>17, ZoneSettled DEF ExitPortalUnread
<1>18. CASE RepairOffset BY <1>18, RepairKeepsZone
<1>19. CASE \E patch \in Patches : UpdateSettings(patch) BY <1>19, UpdateKeepsZone
<1>20. CASE \E network \in Networks : UpdateWifi(network[1], network[2])
                                      \/ ProvisionWifi(network[1], network[2])
  BY <1>20, WifiKeepsZone DEF ProvisionWifi
<1>21. CASE \E entry \in Entries : SetTime(entry) BY <1>21, SetTimeKeepsZone
<1>22. CASE PortalSync BY <1>22, PortalSyncKeepsZone
<1> QED BY <1>1, <1>2, <1>3, <1>4, <1>5, <1>6, <1>7, <1>8, <1>9, <1>10, <1>11, <1>12, <1>13,
           <1>14, <1>15, <1>16, <1>17, <1>18, <1>19, <1>20, <1>21, <1>22
        DEF Next, Watch, Portal

-----------------------------------------------------------------------------
(* The time: what main.c holds always has the weekday of its date, and a   *)
(* report of a time that was set does not outlive what it says.            *)
ClockInv ==
  /\ Normal(time)
  /\ SetIsRead
  /\ where = "exit" => report = NoReport

LEMMA ClockSettled ==
  ASSUME Normal(time'), where' # "exit" \/ report' = NoReport,
         \/ report'.kind # "timeSet"
         \/ ReadLocal(regs', rtcOffset') = report'.time /\ zone' = report'.time.offset
  PROVE  ClockInv'
BY DEF ClockInv, SetIsRead

LEMMA Quiet ==
  ASSUME report' = NoReport \/ Told("none") \/ Told("saved") \/ Told("zoneSaved")
           \/ Told("failed")
  PROVE  report'.kind # "timeSet"
BY DEF NoReport, Told

LEMMA SetLocalRead ==
  ASSUME NEW t, Normal(t), SetLocalOk(t)
  PROVE  ReadLocal(regs', rtcOffset') = t /\ zone' = t.offset /\ rtcOffset' = t.offset
<1>1. PICK u : u = FromUnix(ToUnix(t), 0) OBVIOUS
<1>2. u # NoTime /\ zone' = t.offset /\ rtcOffset' = t.offset /\ regs' = Encode(u)
  BY <1>1 DEF SetLocalOk
<1> QED BY <1>1, <1>2, SetAndRead

LEMMA ReportedRead ==
  ASSUME NEW t, Normal(t), Normal(time'), where' # "exit",
         \/ SetLocalOk(t) /\ report' = [kind |-> "timeSet", time |-> t]
         \/ Told("failed")
  PROVE  ClockInv'
<1>1. CASE SetLocalOk(t) /\ report' = [kind |-> "timeSet", time |-> t]
  BY <1>1, SetLocalRead, ClockSettled
<1>2. CASE Told("failed") BY <1>2, Quiet, ClockSettled
<1> QED BY <1>1, <1>2

LEMMA BootKeepsClock ==
  ASSUME Boot PROVE ClockInv'
<1>1. Normal(time')
  <2>1. CASE ReadLocal(regs, zone) # NoTime /\ time' = ReadLocal(regs, zone)
    BY <2>1, ReadLocalSound
  <2>2. CASE time' = DefaultTime BY <2>2, DefaultNormal DEF DefaultTime
  <2> QED BY <2>1, <2>2 DEF Boot, RtcInit
<1>2. where' # "exit" /\ report' = NoReport BY DEF Boot
<1> QED BY <1>1, <1>2, Quiet, ClockSettled

LEMMA ResetKeepsClock ==
  ASSUME Reset PROVE ClockInv'
<1>1. Normal(time') BY DefaultNormal DEF Reset, DefaultTime
<1>2. where' # "exit" /\ report' = NoReport BY DEF Reset
<1> QED BY <1>1, <1>2, Quiet, ClockSettled

LEMMA SaveZoneKeepsClock ==
  ASSUME StoreInv, ClockInv, SaveZone
  PROVE  ClockInv'
<1>1. where' = where /\ call # NoCall BY DEF SaveZone, NoCall
<1>2. where' # "exit" BY <1>1 DEF StoreInv, CallShape
<1>3. Told("zoneSaved") \/ Told("failed") BY DEF SaveZone
<1>4. \/ time' = time
      \/ Local # NoTime /\ time' = Local
  BY DEF SaveZone, Readable
<1>5. Normal(time') BY <1>4, ReadLocalSound DEF Local, ClockInv
<1> QED BY <1>2, <1>3, <1>5, Quiet, ClockSettled

LEMMA SaveZoneFailsKeepsClock ==
  ASSUME StoreInv, ClockInv, SaveZoneFails
  PROVE  ClockInv'
<1>1. where' = where /\ call # NoCall /\ time' = time
  BY DEF SaveZoneFails, NoCall
<1>2. where' # "exit" BY <1>1 DEF StoreInv, CallShape
<1>3. CASE Told("failed") BY <1>1, <1>2, <1>3, Quiet, ClockSettled DEF ClockInv
<1>4. CASE report' = report
  <2>1. UNCHANGED <<regs, rtcOffset, zone>> BY DEF SaveZoneFails, rtcVars
  <2> QED BY <1>1, <1>2, <1>4, <2>1 DEF ClockInv, SetIsRead
<1> QED BY <1>3, <1>4 DEF SaveZoneFails

LEMMA RollBackKeepsClock ==
  ASSUME StoreInv, ClockInv, RollBackZone
  PROVE  ClockInv'
<1>1. where' = where /\ call # NoCall /\ time' = time /\ Told("failed")
  BY DEF RollBackZone, NoCall
<1>2. where' # "exit" BY <1>1 DEF StoreInv, CallShape
<1> QED BY <1>1, <1>2, Quiet, ClockSettled DEF ClockInv

LEMMA OtherOffset ==
  ASSUME NEW t, Normal(t), NEW o, OffsetValid(o), NEW u, u = [t EXCEPT !.offset = o]
  PROVE  Normal(u)
<1>1. /\ TimeRecord(u) /\ u.year = t.year /\ u.month = t.month /\ u.day = t.day
      /\ u.hour = t.hour /\ u.minute = t.minute /\ u.weekday = t.weekday /\ u.offset = o
  BY DEF Normal, TimeRecord
<1>2. CalendarValid(u) BY <1>1 DEF Normal, CalendarValid
<1>3. u.weekday = Weekday(u) BY <1>1 DEF Normal, Weekday
<1> QED BY <1>1, <1>2, <1>3 DEF Normal

LEMMA FixedOffsetValid ==
  ASSUME NEW tz, HasOffset(tz)
  PROVE  OffsetValid(ParsedOffset(tz))
BY DEF HasOffset, TimezoneOffsets, OffsetValid

LEMMA SaveManualKeepsClock ==
  ASSUME ClockInv, SaveManualTime
  PROVE  ClockInv'
<1>1. PICK t : t = time' OBVIOUS
<1>2. Normal(t)
  <2>1. CASE HasOffset(ram.tz)
    <3>1. t = [time EXCEPT !.offset = ParsedOffset(ram.tz)] BY <1>1, <2>1 DEF SaveManualTime
    <3> QED BY <2>1, <3>1, FixedOffsetValid, OtherOffset DEF ClockInv
  <2>2. CASE ~HasOffset(ram.tz) BY <1>1, <2>2 DEF SaveManualTime, ClockInv
  <2> QED BY <2>1, <2>2
<1>3. /\ where' # "exit"
      /\ \/ SetLocalOk(t) /\ report' = [kind |-> "timeSet", time |-> t]
         \/ Told("failed")
  BY <1>1 DEF SaveManualTime, Op
<1> QED BY <1>1, <1>2, <1>3, ReportedRead

LEMMA SyncReported ==
  ASSUME NEW s, SyncConnected(s)
  PROVE  \E t : /\ Normal(t)
                /\ \/ SetLocalOk(t) /\ report' = [kind |-> "timeSet", time |-> t]
                   \/ Told("failed")
<1>1. PICK utc \in Instants :
        /\ SyncedTime(s, utc) # NoTime
        /\ \/ /\ SetLocalOk(SyncedTime(s, utc))
              /\ report' = [kind |-> "timeSet", time |-> SyncedTime(s, utc)]
           \/ Told("failed")
  BY DEF SyncConnected
<1>2. utc \in Int BY InstantsAssumption
<1>3. Normal(SyncedTime(s, utc)) BY <1>1, <1>2, FromUnixSound DEF SyncedTime
<1> QED BY <1>1, <1>3

LEMMA SyncNtpKeepsClock ==
  ASSUME ClockInv, SyncNtp
  PROVE  ClockInv'
<1>1. where' # "exit" BY DEF SyncNtp, Op
<1>2. CASE /\ SyncConnected(ram)
           /\ time' = IF report'.kind = "timeSet" THEN ReadLocal(regs', rtcOffset') ELSE time
  <2>1. PICK t : /\ Normal(t)
                 /\ \/ SetLocalOk(t) /\ report' = [kind |-> "timeSet", time |-> t]
                    \/ Told("failed")
    BY <1>2, SyncReported
  <2>2. CASE SetLocalOk(t) /\ report' = [kind |-> "timeSet", time |-> t]
    <3>1. ReadLocal(regs', rtcOffset') = t BY <2>1, <2>2, SetLocalRead
    <3>2. time' = t BY <1>2, <2>2, <3>1
    <3> QED BY <1>1, <2>1, <2>2, <3>2, ReportedRead
  <2>3. CASE Told("failed")
    <3>1. report'.kind # "timeSet" BY <2>3, Quiet
    <3>2. time' = time BY <1>2, <3>1
    <3> QED BY <1>1, <3>1, <3>2, ClockSettled DEF ClockInv
  <2> QED BY <2>1, <2>2, <2>3
<1>3. CASE Told("failed") /\ time' = time
  BY <1>1, <1>3, Quiet, ClockSettled DEF ClockInv
<1> QED BY <1>2, <1>3 DEF SyncNtp, SyncSavedWifi

LEMMA PortalSyncKeepsClock ==
  ASSUME ClockInv, PortalSync
  PROVE  ClockInv'
<1>1. where' # "exit" /\ time' = time BY DEF PortalSync, Op, PortalKeeps
<1>2. PICK t : /\ Normal(t)
               /\ \/ SetLocalOk(t) /\ report' = [kind |-> "timeSet", time |-> t]
                  \/ Told("failed")
  BY SyncReported DEF PortalSync
<1> QED BY <1>1, <1>2, ReportedRead DEF ClockInv

LEMMA SetTimeKeepsClock ==
  ASSUME ClockInv, NEW entry, SetTime(entry)
  PROVE  ClockInv'
<1> DEFINE t == EnteredTime(entry, ParsedOffset(Stored.tz))
<1>1. /\ where' # "exit" /\ time' = time
      /\ EntryValid(entry) /\ HasOffset(Stored.tz) /\ t # NoTime
      /\ \/ SetLocalOk(t) /\ report' = [kind |-> "timeSet", time |-> t]
         \/ Told("failed")
  BY DEF SetTime, Op, PortalKeeps
<1>2. ParsedOffset(Stored.tz) \in Int BY <1>1 DEF HasOffset, TimezoneOffsets
<1>3. Normal(t) BY <1>1, <1>2, EnteredMinutes
<1> HIDE DEF t
<1> QED BY <1>1, <1>3, ReportedRead DEF ClockInv

LEMMA RepairKeepsClock ==
  ASSUME ClockInv, RepairOffset
  PROVE  ClockInv'
<1>1. where' # "exit" /\ report' = NoReport BY DEF RepairOffset, ClockInv
<1>2. \/ time' = time
      \/ \E offset : ReadLocal(regs, offset) # NoTime /\ time' = ReadLocal(regs, offset)
  BY DEF RepairOffset
<1>3. Normal(time') BY <1>2, ReadLocalSound DEF ClockInv
<1> QED BY <1>1, <1>3, Quiet, ClockSettled

(* A step that leaves the time alone and tells of something else.          *)
LEMMA OtherKeepsClock ==
  ASSUME ClockInv, time' = time,
         \/ report' = NoReport
         \/ where' # "exit" /\ (Told("none") \/ Told("saved") \/ Told("failed"))
  PROVE  ClockInv'
BY Quiet, ClockSettled DEF ClockInv

LEMMA ClockStep ==
  ASSUME StoreInv, ClockInv, [Next]_vars
  PROVE  ClockInv'
<1>1. CASE UNCHANGED vars
  <2>1. UNCHANGED <<time, where, report, regs, rtcOffset, zone>> BY <1>1 DEF vars
  <2> QED BY <2>1 DEF ClockInv, SetIsRead
<1>2. CASE Boot BY <1>2, BootKeepsClock
<1>3. CASE Reset BY <1>3, ResetKeepsClock
<1>4. CASE Tick BY <1>4, OtherKeepsClock DEF Tick
<1>5. CASE ToggleSetting BY <1>5, OtherKeepsClock DEF ToggleSetting, Op
<1>6. CASE ActiveChanges BY <1>6, OtherKeepsClock DEF ActiveChanges, Op
<1>7. CASE Reconcile BY <1>7, OtherKeepsClock DEF Reconcile
<1>8. CASE \E offset \in Offsets : SaveTimezone(offset)
  <2>1. time' = time /\ where' # "exit" /\ (report' = NoReport \/ Told("failed"))
    BY <1>8 DEF SaveTimezone, ChangeZone, Op
  <2> QED BY <2>1, OtherKeepsClock
<1>9. CASE SaveZone BY <1>9, SaveZoneKeepsClock
<1>10. CASE SaveZoneFails BY <1>10, SaveZoneFailsKeepsClock
<1>11. CASE RollBackZone BY <1>11, RollBackKeepsClock
<1>12. CASE \E field \in 0..4, delta \in {-1, 1} : AdjustTime(field, delta)
  <2>1. PICK field \in 0..4, delta \in {-1, 1} : AdjustTime(field, delta) BY <1>12
  <2>2. Normal(time') BY <2>1, AdjustSound DEF AdjustTime, ClockInv
  <2>3. report' = NoReport BY <2>1 DEF AdjustTime
  <2> QED BY <2>2, <2>3, Quiet, ClockSettled
<1>13. CASE SaveManualTime BY <1>13, SaveManualKeepsClock
<1>14. CASE SyncNtp BY <1>14, SyncNtpKeepsClock
<1>15. CASE StartPortal BY <1>15, OtherKeepsClock DEF StartPortal
<1>16. CASE ExitPortal BY <1>16, OtherKeepsClock DEF ExitPortal
<1>17. CASE ExitPortalUnread BY <1>17, OtherKeepsClock DEF ExitPortalUnread
<1>18. CASE RepairOffset BY <1>18, RepairKeepsClock
<1>19. CASE \E patch \in Patches : UpdateSettings(patch)
  <2>1. time' = time /\ where' # "exit" /\ (report' = NoReport \/ Told("failed"))
    BY <1>19 DEF UpdateSettings, ChangeZone, Op, PortalKeeps
  <2> QED BY <2>1, OtherKeepsClock
<1>20. CASE \E network \in Networks : UpdateWifi(network[1], network[2])
                                      \/ ProvisionWifi(network[1], network[2])
  <2>1. time' = time /\ where' # "exit" /\ (Told("saved") \/ Told("failed"))
    BY <1>20 DEF ProvisionWifi, UpdateWifi, Op, PortalKeeps
  <2> QED BY <2>1, OtherKeepsClock
<1>21. CASE \E entry \in Entries : SetTime(entry) BY <1>21, SetTimeKeepsClock
<1>22. CASE PortalSync BY <1>22, PortalSyncKeepsClock
<1> QED BY <1>1, <1>2, <1>3, <1>4, <1>5, <1>6, <1>7, <1>8, <1>9, <1>10, <1>11, <1>12, <1>13,
           <1>14, <1>15, <1>16, <1>17, <1>18, <1>19, <1>20, <1>21, <1>22
        DEF Next, Watch, Portal

-----------------------------------------------------------------------------
(* The inductive invariant: the store, the zone and the clock.             *)
SettingsInv == StoreInv /\ ZoneInv /\ ClockInv

LEMMA NoMinutes == 0 * 60 + 0 \in Int /\ 0 * 60 + 0 = 0 /\ -0 = 0
<1>1. -0 \in Int /\ -0 >= 0 /\ -0 <= 0 OBVIOUS
<1>2. \A n \in Int : n >= 0 /\ n <= 0 => n = 0 OBVIOUS
<1>3. 0 * 60 + 0 \in Int /\ 0 * 60 + 0 = 0 OBVIOUS
<1> QED BY <1>1, <1>2, <1>3, Zenon

LEMMA UtcIsZero ==
  ZoneOf(0) = [sign |-> "", hours |-> 0, minutes |-> 0]
<1>1. Magnitude(0) = 0 /\ 0 \div 60 = 0 /\ 0 % 60 = 0 /\ ~(0 > 0) BY DEF Magnitude
<1> QED BY <1>1 DEF ZoneOf, Fixed

LEMMA UtcZone ==
  ASSUME NEW tz, tz = [sign |-> "", hours |-> 0, minutes |-> 0]
  PROVE  tz # Custom /\ ParsedOffset(tz) = 0
<1>1. tz.sign = "" /\ tz.hours = 0 /\ tz.minutes = 0 OBVIOUS
<1>2. tz # Custom
  <2>1. Custom.sign = "posix" BY DEF Custom, Fixed
  <2>2. "" # "posix" BY Zenon
  <2> QED BY <1>1, <2>1, <2>2, Zenon
<1>3. PICK m \in Int : m = tz.hours * 60 + tz.minutes /\ m = 0
  BY <1>1, NoMinutes, Zenon
<1>4. ParsedOffset(tz) = m \/ ParsedOffset(tz) = -m BY <1>3, Zenon DEF ParsedOffset
<1> QED BY <1>2, <1>3, <1>4, NoMinutes, Zenon

LEMMA SettingsInit ==
  ASSUME Init PROVE SettingsInv
<1>1. StoreInv BY StoreInit
<1>2. ZoneInv
  <2>1. PICK tz \in {ZoneOf(0), Custom} :
          /\ nvs = [Defaults EXCEPT !.tz = tz]
          /\ zone = IF tz = Custom THEN CustomOffset ELSE 0
    BY DEF Init
  <2>2. nvs.tz = tz BY <2>1 DEF Defaults
  <2>3. HasOffset(tz) => zone = ParsedOffset(tz)
    <3>1. CASE tz = ZoneOf(0) BY <2>1, <3>1, UtcIsZero, UtcZone
    <3>2. CASE tz = Custom BY <3>2 DEF Custom, Fixed, HasOffset
    <3> QED BY <3>1, <3>2
  <2>4. where = "boot" /\ call = NoCall BY DEF Init
  <2> QED BY <2>2, <2>3, <2>4 DEF ZoneInv, ZoneSound, SaveSound, RollbackSound, Saving
<1>3. ClockInv
  <2>1. time = DefaultTime /\ report = NoReport BY DEF Init
  <2>2. Normal(time) BY <2>1, DefaultNormal DEF DefaultTime
  <2> QED BY <2>1, <2>2 DEF ClockInv, SetIsRead, NoReport
<1> QED BY <1>1, <1>2, <1>3 DEF SettingsInv

LEMMA SettingsStep ==
  ASSUME SettingsInv, [Next]_vars PROVE SettingsInv'
<1>1. StoreInv' BY StoreStep DEF SettingsInv
<1>2. ZoneInv' BY ZoneStep DEF SettingsInv, ClockInv, Normal
<1>3. ClockInv' BY ClockStep DEF SettingsInv
<1> QED BY <1>1, <1>2, <1>3 DEF SettingsInv

(* It holds in every reachable state.                                      *)
THEOREM SettingsInvariant == Spec => []SettingsInv
BY SettingsInit, SettingsStep, PTL DEF Spec

(* The zone of the settings, the offset stored for the RTC service and the *)
(* one it converts with agree, whatever was asked of the watch and of the  *)
(* portal and wherever it was reset, until a fault hits one of them        *)
(* (timezone_action.c, rtc.c).                                             *)
THEOREM ZoneAlwaysAgrees == Spec => []ZoneAgrees
<1>1. SettingsInv => ZoneAgrees
  BY DEF SettingsInv, ZoneInv, ZoneSound, ZoneAgrees
<1> QED BY <1>1, SettingsInvariant, PTL

(* A time reported as set is read back from the chip: for every instant    *)
(* and offset, over the leap days, the eras of the calendar, the century   *)
(* bit and the decimals of the registers (rtc_calendar.c, rtc.c).          *)
THEOREM SetAlwaysRead == Spec => []SetIsRead
<1>1. SettingsInv => SetIsRead BY DEF SettingsInv, ClockInv
<1> QED BY <1>1, SettingsInvariant, PTL

-----------------------------------------------------------------------------
(* The panel (DisplayPresent).                                             *)

Screens == Frames \cup {Mixed}

DisplayTyped ==
  /\ retained \in [valid : BOOLEAN, frame : Screens, count : Nat]
  /\ sinceFull \in Nat
  /\ limit \in Limits
  /\ drawn \in Screens
  /\ enrolled \in BOOLEAN /\ before \in BOOLEAN

(* A count that is still believed is the one the panel has seen.           *)
CountTruthful == retained.valid => retained.count = sinceFull

(* Inside a presentation the task is enrolled, and the presentation owns   *)
(* the membership exactly when there was none before.                      *)
ScopeSound == at \in {"write", "feed", "cancel", "end"} => enrolled /\ (owns = ~before)

DisplayInv ==
  DisplayTyped /\ RetainedTruthful /\ CountTruthful /\ ScopeSound /\ WatchdogBalanced

USE DEF Screens, DisplayTyped, CountTruthful, ScopeSound, RetainedTruthful, WatchdogBalanced,
        deviceVars, driverVars, runVars, shellVars

(* A retained state that is dropped keeps its shape.                       *)
LEMMA Dropped ==
  ASSUME DisplayInv
  PROVE  /\ Invalidated \in [valid : BOOLEAN, frame : Screens, count : Nat]
         /\ Invalidated.valid = FALSE
BY DEF Invalidated, DisplayInv

(* A physical write, with the mode the policy promotes it to: what was     *)
(* believed of the panel stays true, and a partial one is below the limit. *)
LEMMA WriteStep ==
  ASSUME DisplayInv, Write
  PROVE  /\ retained' \in [valid : BOOLEAN, frame : Screens, count : Nat]
         /\ retained'.frame = panel'
         /\ retained'.count = sinceFull'
         /\ sinceFull' \in Nat
         /\ sinceFull' > sinceFull => sinceFull' < limit
<1> DEFINE mode == WriteMode(plan, done + 1)
           frame == WriteFrame(plan, done + 1)
<1>1. /\ panel' = frame
      /\ sinceFull' = IF mode = "full" THEN 0 ELSE sinceFull + 1
      /\ retained' = Committed(retained, mode, frame)
  BY DEF Write
<1>2. frame \in Screens BY DEF WriteFrame, DisplayInv
<1>3. retained.count \in Nat /\ limit \in Nat /\ sinceFull \in Nat
  BY LimitsAssumption DEF DisplayInv
<1>4. mode # "full" => retained.valid /\ retained.count + 1 < limit
  BY <1>3 DEF WriteMode, Prepared
<1>5. /\ retained'.frame = frame
      /\ retained'.count = IF mode = "full" \/ ~retained.valid THEN 0 ELSE retained.count + 1
      /\ retained' \in [valid : BOOLEAN, frame : Screens, count : Nat]
  BY <1>1, <1>2, <1>3 DEF Committed
<1>6. retained'.count = sinceFull' BY <1>1, <1>3, <1>4, <1>5 DEF DisplayInv
<1>7. sinceFull' \in Nat /\ (sinceFull' > sinceFull => sinceFull' < limit)
  BY <1>1, <1>3, <1>4 DEF DisplayInv
<1> QED BY <1>1, <1>5, <1>6, <1>7

-----------------------------------------------------------------------------
LEMMA DisplayInitSound == DisplayInit => DisplayInv
<1> SUFFICES ASSUME DisplayInit PROVE DisplayInv OBVIOUS
<1> PICK frame \in Frames :
      retained = [valid |-> FALSE, frame |-> frame, count |-> 0] /\ drawn = frame
  BY DEF DisplayInit
<1> QED BY DEF DisplayInit, DisplayInv

LEMMA DisplayStep == DisplayInv /\ [DisplayNext]_displayVars => DisplayInv'
<1> SUFFICES ASSUME DisplayInv, [DisplayNext]_displayVars PROVE DisplayInv' OBVIOUS
<1>0. CASE UNCHANGED displayVars BY <1>0 DEF displayVars, DisplayInv
<1>1. CASE Begin BY <1>1, Dropped DEF Begin, ScopeBegins, Returned, DisplayInv
<1>2. CASE Feed BY <1>2, Dropped DEF Feed, FeedFails, DisplayInv
<1>3. CASE CancelCheck BY <1>3, Dropped DEF CancelCheck, DisplayInv
<1>4. CASE End BY <1>4, Dropped DEF End, ScopeEnds, Returned, DisplayInv
<1>5. CASE WriteFails BY <1>5, Dropped DEF WriteFails, DisplayInv
<1>6. CASE ShellReturns BY <1>6, Dropped DEF ShellReturns, Observe, Between, DisplayInv
<1>7. CASE RecoveryReturns BY <1>7, Dropped DEF RecoveryReturns, Observe, Between, DisplayInv
<1>8. CASE FaceStart BY <1>8, Dropped DEF FaceStart, ScopeBegins, Between, DisplayInv
<1>9. CASE FaceGoesOn BY <1>9, Dropped DEF FaceGoesOn, Left, Between, DisplayInv
<1>10. CASE FaceEnds BY <1>10, Dropped DEF FaceEnds, ScopeEnds, Observe, Between, DisplayInv
<1>11. CASE Handle BY <1>11, Dropped DEF Handle, DisplayInv
<1>12. CASE SleepVetoed BY <1>12, Dropped DEF SleepVetoed, DisplayInv
<1>13. CASE SleepRefused BY <1>13, Dropped DEF SleepRefused, DisplayInv
<1>14. CASE Sleep BY <1>14, Dropped DEF Sleep, Boots, DisplayInv
<1>15. CASE DisplayReset BY <1>15, Dropped DEF DisplayReset, Boots, DisplayInv
<1>16. CASE Write
  BY <1>16, WriteStep DEF Write, DisplayInv
<1>17. ASSUME NEW button \in Buttons, Arrive(button) PROVE DisplayInv'
  BY <1>17 DEF Arrive, DisplayInv
<1> QED
  BY <1>0, <1>1, <1>2, <1>3, <1>4, <1>5, <1>6, <1>7, <1>8,
     <1>9, <1>10, <1>11, <1>12, <1>13, <1>14, <1>15, <1>16, <1>17
  DEF DisplayNext, MainTask, Present, Callers, Loop

(* The inductive invariant of the presentation (display.c, and             *)
(* refresh_shell of main.c).                                               *)
THEOREM DisplayInvariant == DisplaySpec => []DisplayInv
BY DisplayInitSound, DisplayStep, PTL DEF DisplaySpec

(* A frame the driver remembers as valid is the one on the panel           *)
(* (display.c).                                                            *)
THEOREM RetainedAlwaysTruthful == DisplaySpec => []RetainedTruthful
<1>1. DisplayInv => RetainedTruthful BY DEF DisplayInv
<1> QED BY <1>1, DisplayInvariant, PTL

(* A presentation that does not fail leaves the task's membership of the   *)
(* watchdog as it found it.                                                *)
THEOREM WatchdogAlwaysBalanced == DisplaySpec => []WatchdogBalanced
<1>1. DisplayInv => WatchdogBalanced BY DEF DisplayInv
<1> QED BY <1>1, DisplayInvariant, PTL

(* Nothing but a write is counted.                                         *)
LEMMA OnlyWritesCount ==
  ASSUME DisplayInv, [DisplayNext]_displayVars, sinceFull' > sinceFull
  PROVE  sinceFull' < limit
<1>1. sinceFull' # sinceFull BY DEF DisplayInv
<1>2. Write
  BY <1>1
  DEF DisplayNext, MainTask, Present, Callers, Loop, displayVars, Arrive, DisplayReset, Begin,
      Feed, CancelCheck, End, WriteFails, ShellReturns, RecoveryReturns, FaceStart, FaceGoesOn, FaceEnds, Handle,
      SleepVetoed, SleepRefused, Sleep
<1> QED BY <1>2, WriteStep

(* No partial refresh leaves the panel with as many of them since its last *)
(* full one as the settings allow (display_policy.c).                      *)
THEOREM GhostingAlwaysBounded == DisplaySpec => GhostingBounded
<1>1. DisplayInv /\ [DisplayNext]_displayVars =>
        [sinceFull' > sinceFull => sinceFull' < limit]_displayVars
  BY OnlyWritesCount
<1> QED BY <1>1, DisplayInvariant, PTL DEF DisplaySpec, GhostingBounded
=============================================================================
