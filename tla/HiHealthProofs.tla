--------------------------- MODULE HiHealthProofs ---------------------------
(* What HiHealth promises, for every set of images, every number of power  *)
(* cuts and updates, every counter width and every limit below it.         *)
EXTENDS HiHealth, TLAPS

-----------------------------------------------------------------------------
(* The helpers.                                                            *)

\* There are two slots, each the other's other.
LEMMA OtherSlot ==
    ASSUME NEW s \in Slot
    PROVE  /\ Other(s) \in Slot /\ Other(s) # s /\ Other(Other(s)) = s
           /\ \A t \in Slot : t = s \/ t = Other(s)
  BY DEF Slot, Other

\* The counter is incremented, or runs round to 0.
LEMMA NextBootsBounds ==
    ASSUME NEW b \in 0 .. BootsMod - 1
    PROVE  /\ NextBoots(b) \in 0 .. BootsMod - 1
           /\ NextBoots(b) = b + 1 \/ (b + 1 = BootsMod /\ NextBoots(b) = 0)
  <1>1. BootsMod \in Nat /\ BootsMod > 0
    BY BootsAssumption
  <1>2. CASE b + 1 < BootsMod
    <2>1. (b + 1) % BootsMod = b + 1
      BY <1>1, <1>2
    <2>. QED  BY <1>1, <1>2, <2>1 DEF NextBoots
  <1>3. CASE b + 1 = BootsMod
    <2>1. (b + 1) % BootsMod = 0
      BY <1>1, <1>3
    <2>. QED  BY <1>1, <1>3, <2>1 DEF NextBoots
  <1>. QED  BY <1>1, <1>2, <1>3

-----------------------------------------------------------------------------
(* Type correctness.                                                       *)

LEMMA TypeInit == Init => TypeOK
  <1>. SUFFICES ASSUME Init PROVE TypeOK
    OBVIOUS
  <1>1. /\ image \in [Slot -> Image \cup {None, Partial}]
        /\ bootSlot \in Slot /\ running \in Slot
        /\ otaState \in [Slot -> {"new", "pending", "valid", "aborted"}]
    BY DEF Init
  <1>2. /\ nvs \in [verified : Image \cup {None}, boots : 0 .. BootsMod - 1]
        /\ faults \in 0 .. MaxFaults /\ updates \in 0 .. MaxUpdates
        /\ strikes \in 0 .. BootsMod /\ own \in [Slot -> 0 .. MaxBoots + 1]
    BY ImageAssumption, BootsAssumption, BoundAssumption, SMT DEF Init
  <1>3. /\ pc \in Pc /\ up \in BOOLEAN /\ nvsUp \in BOOLEAN
        /\ pending \in BOOLEAN /\ expired \in BOOLEAN /\ raced \in BOOLEAN
        /\ reason \in Reason
        /\ ota \in {"idle", "writing", "written", "selected"}
    BY Zenon DEF Init, Pc, Reason, PowerReset
  <1>. QED  BY <1>1, <1>2, <1>3 DEF TypeOK

\* A reset, of any cause, keeps the types.
LEMMA TypeRestart ==
    ASSUME TypeOK, NEW r \in Reason, Restart(r), faults' \in 0 .. MaxFaults
    PROVE  TypeOK'
  BY DEF TypeOK, Restart, flash, history, Pc

LEMMA TypeNext == TypeOK /\ [Next]_vars => TypeOK'
  <1>. SUFFICES ASSUME TypeOK, [Next]_vars PROVE TypeOK'
    OBVIOUS
  <1>. USE ImageAssumption, BootsAssumption, BoundAssumption
  <1>0. /\ Other(running) \in Slot /\ Other(bootSlot) \in Slot
        /\ 0 \in 0 .. BootsMod - 1 /\ 0 \in 0 .. BootsMod
        /\ 0 \in 0 .. MaxBoots + 1
    BY OtherSlot DEF TypeOK
  <1>1. CASE Bootloader
    <2>1. Chosen \in Slot /\ Other(Chosen) \in Slot
      BY <1>0, OtherSlot DEF TypeOK, Chosen
    <2>2. bootSlot' \in Slot /\ running' \in Slot
      BY <1>1, <2>1 DEF Bootloader
    <2>3. otaState' \in [Slot -> {"new", "pending", "valid", "aborted"}]
      BY <1>1 DEF TypeOK, Bootloader
    <2>4. raced' \in BOOLEAN /\ pc' \in Pc
      BY <1>1, Zenon DEF Bootloader, Pc
    <2>. QED
      BY <1>1, <2>2, <2>3, <2>4 DEF TypeOK, Bootloader, bounds
  <1>2. CASE Confirm
    BY <1>2 DEF TypeOK, Confirm, bounds, history, Pc
  <1>3. CASE \E o \in {"ok", "erased", "failed"} : NvsInit(o)
    BY <1>0, <1>3 DEF TypeOK, NvsInit, NoNvs, Pc
  <1>4. CASE Trusted
    BY <1>4 DEF TypeOK, Trusted, flash, bounds, history, Pc
  <1>5. CASE Count
    <2>. DEFINE boots == IF Counts(reason) THEN NextBoots(Read.boots)
                         ELSE Read.boots
    <2>1. Read.boots \in 0 .. BootsMod - 1
      BY <1>0 DEF TypeOK, Read, NoNvs
    <2>2. boots \in 0 .. BootsMod - 1
      BY <2>1, NextBootsBounds
    <2>3. nvs' \in [verified : Image \cup {None}, boots : 0 .. BootsMod - 1]
      <3>1. StoreBoots(boots)
        BY <1>5, Zenon DEF Count
      <3>. HIDE DEF boots
      <3>. QED  BY <2>2, <3>1 DEF TypeOK, StoreBoots
    <2>4. strikes' \in 0 .. BootsMod /\ own' \in [Slot -> 0 .. MaxBoots + 1]
      BY <1>5 DEF TypeOK, Count, CapStrikes, CapOwn
    <2>5. pc' \in Pc /\ up' \in BOOLEAN /\ pending' \in BOOLEAN
      BY <1>5 DEF Count, Pc, TooMany
    <2>. QED  BY <1>5, <2>3, <2>4, <2>5 DEF TypeOK, Count, bounds
  <1>6. ASSUME Rollback PROVE TypeOK'
    BY <1>0, <1>6 DEF TypeOK, Rollback, Stay, StoreBoots, bounds, Pc
  <1>7. CASE SetBoot
    BY <1>0, <1>7 DEF TypeOK, SetBoot, Stay, bounds, Pc
  <1>8. CASE Leave \/ PowerCut \/ Panic \/ AppRestart \/ OtaRestart
    <2>1. \E r \in Reason : Restart(r)
      BY <1>8 DEF Leave, PowerCut, Panic, AppRestart, OtaRestart,
                       Reason, PowerReset
    <2>2. faults' \in 0 .. MaxFaults
      BY <1>8 DEF TypeOK, Leave, PowerCut, Panic, AppRestart, OtaRestart
    <2>. QED  BY <2>1, <2>2, TypeRestart
  <1>9. CASE HealthStart \/ Expire
    BY <1>9 DEF TypeOK, HealthStart, Expire, flash, bounds, history, Pc
  <1>10. CASE Verify
    BY <1>10 DEF TypeOK, Verify, StoreVerified, bounds, history, Pc
  <1>11. CASE VerifyClear
    BY <1>0, <1>11 DEF TypeOK, VerifyClear, StoreBoots, bounds, Pc
  <1>12. CASE OtaBegin
    BY <1>0, <1>12 DEF TypeOK, OtaBegin
  <1>13. CASE OtaHeader
    BY <1>0, <1>13 DEF TypeOK, OtaHeader, bounds, history
  <1>14. CASE OtaFail
    BY <1>14 DEF TypeOK, OtaFail, flash, bounds, history
  <1>15. CASE \E i \in Image : OtaWritten(i)
    BY <1>0, <1>15 DEF TypeOK, OtaWritten, bounds
  <1>16. CASE OtaSelect
    BY <1>0, <1>16 DEF TypeOK, OtaSelect, bounds
  <1>17. CASE UNCHANGED vars
    BY <1>17 DEF TypeOK, vars
  <1>. QED
    BY <1>1, <1>2, <1>3, <1>4, <1>5, <1>6, <1>7, <1>8, <1>9, <1>10, <1>11,
       <1>12, <1>13, <1>14, <1>15, <1>16, <1>17
       DEF Next, Boot, Health, Ota, EarlyRollback, TimeoutRollback

\* Every variable stays in its type.
THEOREM TypeCorrect == Spec => []TypeOK
  BY TypeInit, TypeNext, PTL DEF Spec

-----------------------------------------------------------------------------
(* The slots.  BootSlotComplete is not inductive: it rests on the running  *)
(* slot being whole, on a download touching only the other one, and on the *)
(* otadata state telling which slot may still be aborted.                  *)

Early == {"off", "confirm", "nvs", "count"}

SlotInv ==
    /\ BootSlotComplete
    /\ AbortFindsImage
    /\ otaState[Other(bootSlot)] \notin {"new", "pending"}
    /\ pc # "off" => Complete(running) /\ (raced => bootSlot = Other(running))
    /\ pc \in Early => ~up /\ ota = "idle"
    /\ pc \notin {"off", "confirm"} /\ bootSlot = running
          => otaState[bootSlot] \notin {"new", "pending"}
    /\ ota = "writing" => /\ bootSlot = running \/ raced
                          /\ ~Complete(Other(running))
    /\ ota = "written" => Complete(Other(running))

LEMMA SlotInit == Init => SlotInv
  BY OtherSlot DEF Init, SlotInv, BootSlotComplete, AbortFindsImage, Complete, Slot, Other

LEMMA SlotNext == TypeOK /\ SlotInv /\ [Next]_vars => SlotInv'
  <1>. SUFFICES ASSUME TypeOK, SlotInv, [Next]_vars PROVE SlotInv'
    OBVIOUS
  <1>. USE ImageAssumption DEF SlotInv, BootSlotComplete, AbortFindsImage,
                               Complete, Early
  <1>0. /\ running \in Slot /\ bootSlot \in Slot
        /\ Other(running) \in Slot /\ Other(running) # running
        /\ Other(Other(running)) = running
        /\ Other(bootSlot) \in Slot /\ Other(bootSlot) # bootSlot
        /\ Other(Other(bootSlot)) = bootSlot
        /\ bootSlot = running \/ bootSlot = Other(running)
        /\ image \in [Slot -> Image \cup {None, Partial}]
        /\ otaState \in [Slot -> {"new", "pending", "valid", "aborted"}]
    BY OtherSlot DEF TypeOK
  <1>1. CASE Bootloader
    <2>1. CASE Aborts
      BY <1>0, <1>1, <2>1, OtherSlot DEF Bootloader, Aborts, Chosen, bounds
    <2>2. CASE ~Aborts
      <3>1. /\ bootSlot' = bootSlot /\ image' = image /\ raced' = ~Complete(bootSlot)
            /\ running' = IF Complete(bootSlot) THEN bootSlot
                          ELSE Other(bootSlot)
            /\ otaState' = [s \in Slot |->
                    IF s = bootSlot /\ otaState[s] = "new" THEN "pending"
                    ELSE otaState[s]]
            /\ pc = "off" /\ pc' = "confirm" /\ up' = up /\ ota' = ota
        BY <1>1, <2>2 DEF Bootloader, Chosen
      <3>2. otaState'[Other(bootSlot)] \notin {"new", "pending"}
        BY <1>0, <3>1
      <3>3. BootSlotComplete'
        BY <1>0, <3>1
      <3>4. AbortFindsImage'
        BY <1>0, <3>1
      <3>5. Complete(running)' /\ (raced' => bootSlot' = Other(running'))
        BY <1>0, <3>1
      <3>. QED  BY <3>1, <3>2, <3>3, <3>4, <3>5
    <2>. QED  BY <2>1, <2>2
  <1>2. CASE Confirm
    BY <1>0, <1>2 DEF Confirm, history
  <1>3. CASE \E o \in {"ok", "erased", "failed"} : NvsInit(o)
    BY <1>0, <1>3 DEF NvsInit
  <1>4. CASE Trusted
    BY <1>0, <1>4 DEF Trusted, flash, history
  <1>5. CASE Count
    BY <1>0, <1>5 DEF Count
  <1>6. ASSUME Rollback, pc \in {"convicted", "loop"} PROVE SlotInv'
    BY <1>0, <1>6 DEF Rollback, Stay
  <1>7. CASE SetBoot
    BY <1>0, <1>7 DEF SetBoot, Stay
  <1>8. CASE Leave \/ PowerCut \/ Panic \/ AppRestart \/ OtaRestart
    <2>1. \E r \in Reason : Restart(r)
      BY <1>8 DEF Leave, PowerCut, Panic, AppRestart, OtaRestart, Reason,
                  PowerReset
    <2>. QED  BY <1>0, <2>1 DEF Restart, flash, history
  <1>9. CASE HealthStart \/ Expire
    BY <1>0, <1>9 DEF HealthStart, Expire, flash, history
  <1>10. CASE Verify \/ VerifyClear
    BY <1>0, <1>10 DEF Verify, VerifyClear, history
  <1>11. CASE OtaBegin
    BY <1>0, <1>11 DEF OtaBegin
  <1>12. CASE OtaHeader \/ OtaFail
    BY <1>0, <1>12 DEF OtaHeader, OtaFail, flash, history
  <1>13. CASE \E i \in Image : OtaWritten(i)
    BY <1>0, <1>13 DEF OtaWritten
  <1>14. CASE OtaSelect
    BY <1>0, <1>14 DEF OtaSelect
  <1>15. CASE UNCHANGED vars
    BY <1>15 DEF vars
  <1>. QED
    BY <1>1, <1>2, <1>3, <1>4, <1>5, <1>6, <1>7, <1>8, <1>9, <1>10, <1>11,
       <1>12, <1>13, <1>14, <1>15
       DEF Next, Boot, Health, Ota, EarlyRollback, TimeoutRollback

\* The slot the bootloader is told to boot is whole, whatever was cut short.
THEOREM SelectedSlotWhole == Spec => []BootSlotComplete
  <1>1. Init => SlotInv /\ TypeOK
    BY SlotInit, TypeInit
  <1>2. SlotInv /\ TypeOK /\ [Next]_vars => (SlotInv /\ TypeOK)'
    BY SlotNext, TypeNext
  <1>3. SlotInv => BootSlotComplete
    BY DEF SlotInv
  <1>. QED  BY <1>1, <1>2, <1>3, PTL DEF Spec

\* An image the bootloader may still abort leaves a whole one behind it.
THEOREM AbortSafe == Spec => []AbortFindsImage
  <1>1. Init => SlotInv /\ TypeOK
    BY SlotInit, TypeInit
  <1>2. SlotInv /\ TypeOK /\ [Next]_vars => (SlotInv /\ TypeOK)'
    BY SlotNext, TypeNext
  <1>3. SlotInv => AbortFindsImage
    BY DEF SlotInv
  <1>. QED  BY <1>1, <1>2, <1>3, PTL DEF Spec

-----------------------------------------------------------------------------
(* The counter.  The stored counter is the number of resets that may count *)
(* towards a conviction, unless it ran round: power cuts, downloads and    *)
(* updates in between change neither.                                      *)

CountInv ==
    /\ strikes = BootsMod \/ nvs.boots = strikes
    /\ PowerLossNeverConvicts
    /\ CrashLoopConvicted
    /\ pc \in Early \cup {"convicted"} => ~up
    /\ pc \in Early => ~pending
    /\ pc = "revert" /\ nvsUp => strikes = 0
    /\ pc = "clear" => pending

LEMMA CountInit == Init => CountInv
  BY BootsAssumption
     DEF Init, CountInv, PowerLossNeverConvicts, CrashLoopConvicted, Early

\* Counting one more reset, or none, keeps the invariant.
LEMMA CountStep ==
    ASSUME TypeOK, CountInv, Count
    PROVE  CountInv'
  <1>. DEFINE boots == IF Counts(reason) THEN NextBoots(Read.boots)
                       ELSE Read.boots
  <1>1. /\ pc' = IF boots > MaxBoots THEN "convicted" ELSE "start"
        /\ nvs' = IF nvsUp THEN [nvs EXCEPT !.boots = boots] ELSE nvs
        /\ strikes' = IF nvsUp /\ reason \notin PowerReset
                      THEN CapStrikes(strikes + 1) ELSE strikes
        /\ pending' = TRUE /\ nvsUp' = nvsUp /\ (up' <=> boots <= MaxBoots)
    <2>1. TooMany(boots) <=> boots > MaxBoots
      BY DEF TooMany
    <2>2. StoreBoots(boots) /\ up' = ~TooMany(boots)
          /\ pc' = IF TooMany(boots) THEN "convicted" ELSE "start"
      BY Zenon DEF Count
    <2>3. boots \in Nat
      <3>1. Read.boots \in 0 .. BootsMod - 1
        BY BootsAssumption, SMT DEF TypeOK, Read, NoNvs
      <3>. QED  BY <3>1, NextBootsBounds, BootsAssumption
    <2>4. /\ strikes' = IF nvsUp /\ reason \notin PowerReset
                        THEN CapStrikes(strikes + 1) ELSE strikes
          /\ pending' = TRUE /\ nvsUp' = nvsUp
      BY Zenon DEF Count
    <2>. HIDE DEF boots
    <2>5. boots > MaxBoots <=> ~(boots <= MaxBoots)
      BY <2>3, BootsAssumption
    <2>6. up' <=> boots <= MaxBoots
      BY <2>1, <2>2, <2>5, Zenon
    <2>. QED  BY <2>1, <2>2, <2>4, <2>6 DEF StoreBoots
  <1>2. Read.boots \in 0 .. BootsMod - 1
    BY BootsAssumption, SMT DEF TypeOK, Read, NoNvs
  <1>3. /\ NextBoots(Read.boots) \in 0 .. BootsMod - 1
        /\ \/ NextBoots(Read.boots) = Read.boots + 1
           \/ Read.boots + 1 = BootsMod /\ NextBoots(Read.boots) = 0
    BY <1>2, NextBootsBounds
  <1>4. boots \in 0 .. BootsMod - 1
    BY <1>2, <1>3
  <1>5. nvs \in [verified : Image \cup {None}, boots : 0 .. BootsMod - 1]
        /\ strikes \in 0 .. BootsMod
    BY DEF TypeOK
  <1>6. CASE nvsUp
    <2>1. Read.boots = nvs.boots /\ nvs'.boots = boots
      BY <1>1, <1>5, <1>6 DEF Read
    <2>2. strikes' = BootsMod \/ boots = strikes'
      <3>1. CASE reason \in PowerReset
        BY <1>1, <1>6, <2>1, <3>1 DEF Counts, CountInv
      <3>2. CASE reason \notin PowerReset
        BY <1>1, <1>3, <1>5, <1>6, <2>1, <3>2, BootsAssumption
           DEF Counts, CountInv, CapStrikes
      <3>. QED  BY <3>1, <3>2
    <2>. HIDE DEF boots
    <2>. QED
      BY <1>1, <1>4, <1>6, <2>1, <2>2, BootsAssumption
         DEF CountInv, PowerLossNeverConvicts, CrashLoopConvicted, Early
  <1>7. CASE ~nvsUp
    <2>1. Read.boots = 0
      BY <1>7 DEF Read, NoNvs
    <2>2. boots <= MaxBoots
      BY <1>3, <2>1, BootsAssumption
    <2>. HIDE DEF boots
    <2>. QED
      BY <1>1, <1>4, <1>7, <2>2, BootsAssumption
         DEF CountInv, PowerLossNeverConvicts, CrashLoopConvicted, Early
  <1>. QED  BY <1>6, <1>7 DEF TypeOK

LEMMA CountNext == TypeOK /\ CountInv /\ [Next]_vars => CountInv'
  <1>. SUFFICES ASSUME TypeOK, CountInv, [Next]_vars PROVE CountInv'
    OBVIOUS
  <1>. USE BootsAssumption DEF CountInv, PowerLossNeverConvicts,
                               CrashLoopConvicted, Early
  <1>0. nvs \in [verified : Image \cup {None}, boots : 0 .. BootsMod - 1]
        /\ strikes \in 0 .. BootsMod /\ nvsUp \in BOOLEAN
    BY DEF TypeOK
  <1>1. CASE Bootloader \/ Confirm
    BY <1>1 DEF Bootloader, Confirm, history
  <1>2. CASE \E o \in {"ok", "erased", "failed"} : NvsInit(o)
    BY <1>0, <1>2 DEF NvsInit, NoNvs
  <1>3. CASE Trusted
    BY <1>3 DEF Trusted, flash, history
  <1>4. CASE Count
    BY <1>4, CountStep
  <1>5. ASSUME Rollback, pc \in {"convicted", "loop"} PROVE CountInv'
    BY <1>0, <1>5 DEF Rollback, Stay, StoreBoots
  <1>6. CASE SetBoot
    BY <1>6 DEF SetBoot, Stay
  <1>7. CASE Leave \/ PowerCut \/ Panic \/ AppRestart \/ OtaRestart
    <2>1. \E r \in Reason : Restart(r)
      BY <1>7 DEF Leave, PowerCut, Panic, AppRestart, OtaRestart, Reason,
                  PowerReset
    <2>. QED  BY <2>1 DEF Restart, flash, history
  <1>8. CASE HealthStart \/ Expire
    BY <1>8 DEF HealthStart, Expire, flash, history
  <1>9. CASE Verify
    BY <1>0, <1>9 DEF Verify, StoreVerified, history
  <1>10. CASE VerifyClear
    BY <1>0, <1>10 DEF VerifyClear, StoreBoots
  <1>11. CASE OtaBegin \/ OtaHeader \/ OtaFail \/ OtaSelect
    BY <1>11 DEF OtaBegin, OtaHeader, OtaFail, OtaSelect, flash, history
  <1>12. CASE \E i \in Image : OtaWritten(i)
    BY <1>12 DEF OtaWritten
  <1>13. CASE UNCHANGED vars
    BY <1>13 DEF vars
  <1>. QED
    BY <1>1, <1>2, <1>3, <1>4, <1>5, <1>6, <1>7, <1>8, <1>9, <1>10, <1>11,
       <1>12, <1>13
       DEF Next, Boot, Health, Ota, EarlyRollback, TimeoutRollback

\* However many power cuts there are, in whatever phase, none brings about a
\* conviction.
THEOREM PowerLossInnocent == Spec => []PowerLossNeverConvicts
  <1>1. Init => CountInv /\ TypeOK
    BY CountInit, TypeInit
  <1>2. CountInv /\ TypeOK /\ [Next]_vars => (CountInv /\ TypeOK)'
    BY CountNext, TypeNext
  <1>3. CountInv => PowerLossNeverConvicts
    BY DEF CountInv
  <1>. QED  BY <1>1, <1>2, <1>3, PTL DEF Spec

\* An image that keeps crashing does not get past early boot for ever.
THEOREM CrashLoopEnds == Spec => []CrashLoopConvicted
  <1>1. Init => CountInv /\ TypeOK
    BY CountInit, TypeInit
  <1>2. CountInv /\ TypeOK /\ [Next]_vars => (CountInv /\ TypeOK)'
    BY CountNext, TypeNext
  <1>3. CountInv => CrashLoopConvicted
    BY DEF CountInv
  <1>. QED  BY <1>1, <1>2, <1>3, PTL DEF Spec

-----------------------------------------------------------------------------
(* A rollback is only ever from firmware that is not verified: what is     *)
(* pending on a boot that could read NVS is not the verified image, and    *)
(* becomes so only in the step that ends the pending state.                *)

TrustInv ==
    /\ VerifiedNotReverted
    /\ pc \in Early => ~pending
    /\ pending /\ nvsUp /\ pc # "clear" => nvs.verified # image[running]

LEMMA TrustInit == Init => TrustInv
  BY DEF Init, TrustInv, VerifiedNotReverted

LEMMA TrustNext == TypeOK /\ TrustInv /\ [Next]_vars => TrustInv'
  <1>. SUFFICES ASSUME TypeOK, TrustInv, [Next]_vars PROVE TrustInv'
    OBVIOUS
  <1>. USE DEF TrustInv, VerifiedNotReverted, Early
  <1>0. /\ running \in Slot /\ Other(running) # running
        /\ image \in [Slot -> Image \cup {None, Partial}]
        /\ nvs \in [verified : Image \cup {None}, boots : 0 .. BootsMod - 1]
    BY OtherSlot DEF TypeOK
  <1>1. CASE Bootloader \/ Confirm
    BY <1>1 DEF Bootloader, Confirm
  <1>2. CASE \E o \in {"ok", "erased", "failed"} : NvsInit(o)
    BY <1>2 DEF NvsInit
  <1>3. CASE Trusted
    BY <1>3 DEF Trusted, flash
  <1>4. CASE Count
    <2>1. nvsUp' = nvsUp /\ image' = image /\ running' = running
          /\ nvs'.verified = nvs.verified /\ pc' \in {"convicted", "start"}
      BY <1>0, <1>4 DEF Count, StoreBoots
    <2>2. nvsUp => nvs.verified # image[running]
      BY <1>4 DEF Count, Read
    <2>. QED  BY <2>1, <2>2
  <1>5. CASE EarlyRollback
    BY <1>0, <1>5 DEF EarlyRollback, Rollback, Stay, StoreBoots
  <1>6. CASE TimeoutRollback
    BY <1>0, <1>6 DEF TimeoutRollback, Rollback, Stay, StoreBoots
  <1>7. CASE SetBoot
    BY <1>7 DEF SetBoot, Stay
  <1>8. CASE Leave \/ PowerCut \/ Panic \/ AppRestart \/ OtaRestart
    <2>1. \E r \in Reason : Restart(r)
      BY <1>8 DEF Leave, PowerCut, Panic, AppRestart, OtaRestart, Reason,
                  PowerReset
    <2>. QED  BY <2>1 DEF Restart
  <1>9. CASE HealthStart \/ Expire
    BY <1>9 DEF HealthStart, Expire, flash
  <1>10. CASE Verify
    BY <1>10 DEF Verify
  <1>11. CASE VerifyClear
    BY <1>11 DEF VerifyClear
  <1>12. CASE OtaBegin \/ OtaHeader \/ OtaFail \/ OtaSelect
    BY <1>0, <1>12 DEF OtaBegin, OtaHeader, OtaFail, OtaSelect, flash
  <1>13. CASE \E i \in Image : OtaWritten(i)
    BY <1>0, <1>13 DEF OtaWritten
  <1>14. CASE UNCHANGED vars
    BY <1>14 DEF vars
  <1>. QED
    BY <1>1, <1>2, <1>3, <1>4, <1>5, <1>6, <1>7, <1>8, <1>9, <1>10, <1>11,
       <1>12, <1>13, <1>14
       DEF Next, Boot, Health, Ota

\* A verified image is not rolled back.
THEOREM VerifiedStays == Spec => []VerifiedNotReverted
  <1>1. Init => TrustInv /\ TypeOK
    BY TrustInit, TypeInit
  <1>2. TrustInv /\ TypeOK /\ [Next]_vars => (TrustInv /\ TypeOK)'
    BY TrustNext, TypeNext
  <1>3. TrustInv => VerifiedNotReverted
    BY DEF TrustInv
  <1>. QED  BY <1>1, <1>2, <1>3, PTL DEF Spec

-----------------------------------------------------------------------------
(* An image that never reports healthy.  No such image is ever stored as   *)
(* verified, so that early boot never trusts one, and its trial ends only  *)
(* in a rollback that found nothing to boot in the other slot.             *)

TrialInv ==
    /\ BadOnTrial
    /\ nvs.verified \in Good \cup {None}
    /\ pc = "clear" => image[running] \in Good

LEMMA TrialInit == Init => TrialInv
  BY DEF Init, TrialInv, BadOnTrial

\* Early boot trusts the image that NVS names, or puts it on trial.
LEMMA TrialBoot ==
    ASSUME TypeOK, SlotInv, TrialInv, Boot
    PROVE  TrialInv'
  <1>. USE ImageAssumption DEF TrialInv, BadOnTrial, SlotInv, Early, Complete
  <1>0. /\ running \in Slot /\ Other(running) \in Slot
        /\ nvs \in [verified : Image \cup {None}, boots : 0 .. BootsMod - 1]
    BY OtherSlot DEF TypeOK
  <1>1. CASE Bootloader \/ Confirm
    BY <1>1 DEF Bootloader, Confirm
  <1>2. CASE \E o \in {"ok", "erased", "failed"} : NvsInit(o)
    BY <1>2 DEF NvsInit, NoNvs
  <1>3. CASE Trusted
    <2>1. image[running] \in Good
      BY <1>3 DEF Trusted, Read, NoNvs
    <2>. QED  BY <1>3, <2>1 DEF Trusted, flash
  <1>4. CASE Count
    <2>1. /\ pending' = TRUE /\ nvs'.verified = nvs.verified
          /\ pc' \in {"convicted", "start"}
      BY <1>0, <1>4 DEF Count, StoreBoots
    <2>. QED  BY <2>1
  <1>5. CASE EarlyRollback
    BY <1>0, <1>5 DEF EarlyRollback, Rollback, Stay, StoreBoots, HasHeader
  <1>. QED  BY <1>1, <1>2, <1>3, <1>4, <1>5 DEF Boot

LEMMA TrialNext == TypeOK /\ SlotInv /\ TrialInv /\ [Next]_vars => TrialInv'
  <1>. SUFFICES ASSUME TypeOK, SlotInv, TrialInv, [Next]_vars PROVE TrialInv'
    OBVIOUS
  <1>. USE ImageAssumption DEF TrialInv, BadOnTrial, SlotInv, Early, Complete
  <1>0. /\ running \in Slot /\ Other(running) \in Slot /\ Other(running) # running
        /\ image \in [Slot -> Image \cup {None, Partial}]
        /\ nvs \in [verified : Image \cup {None}, boots : 0 .. BootsMod - 1]
    BY OtherSlot DEF TypeOK
  <1>1. CASE Boot
    BY <1>1, TrialBoot
  <1>2. CASE TimeoutRollback
    BY <1>0, <1>2 DEF TimeoutRollback, Rollback, Stay, StoreBoots, HasHeader
  <1>3. CASE SetBoot
    BY <1>0, <1>3 DEF SetBoot, Stay
  <1>4. CASE Leave \/ PowerCut \/ Panic \/ AppRestart \/ OtaRestart
    <2>1. \E r \in Reason : Restart(r)
      BY <1>4 DEF Leave, PowerCut, Panic, AppRestart, OtaRestart, Reason,
                  PowerReset
    <2>. QED  BY <2>1 DEF Restart, flash
  <1>5. CASE HealthStart \/ Expire
    BY <1>5 DEF HealthStart, Expire, flash
  <1>6. CASE Verify
    BY <1>0, <1>6 DEF Verify, StoreVerified
  <1>7. CASE VerifyClear
    BY <1>0, <1>7 DEF VerifyClear, StoreBoots
  <1>8. CASE OtaBegin
    BY <1>0, <1>8 DEF OtaBegin
  <1>9. CASE OtaHeader \/ OtaFail \/ OtaSelect
    BY <1>0, <1>9 DEF OtaHeader, OtaFail, OtaSelect, flash
  <1>10. CASE \E i \in Image : OtaWritten(i)
    BY <1>0, <1>10 DEF OtaWritten
  <1>11. CASE UNCHANGED vars
    BY <1>11 DEF vars
  <1>. QED
    BY <1>1, <1>2, <1>3, <1>4, <1>5, <1>6, <1>7, <1>8, <1>9, <1>10, <1>11
       DEF Next, Health, Ota

\* An application that runs and never reports healthy is on trial, with any
\* images, whatever NVS held or lost; or there was nothing to go back to.
THEOREM BadStaysOnTrial == Spec => []BadOnTrial
  <1>1. Init => SlotInv /\ TrialInv /\ TypeOK
    BY SlotInit, TrialInit, TypeInit
  <1>2. SlotInv /\ TrialInv /\ TypeOK /\ [Next]_vars
            => (SlotInv /\ TrialInv /\ TypeOK)'
    BY SlotNext, TrialNext, TypeNext
  <1>3. TrialInv => BadOnTrial
    BY DEF TrialInv
  <1>. QED  BY <1>1, <1>2, <1>3, PTL DEF Spec
=============================================================================
