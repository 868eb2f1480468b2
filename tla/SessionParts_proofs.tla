------------------------ MODULE SessionParts_proofs ------------------------
(***************************************************************************)
(* That a display preview is safe to try, and that the client tells the    *)
(* user the truth and writes only over what it showed, for every number of *)
(* generations, failures, crashes, operations and changes of the world     *)
(* around the service.                                                     *)
(***************************************************************************)
EXTENDS SessionParts, WellFoundedInduction, TLAPS

-----------------------------------------------------------------------------
(* The invariant *)

Preparing == {"activating", "proving", "cleaning", "aborting"}
Offering ==
    {"starting", "probing", "arming", "confirming", "asking", "deciding", "committing"}
Ending == {"reverting", "revoking"}

DisplayTypes ==
    /\ confirmation \in {None} \cup
           [token: 1..MaxGeneration, terminating: BOOLEAN, rolledBack: BOOLEAN]
    /\ state \in {"idle", "awaiting-confirmation", "reverting", "committing",
                  "failed"}
    /\ terminal \in {None} \cup [token: 1..MaxGeneration, action: Display!Action]
    /\ timer \in BOOLEAN /\ available \in BOOLEAN
    /\ step \in {"idle", "down", "finalizing"} \cup Preparing \cup Offering \cup Ending
    /\ ending \in {"reverted", "expired"}
    /\ authority \in [applied: 0..MaxGeneration, pending: 0..MaxGeneration,
                      phase: Display!Phase]
    /\ authorityFailed \in BOOLEAN
    /\ live \in 0..MaxGeneration /\ generations \in 0..MaxGeneration
    /\ deadline \in {"none", "running", "passed"}
    /\ ownerPresent \in BOOLEAN /\ ownerLost \in BOOLEAN
    /\ topologyExact \in BOOLEAN /\ targetExact \in BOOLEAN
    /\ watch \in BOOLEAN /\ (watch <=> confirmation # None)
    /\ deadline = "none" <=> confirmation = None

\* A generation is prepared once, and the journal is of the last one.
Journal ==
    /\ authority.applied <= generations /\ live <= generations
    /\ IF authority.phase = "idle" THEN authority.pending = 0
       ELSE authority.pending = generations /\ authority.applied < generations

\* What a preview is while it has not ended.
Previewed ==
    /\ state = "awaiting-confirmation" <=>
           confirmation # None /\ ~confirmation.terminating
    /\ confirmation # None =>
           /\ confirmation.token = generations
           /\ confirmation.token \notin decided
           /\ authority.applied < generations
           /\ authority.phase \in {"idle", "prepared"}
           /\ confirmation.rolledBack => live = authority.applied
           /\ ~confirmation.terminating =>
                  /\ confirmation.token \notin terminated
                  /\ authority.phase = "prepared"
                  /\ ~authorityFailed
                  /\ live = confirmation.token

\* What holds where a handler stands.
Standing ==
    /\ step \in Offering => confirmation # None /\ ~confirmation.terminating
    /\ step \in Ending => confirmation # None /\ confirmation.terminating
    /\ step = "revoking" => confirmation.rolledBack
    /\ step \in Preparing =>
           /\ confirmation = None /\ state = "idle" /\ ~authorityFailed
           /\ authority.phase = "prepared"
           /\ authority.pending \notin terminated \cup decided
    /\ step \in {"activating", "aborting"} => live = authority.applied
    /\ step = "proving" => live = authority.pending
    /\ step = "finalizing" =>
           /\ confirmation = None /\ ~authorityFailed
           /\ authority.phase = "idle" /\ live = authority.applied
           /\ authority.applied > 0
    /\ step = "down" =>
           confirmation = None /\ state = "idle" /\ ~available /\ ~authorityFailed
    /\ state = "awaiting-confirmation" /\ step \in {"idle", "arming"} =>
           ownerPresent \/ ownerLost
    /\ state = "awaiting-confirmation" /\ step = "idle" => timer
    /\ step = "idle" /\ available /\ confirmation = None =>
           /\ authority.phase = "idle" /\ live = authority.applied
           /\ ~authorityFailed /\ state = "idle"

\* What was is of generations that were prepared, and stays true.
History ==
    /\ terminated \subseteq 1..generations
    /\ decided \subseteq 1..generations
    /\ terminated \cap decided = {}
    /\ outcomes \subseteq (1..generations) \X Display!Action
    /\ \A outcome \in outcomes :
           IF outcome[2] = "confirmed" THEN authority.applied >= outcome[1]
           ELSE outcome[1] \notin {authority.applied, authority.pending, live}

DisplayInv ==
    /\ DisplayTypes
    /\ Journal
    /\ Previewed
    /\ Standing
    /\ History

\* A termination that starts, by whatever handler, is never taken back.
LEMMA BeginRevertKeeps ==
    ASSUME DisplayInv, confirmation # None,
           NEW action \in {"reverted", "expired"}, Display!BeginRevert(action),
           timer' \in BOOLEAN, ownerLost' \in BOOLEAN, authorityFailed' \in BOOLEAN,
           UNCHANGED <<authority, live, generations, deadline, ownerPresent,
                       topologyExact, targetExact, decided, outcomes>>
    PROVE  DisplayInv'
  <1>1. /\ confirmation \in [token: 1..MaxGeneration, terminating: BOOLEAN,
                             rolledBack: BOOLEAN]
        /\ confirmation.token = generations
    BY DEF DisplayInv, DisplayTypes, Previewed
  <1>2. /\ confirmation' \in [token: 1..MaxGeneration, terminating: BOOLEAN,
                              rolledBack: BOOLEAN]
        /\ confirmation'.token = confirmation.token /\ confirmation'.terminating
        /\ confirmation'.rolledBack = confirmation.rolledBack
    BY <1>1 DEF Display!BeginRevert
  <1>3. confirmation' # None
    BY <1>2, DisplayAssumption
  <1>4. /\ state' = "reverting" /\ ending' = action /\ step' = "reverting"
        /\ terminated' = terminated \cup {generations}
        /\ terminal' = terminal /\ watch' = watch /\ available' = available
    BY <1>1 DEF Display!BeginRevert
  <1>5. DisplayTypes'
    BY <1>2, <1>3, <1>4 DEF DisplayInv, DisplayTypes, Ending
  <1>6. Journal'
    BY DEF DisplayInv, Journal
  <1>7. Previewed'
    BY <1>1, <1>2, <1>3, <1>4 DEF DisplayInv, Previewed
  <1>8. Standing'
    BY <1>2, <1>3, <1>4 DEF Standing, Preparing, Offering, Ending
  <1>9. History'
    <2>1. generations \in 1..generations /\ generations \notin decided
      BY <1>1 DEF DisplayInv, DisplayTypes, Previewed
    <2> QED
      BY <1>4, <2>1 DEF DisplayInv, History
  <1> QED
    BY <1>5, <1>6, <1>7, <1>8, <1>9 DEF DisplayInv

\* So with the calls and probes that end in a revert of their own.
LEMMA RevertNowKeeps ==
    ASSUME DisplayInv, confirmation # None,
           NEW action \in {"reverted", "expired"}, Display!RevertNow(action)
    PROVE  DisplayInv'
  <1>1. /\ Display!BeginRevert(action) /\ timer' = timer
        /\ ownerLost' = ownerLost /\ authorityFailed' = authorityFailed
        /\ UNCHANGED <<authority, live, generations, deadline, ownerPresent,
                       topologyExact, targetExact, decided, outcomes>>
    BY DEF Display!RevertNow, Display!store, Display!world
  <1>2. timer \in BOOLEAN /\ ownerLost \in BOOLEAN /\ authorityFailed \in BOOLEAN
    BY DEF DisplayInv, DisplayTypes
  <1> QED
    BY <1>1, <1>2, BeginRevertKeeps

\* A handler goes on with a capability that is on offer.
LEMMA OfferKeeps ==
    ASSUME DisplayInv, confirmation # None, ~confirmation.terminating,
           step' \in Offering \cup {"idle"},
           step' \in {"arming", "idle"} => ownerPresent \/ ownerLost,
           step' = "idle" => timer',
           timer' \in BOOLEAN, available' \in BOOLEAN,
           UNCHANGED <<confirmation, state, terminal, watch, ending, authority,
                       authorityFailed, live, generations, deadline, ownerPresent,
                       ownerLost, topologyExact, targetExact, terminated, decided,
                       outcomes>>
    PROVE  DisplayInv'
  <1>1. DisplayTypes'
    BY DEF DisplayInv, DisplayTypes, Offering
  <1>2. Journal' /\ Previewed' /\ History'
    BY DEF DisplayInv, Journal, Previewed, History
  <1>3. Standing'
    BY DEF DisplayInv, Standing, Preparing, Offering, Ending
  <1> QED
    BY <1>1, <1>2, <1>3 DEF DisplayInv

\* A capability whose deadline passed while it was prepared is reverted.
LEMMA StartPreviewKeeps == ASSUME DisplayInv, Display!StartPreview PROVE DisplayInv'
  <1>1. step = "starting" /\ confirmation # None /\ ~confirmation.terminating
    BY DEF Display!StartPreview, DisplayInv, Standing, Offering
  <1>2. CASE deadline = "passed"
    BY <1>1, <1>2, RevertNowKeeps DEF Display!StartPreview
  <1>3. CASE deadline # "passed"
    <2>1. timer \in BOOLEAN /\ available \in BOOLEAN
      BY DEF DisplayInv, DisplayTypes
    <2> QED
      BY <1>1, <1>3, <2>1, OfferKeeps
         DEF Display!StartPreview, Display!Continue, Display!service, Display!store,
             Display!world, Display!history, Offering
  <1> QED
    BY <1>2, <1>3

\* The probe of the owner: it answers, or the preview is reverted.
LEMMA ProbeOwnerKeeps == ASSUME DisplayInv, Display!ProbeOwner PROVE DisplayInv'
  <1>1. step = "probing" /\ confirmation # None /\ ~confirmation.terminating
    BY DEF Display!ProbeOwner, DisplayInv, Standing, Offering
  <1>2. CASE Display!RevertNow("reverted")
    BY <1>1, <1>2, RevertNowKeeps
  <1>3. CASE ~Display!RevertNow("reverted")
    <2>1. timer \in BOOLEAN /\ available \in BOOLEAN
      BY DEF DisplayInv, DisplayTypes
    <2> QED
      BY <1>1, <1>3, <2>1, OfferKeeps
         DEF Display!ProbeOwner, Display!Continue, Display!service, Display!store,
             Display!world, Display!history, Offering
  <1> QED
    BY <1>2, <1>3

\* The preview is on offer only with its timer running.
LEMMA ArmTimerKeeps == ASSUME DisplayInv, Display!ArmTimer PROVE DisplayInv'
  <1>1. /\ step = "arming" /\ confirmation # None /\ ~confirmation.terminating
        /\ ownerPresent \/ ownerLost
    BY DEF Display!ArmTimer, DisplayInv, Standing, Previewed, Offering
  <1>2. CASE deadline = "passed"
    BY <1>1, <1>2, RevertNowKeeps DEF Display!ArmTimer
  <1>3. CASE deadline # "passed"
    BY <1>1, <1>3, OfferKeeps
       DEF Display!ArmTimer, Display!store, Display!world, Display!history
  <1> QED
    BY <1>2, <1>3

\* The proof of the outputs: exact, or the preview is reverted.
LEMMA ProveConfirmedKeeps == ASSUME DisplayInv, Display!ProveConfirmed PROVE DisplayInv'
  <1>1. step = "confirming" /\ confirmation # None /\ ~confirmation.terminating
    BY DEF Display!ProveConfirmed, DisplayInv, Standing, Offering
  <1>2. CASE Display!RevertNow("reverted") \/ Display!RevertNow("expired")
    BY <1>1, <1>2, RevertNowKeeps
  <1>3. CASE ~Display!RevertNow("reverted") /\ ~Display!RevertNow("expired")
    <2>1. timer \in BOOLEAN /\ available \in BOOLEAN
      BY DEF DisplayInv, DisplayTypes
    <2> QED
      BY <1>1, <1>3, <2>1, OfferKeeps
         DEF Display!ProveConfirmed, Display!Continue, Display!service, Display!store,
             Display!world, Display!history, Offering
  <1> QED
    BY <1>2, <1>3

\* The owner is asked for again after the proof.
LEMMA AskOwnerKeeps == ASSUME DisplayInv, Display!AskOwner PROVE DisplayInv'
  <1>1. step = "asking" /\ confirmation # None /\ ~confirmation.terminating
    BY DEF Display!AskOwner, DisplayInv, Standing, Offering
  <1>2. CASE Display!RevertNow("reverted")
    BY <1>1, <1>2, RevertNowKeeps
  <1>3. CASE ~Display!RevertNow("reverted")
    <2>1. timer \in BOOLEAN /\ available \in BOOLEAN
      BY DEF DisplayInv, DisplayTypes
    <2> QED
      BY <1>1, <1>3, <2>1, OfferKeeps
         DEF Display!AskOwner, Display!Continue, Display!service, Display!store,
             Display!world, Display!history, Offering
  <1> QED
    BY <1>2, <1>3

\* The deadline is looked at for the last time before the decision.
LEMMA DecideDeadlineKeeps == ASSUME DisplayInv, Display!DecideDeadline PROVE DisplayInv'
  <1>1. step = "deciding" /\ confirmation # None /\ ~confirmation.terminating
    BY DEF Display!DecideDeadline, DisplayInv, Standing, Offering
  <1>2. CASE deadline = "passed"
    BY <1>1, <1>2, RevertNowKeeps DEF Display!DecideDeadline
  <1>3. CASE deadline # "passed"
    <2>1. timer \in BOOLEAN /\ available \in BOOLEAN
      BY DEF DisplayInv, DisplayTypes
    <2> QED
      BY <1>1, <1>3, <2>1, OfferKeeps
         DEF Display!DecideDeadline, Display!Continue, Display!service, Display!store,
             Display!world, Display!history, Offering
  <1> QED
    BY <1>2, <1>3

\* A call that keeps the preview begins only with a capability on offer.
LEMMA ConfirmKeeps == ASSUME DisplayInv, Display!Confirm PROVE DisplayInv'
  <1>1. confirmation # None /\ ~confirmation.terminating
    BY DEF Display!Confirm
  <1>2. CASE deadline = "passed"
    BY <1>1, <1>2, RevertNowKeeps DEF Display!Confirm
  <1>3. CASE deadline # "passed"
    <2>1. timer \in BOOLEAN /\ available \in BOOLEAN
      BY DEF DisplayInv, DisplayTypes
    <2> QED
      BY <1>1, <1>3, <2>1, OfferKeeps
         DEF Display!Confirm, Display!Continue, Display!service, Display!store,
             Display!world, Display!history, Offering
  <1> QED
    BY <1>2, <1>3

\* The handlers that end a preview at rest.
LEMMA EndingKeeps ==
    ASSUME DisplayInv, Display!Revert \/ Display!Timeout \/ Display!OwnerLoss \/ Display!Poll
    PROVE  DisplayInv'
  <1>1. CASE Display!Revert \/ Display!Poll
    BY <1>1, RevertNowKeeps DEF Display!Revert, Display!Poll
  <1>2. CASE Display!Timeout \/ Display!OwnerLoss
    <2>1. confirmation # None
      BY <1>2 DEF Display!Timeout, Display!OwnerLoss, DisplayInv, DisplayTypes
    <2>2. timer \in BOOLEAN /\ ownerLost \in BOOLEAN /\ authorityFailed \in BOOLEAN
      BY DEF DisplayInv, DisplayTypes
    <2>3. PICK action \in {"reverted", "expired"} : Display!BeginRevert(action)
      BY <1>2 DEF Display!Timeout, Display!OwnerLoss
    <2>4. /\ timer' \in BOOLEAN /\ ownerLost' \in BOOLEAN
          /\ authorityFailed' = authorityFailed
          /\ UNCHANGED <<authority, live, generations, deadline, ownerPresent,
                         topologyExact, targetExact, decided, outcomes>>
      BY <1>2, <2>2 DEF Display!Timeout, Display!OwnerLoss, Display!store, Display!world
    <2> QED
      BY <2>1, <2>2, <2>3, <2>4, BeginRevertKeeps
  <1> QED
    BY <1>1, <1>2

Authority ==
    [applied: 0..MaxGeneration, pending: 0..MaxGeneration, phase: Display!Phase]

\* No journal, with one side or the other applied.
LEMMA WithoutJournal ==
    ASSUME NEW g \in 0..MaxGeneration
    PROVE  /\ Display!NoJournal(g) \in Authority /\ Display!NoJournal(g).applied = g
           /\ Display!NoJournal(g).pending = 0 /\ Display!NoJournal(g).phase = "idle"
  BY DisplayAssumption DEF Display!NoJournal, Authority, Display!Phase

\* A new preview: the journal of a fresh generation, or a failure that rests.
LEMMA PreviewKeeps == ASSUME DisplayInv, Display!Preview PROVE DisplayInv'
  <1> DEFINE next == generations + 1
             prepared == [authority EXCEPT !.pending = next, !.phase = "prepared"]
  <1>1. /\ step = "idle" /\ confirmation = None /\ available
        /\ authority = Display!NoJournal(live) /\ ~authorityFailed
        /\ generations < MaxGeneration /\ generations' = next
        /\ ownerPresent' = TRUE /\ topologyExact' = TRUE
        /\ UNCHANGED <<live, deadline, ownerLost, targetExact, terminated, decided,
                       outcomes, confirmation, terminal, timer, watch, ending>>
    BY DEF Display!Preview, Display!history, Display!Continue, Display!Abandon,
           Display!service
  <1>2. /\ generations \in 0..MaxGeneration /\ next \in 1..MaxGeneration
        /\ live \in 0..MaxGeneration /\ live <= generations /\ authority \in Authority
        /\ state = "idle"
    BY <1>1, DisplayAssumption DEF DisplayInv, DisplayTypes, Standing, Journal, Authority
  <1>3. /\ authority.applied = live /\ authority.pending = 0 /\ authority.phase = "idle"
    BY <1>1, <1>2, WithoutJournal
  <1>4. /\ prepared \in Authority /\ prepared.applied = live
        /\ prepared.pending = next /\ prepared.phase = "prepared"
    <2>1. next \in 0..MaxGeneration /\ "prepared" \in Display!Phase
      BY <1>2 DEF Display!Phase
    <2>2. prepared = [authority EXCEPT !.pending = next, !.phase = "prepared"]
      OBVIOUS
    <2> HIDE DEF next, prepared
    <2> QED
      BY <1>2, <1>3, <2>1, <2>2 DEF Authority
  <1>5. \/ /\ authority' = prepared /\ step' = "activating" /\ state' = "idle"
           /\ available' = available /\ ~authorityFailed' /\ authorityFailed' = FALSE
        \/ /\ authority' \in {authority, prepared} /\ authorityFailed' = TRUE
           /\ step' = "idle" /\ state' = "failed" /\ available' = FALSE
    BY <1>1, <1>2 DEF Display!Preview, Display!Continue, Display!Abandon,
                      Display!AcceptUnreconciled, Display!service, DisplayInv, DisplayTypes
  <1> HIDE DEF next, prepared
  <1>6. DisplayTypes'
    BY <1>1, <1>2, <1>4, <1>5 DEF DisplayInv, DisplayTypes, Authority, Preparing
  <1>7. Journal'
    <2>1. generations \in Nat /\ live \in Nat
      BY <1>2, DisplayAssumption
    <2>2. live' = live /\ generations' = generations + 1
      BY <1>1 DEF next
    <2>3. authority' \in {authority, prepared}
      BY <1>2, <1>5
    <2>4. CASE authority' = authority
      BY <1>2, <1>3, <2>1, <2>2, <2>4 DEF Journal
    <2>5. CASE authority' = prepared
      BY <1>2, <1>4, <2>1, <2>2, <2>5 DEF Journal, next
    <2> QED
      BY <2>3, <2>4, <2>5
  <1>8. Previewed'
    BY <1>1, <1>5 DEF Previewed
  <1>9. Standing'
    <2>1. next \notin terminated \cup decided
      BY <1>2 DEF DisplayInv, History, next
    <2> QED
      BY <1>1, <1>3, <1>4, <1>5, <2>1 DEF Standing, Preparing, Offering, Ending
  <1>10. History'
    <2>1. 1..generations \subseteq 1..next /\ next \notin 1..generations
      BY <1>2 DEF next
    <2>2. authority'.applied = authority.applied /\ live' = live
      BY <1>1, <1>3, <1>4, <1>5
    <2>3. authority'.pending \in {0, next} /\ authority.pending = 0
      BY <1>3, <1>4, <1>5
    <2>4. 0 \notin 1..generations
      BY <1>2
    <2>5. ASSUME NEW outcome \in outcomes
          PROVE  IF outcome[2] = "confirmed" THEN authority'.applied >= outcome[1]
                 ELSE outcome[1] \notin {authority'.applied, authority'.pending, live'}
      <3>1. outcome[1] \in 1..generations
        BY DEF DisplayInv, History
      <3> QED
        BY <2>1, <2>2, <2>3, <2>4, <3>1 DEF DisplayInv, History
    <2> QED
      BY <1>1, <2>1, <2>5 DEF DisplayInv, History
  <1> QED
    BY <1>6, <1>7, <1>8, <1>9, <1>10 DEF DisplayInv

\* The candidate goes live, or what is live has to be cleaned up.
LEMMA ActivatePreviewKeeps == ASSUME DisplayInv, Display!ActivatePreview PROVE DisplayInv'
  <1> USE DisplayAssumption DEF Preparing, Offering, Ending, Display!Phase, Display!Action,
      Display!ActivatePreview, Display!Continue, Display!pending, Display!world,
      Display!history, Display!service
  <1>1. DisplayTypes'
    BY DEF DisplayInv, DisplayTypes, Previewed, Standing, Journal
  <1>2. Journal'
    BY DEF DisplayInv, DisplayTypes, Journal, Standing, Previewed
  <1>3. Previewed'
    BY DEF DisplayInv, DisplayTypes, Journal, Previewed, Standing, History
  <1>4. Standing'
    BY DEF DisplayInv, DisplayTypes, Journal, Previewed, Standing, History
  <1>5. History'
    BY DEF DisplayInv, DisplayTypes, Journal, Previewed, Standing, History
  <1> QED
    BY <1>1, <1>2, <1>3, <1>4, <1>5 DEF DisplayInv

\* The capability is installed over the proven candidate.
LEMMA ProvePreviewKeeps == ASSUME DisplayInv, Display!ProvePreview PROVE DisplayInv'
  <1>1. /\ step = "proving" /\ confirmation = None /\ state = "idle" /\ ~authorityFailed
        /\ authority.phase = "prepared" /\ live = authority.pending
        /\ authority.pending \notin terminated \cup decided
        /\ authority.pending = generations /\ authority.applied < generations
        /\ authority \in Authority
    BY DEF Display!ProvePreview, DisplayInv, DisplayTypes, Standing, Journal, Preparing,
           Authority
  <1>2. /\ generations \in 1..MaxGeneration /\ Display!pending = generations
    BY <1>1 DEF DisplayInv, DisplayTypes, Display!pending, Authority
  <1>3. UNCHANGED <<authority, authorityFailed, live, generations, ownerPresent,
                    topologyExact, targetExact, terminated, decided, outcomes>>
    BY DEF Display!ProvePreview, Display!store, Display!history
  <1>4. Journal' /\ History'
    BY <1>3 DEF DisplayInv, Journal, History
  <1>5. CASE /\ Display!Continue("cleaning")
             /\ UNCHANGED <<deadline, ownerLost>>
    <2>1. DisplayTypes'
      BY <1>3, <1>5 DEF DisplayInv, DisplayTypes, Display!Continue, Display!service,
                        Preparing
    <2>2. Previewed' /\ Standing'
      BY <1>1, <1>3, <1>5 DEF DisplayInv, Previewed, Standing, Display!Continue,
                              Display!service, Preparing, Offering, Ending
    <2> QED
      BY <1>4, <2>1, <2>2 DEF DisplayInv
  <1>6. CASE /\ confirmation' = Display!Installed(generations)
             /\ state' = "awaiting-confirmation" /\ terminal' = None
             /\ watch' = TRUE /\ ownerLost' = FALSE /\ deadline' = "running"
             /\ step' = "starting"
             /\ UNCHANGED <<timer, available, ending>>
    <2>1. /\ confirmation' \in [token: 1..MaxGeneration, terminating: BOOLEAN,
                                rolledBack: BOOLEAN]
          /\ confirmation'.token = generations /\ ~confirmation'.terminating
          /\ ~confirmation'.rolledBack
      BY <1>2, <1>6 DEF Display!Installed
    <2>2. confirmation' # None
      BY <2>1, DisplayAssumption
    <2>3. DisplayTypes'
      BY <1>3, <1>6, <2>1, <2>2 DEF DisplayInv, DisplayTypes, Offering
    <2>4. Previewed'
      BY <1>1, <1>3, <1>6, <2>1, <2>2 DEF Previewed
    <2>5. Standing'
      BY <1>3, <1>6, <2>1, <2>2 DEF Standing, Preparing, Offering, Ending
    <2> QED
      BY <1>4, <2>3, <2>4, <2>5 DEF DisplayInv
  <1> QED
    BY <1>2, <1>5, <1>6 DEF Display!ProvePreview

\* The rollback of a candidate that was never offered.
LEMMA CleanPreviewKeeps == ASSUME DisplayInv, Display!CleanPreview PROVE DisplayInv'
  <1> USE DisplayAssumption DEF Preparing, Offering, Ending, Display!Phase, Display!Action,
      Display!CleanPreview, Display!RollbackSucceeds, Display!RollbackFails,
      Display!Continue, Display!Abandon, Display!AcceptUnreconciled,
      Display!service, Display!world, Display!history
  <1>1. DisplayTypes'
    <2>1. (/\ terminal \in {None} \cup [token: 1..MaxGeneration, action: Display!Action]
           /\ timer \in BOOLEAN /\ available \in BOOLEAN
           /\ step \in {"idle", "down", "finalizing"} \cup Preparing \cup Offering
                          \cup Ending
           /\ ending \in {"reverted", "expired"})'
      BY DEF DisplayInv, DisplayTypes
    <2>2. (/\ authority \in [applied: 0..MaxGeneration, pending: 0..MaxGeneration,
                             phase: Display!Phase]
           /\ authorityFailed \in BOOLEAN
           /\ live \in 0..MaxGeneration /\ generations \in 0..MaxGeneration)'
      BY DEF DisplayInv, DisplayTypes
    <2>3. (/\ confirmation \in {None} \cup
                  [token: 1..MaxGeneration, terminating: BOOLEAN, rolledBack: BOOLEAN]
           /\ state \in {"idle", "awaiting-confirmation", "reverting", "committing",
                         "failed"}
           /\ watch \in BOOLEAN /\ (watch <=> confirmation # None)
           /\ deadline \in {"none", "running", "passed"}
           /\ deadline = "none" <=> confirmation = None)'
      BY DEF DisplayInv, DisplayTypes
    <2>4. (/\ ownerPresent \in BOOLEAN /\ ownerLost \in BOOLEAN
           /\ topologyExact \in BOOLEAN /\ targetExact \in BOOLEAN)'
      BY DEF DisplayInv, DisplayTypes
    <2> QED
      BY <2>1, <2>2, <2>3, <2>4 DEF DisplayTypes
  <1>2. Journal'
    BY DEF DisplayInv, DisplayTypes, Journal, Standing, Previewed
  <1>3. Previewed'
    BY DEF DisplayInv, DisplayTypes, Journal, Previewed, Standing, History
  <1>4. Standing'
    BY DEF DisplayInv, DisplayTypes, Journal, Previewed, Standing, History
  <1>5. History'
    BY DEF DisplayInv, DisplayTypes, Journal, Previewed, Standing, History
  <1> QED
    BY <1>1, <1>2, <1>3, <1>4, <1>5 DEF DisplayInv

\* The journal of a candidate that was never offered.
LEMMA AbortPreviewKeeps == ASSUME DisplayInv, Display!AbortPreview PROVE DisplayInv'
  <1> USE DisplayAssumption DEF Preparing, Offering, Ending, Display!Phase, Display!Action,
      Display!AbortPreview, Display!AbortSucceeds, Display!AbortFails,
      Display!NoJournal, Display!Continue, Display!Abandon,
      Display!AcceptUnreconciled, Display!service, Display!world, Display!history
  <1>0. authority' \in Authority /\ authorityFailed' \in BOOLEAN
    <2>1. /\ authority \in Authority /\ authorityFailed \in BOOLEAN
          /\ authority.applied \in 0..MaxGeneration
      BY DEF DisplayInv, DisplayTypes, Authority
    <2>2. Display!NoJournal(authority.applied) \in Authority
      BY <2>1, WithoutJournal
    <2> QED
      BY <2>1, <2>2
  <1>1. DisplayTypes'
    <2>1. (/\ terminal \in {None} \cup [token: 1..MaxGeneration, action: Display!Action]
           /\ timer \in BOOLEAN /\ available \in BOOLEAN
           /\ step \in {"idle", "down", "finalizing"} \cup Preparing \cup Offering
                          \cup Ending
           /\ ending \in {"reverted", "expired"})'
      BY DEF DisplayInv, DisplayTypes
    <2>2. (/\ authority \in [applied: 0..MaxGeneration, pending: 0..MaxGeneration,
                             phase: Display!Phase]
           /\ authorityFailed \in BOOLEAN
           /\ live \in 0..MaxGeneration /\ generations \in 0..MaxGeneration)'
      BY <1>0 DEF DisplayInv, DisplayTypes, Authority
    <2>3. (/\ confirmation \in {None} \cup
                  [token: 1..MaxGeneration, terminating: BOOLEAN, rolledBack: BOOLEAN]
           /\ state \in {"idle", "awaiting-confirmation", "reverting", "committing",
                         "failed"}
           /\ watch \in BOOLEAN /\ (watch <=> confirmation # None)
           /\ deadline \in {"none", "running", "passed"}
           /\ deadline = "none" <=> confirmation = None)'
      BY DEF DisplayInv, DisplayTypes
    <2>4. (/\ ownerPresent \in BOOLEAN /\ ownerLost \in BOOLEAN
           /\ topologyExact \in BOOLEAN /\ targetExact \in BOOLEAN)'
      BY DEF DisplayInv, DisplayTypes
    <2> QED
      BY <2>1, <2>2, <2>3, <2>4 DEF DisplayTypes
  <1>2. Journal'
    BY DEF DisplayInv, DisplayTypes, Journal, Standing, Previewed
  <1>3. Previewed'
    BY DEF DisplayInv, DisplayTypes, Journal, Previewed, Standing, History
  <1>4. Standing'
    BY DEF DisplayInv, DisplayTypes, Journal, Previewed, Standing, History
  <1>5. History'
    BY DEF DisplayInv, DisplayTypes, Journal, Previewed, Standing, History
  <1> QED
    BY <1>1, <1>2, <1>3, <1>4, <1>5 DEF DisplayInv

\* The rollback of a preview, remembered for the retries.
LEMMA RevertLiveKeeps == ASSUME DisplayInv, Display!RevertLive PROVE DisplayInv'
  <1>1. /\ step = "reverting" /\ confirmation # None /\ confirmation.terminating
        /\ confirmation \in [token: 1..MaxGeneration, terminating: BOOLEAN,
                             rolledBack: BOOLEAN]
        /\ confirmation.token = generations
    BY DEF Display!RevertLive, DisplayInv, DisplayTypes, Standing, Previewed, Ending
  <1>2. UNCHANGED <<authority, authorityFailed, generations, deadline, ownerPresent,
                    ownerLost, topologyExact, targetExact, terminated, decided, outcomes>>
    BY DEF Display!RevertLive, Display!world, Display!history
  <1>3. /\ live' \in {live, authority.applied}
        /\ terminal' = terminal /\ timer' = timer /\ watch' = watch /\ ending' = ending
        /\ \/ /\ step' = "revoking" /\ state' = state /\ available' = available
              /\ live' = authority.applied
              /\ confirmation' \in {confirmation, [confirmation EXCEPT !.rolledBack = TRUE]}
              /\ confirmation'.rolledBack
           \/ /\ step' = "idle" /\ state' = "failed" /\ available' = FALSE
              /\ confirmation' = confirmation /\ ~confirmation.rolledBack
    <2>1. CASE confirmation.rolledBack
      BY <1>1, <2>1 DEF Display!RevertLive, Display!Continue, Display!service, DisplayInv,
                        Previewed
    <2>2. CASE ~confirmation.rolledBack
      BY <1>1, <2>2 DEF Display!RevertLive, Display!RollbackSucceeds,
                        Display!RollbackFails, Display!Abandon, Display!AcceptUnreconciled
    <2> QED
      BY <2>1, <2>2
  <1>4. /\ confirmation' \in [token: 1..MaxGeneration, terminating: BOOLEAN,
                              rolledBack: BOOLEAN]
        /\ confirmation'.token = confirmation.token /\ confirmation'.terminating
    BY <1>1, <1>3
  <1>5. confirmation' # None
    BY <1>4, DisplayAssumption
  <1>6. state # "awaiting-confirmation" /\ state' # "awaiting-confirmation"
    BY <1>1, <1>3 DEF DisplayInv, Previewed
  <1>7. DisplayTypes'
    <2>1. /\ live' \in 0..MaxGeneration /\ generations' \in 0..MaxGeneration
          /\ authority' \in [applied: 0..MaxGeneration, pending: 0..MaxGeneration,
                             phase: Display!Phase]
      BY <1>2, <1>3 DEF DisplayInv, DisplayTypes
    <2>2. (watch <=> confirmation # None)' /\ (deadline = "none" <=> confirmation = None)'
      BY <1>1, <1>2, <1>3, <1>5 DEF DisplayInv, DisplayTypes
    <2>3. (/\ terminal \in {None} \cup [token: 1..MaxGeneration, action: Display!Action]
           /\ timer \in BOOLEAN /\ available \in BOOLEAN
           /\ step \in {"idle", "down", "finalizing"} \cup Preparing \cup Offering
                          \cup Ending
           /\ ending \in {"reverted", "expired"})'
      BY <1>3 DEF DisplayInv, DisplayTypes, Ending
    <2> QED
      BY <1>2, <1>3, <1>4, <1>5, <2>1, <2>2, <2>3 DEF DisplayInv, DisplayTypes, Ending
  <1>8. Journal'
    BY <1>2, <1>3 DEF DisplayInv, Journal
  <1>9. Previewed'
    BY <1>1, <1>2, <1>3, <1>4, <1>5, <1>6 DEF DisplayInv, Previewed
  <1>10. Standing'
    BY <1>3, <1>4, <1>5, <1>6 DEF Standing, Preparing, Offering, Ending
  <1>11. History'
    BY <1>2, <1>3 DEF DisplayInv, History
  <1> QED
    BY <1>7, <1>8, <1>9, <1>10, <1>11 DEF DisplayInv

\* The abort of a preview: its outcome is kept only when the journal is gone.
LEMMA RevertJournalKeeps == ASSUME DisplayInv, Display!RevertJournal PROVE DisplayInv'
  <1>1. /\ step = "revoking" /\ confirmation # None /\ confirmation.terminating
        /\ confirmation \in [token: 1..MaxGeneration, terminating: BOOLEAN,
                             rolledBack: BOOLEAN]
        /\ confirmation.token = generations /\ live = authority.applied
        /\ authority.applied < generations /\ authority \in Authority
        /\ ending \in {"reverted", "expired"} /\ authorityFailed \in BOOLEAN
        /\ state # "awaiting-confirmation"
    BY DEF Display!RevertJournal, DisplayInv, DisplayTypes, Standing, Previewed, Ending,
           Authority
  <1>2. /\ Display!NoJournal(authority.applied) \in Authority
        /\ Display!NoJournal(authority.applied).applied = authority.applied
        /\ Display!NoJournal(authority.applied).pending = 0
        /\ Display!NoJournal(authority.applied).phase = "idle"
    BY <1>1, WithoutJournal DEF Authority
  <1>3. UNCHANGED <<live, generations, ownerPresent, topologyExact, targetExact,
                    terminated, decided>>
    BY DEF Display!RevertJournal
  <1>4. CASE Display!AbortFails /\ Display!Abandon
             /\ UNCHANGED <<outcomes, ownerLost, deadline>>
    <2>1. /\ authority' \in {authority, Display!NoJournal(authority.applied)}
          /\ authorityFailed' = TRUE /\ step' = "idle" /\ state' = "failed"
          /\ available' = FALSE
          /\ UNCHANGED <<confirmation, terminal, timer, watch, ending>>
      BY <1>4 DEF Display!AbortFails, Display!Abandon, Display!AcceptUnreconciled
    <2>2. DisplayTypes'
      BY ZenonT(60), <1>1, <1>2, <1>3, <1>4, <2>1 DEF DisplayInv, DisplayTypes, Authority
    <2>3. Journal'
      BY <1>2, <1>3, <2>1 DEF DisplayInv, Journal
    <2>4. Previewed'
      BY <1>1, <1>2, <1>3, <2>1 DEF DisplayInv, Previewed
    <2>5. Standing'
      BY <1>1, <2>1 DEF Standing, Preparing, Offering, Ending
    <2>6. History'
      <3>1. /\ authority'.applied = authority.applied
            /\ authority'.pending \in {0, authority.pending}
        BY <1>2, <2>1
      <3>2. 0 \notin 1..generations
        BY <1>1
      <3> QED
        BY <1>3, <1>4, <3>1, <3>2 DEF DisplayInv, History
    <2> QED
      BY <2>2, <2>3, <2>4, <2>5, <2>6 DEF DisplayInv
  <1>5. CASE /\ Display!AbortSucceeds
             /\ terminal' = [token |-> confirmation.token, action |-> ending]
             /\ outcomes' = outcomes \cup {<<confirmation.token, ending>>}
             /\ confirmation' = None /\ state' = "idle" /\ timer' = FALSE
             /\ watch' = FALSE /\ ownerLost' = FALSE /\ deadline' = "none"
             /\ available' = TRUE /\ step' = "idle" /\ UNCHANGED ending
    <2>1. /\ authority' = Display!NoJournal(authority.applied)
          /\ ~authorityFailed /\ authorityFailed' = authorityFailed
      BY <1>5 DEF Display!AbortSucceeds
    <2>2. DisplayTypes'
      BY <1>1, <1>2, <1>3, <1>5, <2>1
         DEF DisplayInv, DisplayTypes, Authority, Display!Action
    <2>3. Journal'
      BY <1>2, <1>3, <2>1 DEF DisplayInv, Journal
    <2>4. Previewed' /\ Standing'
      BY <1>1, <1>2, <1>3, <1>5, <2>1 DEF Previewed, Standing, Preparing, Offering, Ending
    <2>5. History'
      <3>1. generations \in 1..generations /\ 0 \notin 1..generations
        BY <1>1
      <3>2. \A outcome \in outcomes :
                IF outcome[2] = "confirmed" THEN authority'.applied >= outcome[1]
                ELSE outcome[1] \notin {authority'.applied, authority'.pending, live'}
        BY <1>2, <1>3, <2>1, <3>1 DEF DisplayInv, History
      <3>3. generations \notin {authority'.applied, authority'.pending, live'}
        BY <1>1, <1>2, <1>3, <2>1, <3>1 DEF Authority
      <3> QED
        BY <1>1, <1>3, <1>5, <3>1, <3>2, <3>3 DEF DisplayInv, History, Display!Action
    <2> QED
      BY <2>2, <2>3, <2>4, <2>5 DEF DisplayInv
  <1> QED
    BY <1>4, <1>5 DEF Display!RevertJournal

\* The commit: decided, perhaps decided, or refused and reverted.
LEMMA CommitKeeps == ASSUME DisplayInv, Display!Commit PROVE DisplayInv'
  <1>1. /\ step = "committing" /\ confirmation # None /\ ~confirmation.terminating
        /\ confirmation \in [token: 1..MaxGeneration, terminating: BOOLEAN,
                             rolledBack: BOOLEAN]
        /\ confirmation.token = generations /\ live = generations
        /\ generations \notin terminated
        /\ authority.applied < generations /\ authority \in Authority
        /\ authority.pending = generations /\ authority.phase = "prepared"
        /\ authorityFailed \in BOOLEAN /\ timer \in BOOLEAN /\ ownerLost \in BOOLEAN
    BY DEF Display!Commit, DisplayInv, DisplayTypes, Standing, Previewed, Offering,
           Authority, Journal
  <1>2. UNCHANGED <<live, generations, ownerPresent, topologyExact, targetExact, outcomes>>
    BY DEF Display!Commit
  <1>3. CASE /\ authorityFailed' \in {authorityFailed, TRUE}
             /\ Display!BeginRevert("reverted")
             /\ UNCHANGED <<timer, authority, deadline, ownerLost, decided>>
    BY <1>1, <1>2, <1>3, BeginRevertKeeps
  <1>4. ASSUME Display!RevokeCapability, authority' \in Authority,
               authorityFailed' \in BOOLEAN, state' \in {"committing", "failed"},
               step' \in {"finalizing", "idle"}, available' \in {available, FALSE},
               UNCHANGED <<terminal, ending, terminated>>,
               \/ /\ authority'.applied = authority.applied
                  /\ authority'.pending = authority.pending
                  /\ authority'.phase # "idle"
                  /\ step' = "idle" /\ available' = FALSE
               \/ /\ authority'.applied = generations /\ authority'.pending = 0
                  /\ authority'.phase = "idle" /\ step' = "finalizing"
                  /\ ~authorityFailed'
        PROVE  DisplayInv'
    <2>1. /\ confirmation' = None /\ timer' = FALSE /\ watch' = FALSE
          /\ ownerLost' = FALSE /\ deadline' = "none"
          /\ decided' = decided \cup {generations}
      BY <1>1, <1>4 DEF Display!RevokeCapability
    <2>2. DisplayTypes'
      BY <1>2, <1>4, <2>1 DEF DisplayInv, DisplayTypes, Authority
    <2>3. Journal'
      BY <1>1, <1>2, <1>4 DEF DisplayInv, DisplayTypes, Journal
    <2>4. Previewed'
      BY <1>4, <2>1 DEF Previewed
    <2>5. Standing'
      BY <1>1, <1>2, <1>4, <2>1 DEF Standing, Preparing, Offering, Ending
    <2>6. History'
      <3>1. generations \in 1..generations /\ 0 \notin 1..generations
        BY <1>1
      <3>2. ASSUME NEW outcome \in outcomes
            PROVE  IF outcome[2] = "confirmed" THEN authority'.applied >= outcome[1]
                   ELSE outcome[1] \notin {authority'.applied, authority'.pending, live'}
        <4>1. outcome[1] \in 1..generations
          BY DEF DisplayInv, History
        <4>2. IF outcome[2] = "confirmed" THEN authority.applied >= outcome[1]
              ELSE outcome[1] \notin {authority.applied, authority.pending, live}
          BY DEF DisplayInv, History
        <4>3. CASE outcome[2] = "confirmed"
          BY <1>1, <1>4, <4>1, <4>2, <4>3 DEF Authority
        <4>4. CASE outcome[2] # "confirmed"
          BY <1>1, <1>2, <1>4, <3>1, <4>1, <4>2, <4>4
        <4> QED
          BY <4>3, <4>4
      <3> QED
        BY <1>1, <1>2, <1>4, <2>1, <3>1, <3>2 DEF DisplayInv, History
    <2> QED
      BY <2>2, <2>3, <2>4, <2>5, <2>6 DEF DisplayInv
  <1>5. CASE /\ ~authorityFailed
             /\ authority' = Display!NoJournal(Display!pending)
             /\ Display!RevokeCapability
             /\ state' = "committing"
             /\ step' = "finalizing"
             /\ UNCHANGED <<terminal, available, ending, authorityFailed, terminated>>
    <2>1. /\ authority' \in Authority /\ authority'.applied = generations
          /\ authority'.pending = 0 /\ authority'.phase = "idle"
      BY <1>1, <1>5, WithoutJournal DEF Display!pending, Authority
    <2> QED
      BY <1>1, <1>4, <1>5, <2>1
  <1>6. CASE /\ authority' \in {[authority EXCEPT !.phase = "committing"],
                                [authority EXCEPT !.phase = "maybe"]}
             /\ authorityFailed' = TRUE
             /\ Display!RevokeCapability
             /\ Display!AcceptUnreconciled
             /\ step' = "idle"
             /\ UNCHANGED <<terminal, ending, terminated>>
    <2>1. /\ authority' \in Authority /\ authority'.applied = authority.applied
          /\ authority'.pending = authority.pending /\ authority'.phase # "idle"
      BY <1>1, <1>6 DEF Authority, Display!Phase
    <2> QED
      BY <1>4, <1>6, <2>1 DEF Display!AcceptUnreconciled
  <1> QED
    BY <1>3, <1>5, <1>6 DEF Display!Commit

\* The confirmed outcome is kept once the commit is proven.
LEMMA FinalizeConfirmedKeeps == ASSUME DisplayInv, Display!FinalizeConfirmed PROVE DisplayInv'
  <1> USE DisplayAssumption DEF Preparing, Offering, Ending, Display!Phase, Display!Action,
      Display!FinalizeConfirmed, Display!Abandon, Display!AcceptUnreconciled,
      Display!store, Display!world
  <1>0. terminal' \in {None} \cup [token: 1..MaxGeneration, action: Display!Action]
    <2>1. authority.applied \in 1..MaxGeneration
      BY DEF DisplayInv, DisplayTypes, Standing
    <2> QED
      BY <2>1 DEF DisplayInv, DisplayTypes
  <1>1. DisplayTypes'
    <2>1. (/\ terminal \in {None} \cup [token: 1..MaxGeneration, action: Display!Action]
           /\ timer \in BOOLEAN /\ available \in BOOLEAN
           /\ step \in {"idle", "down", "finalizing"} \cup Preparing \cup Offering
                          \cup Ending
           /\ ending \in {"reverted", "expired"})'
      BY <1>0 DEF DisplayInv, DisplayTypes
    <2>2. (/\ authority \in [applied: 0..MaxGeneration, pending: 0..MaxGeneration,
                             phase: Display!Phase]
           /\ authorityFailed \in BOOLEAN
           /\ live \in 0..MaxGeneration /\ generations \in 0..MaxGeneration)'
      BY DEF DisplayInv, DisplayTypes
    <2>3. (/\ confirmation \in {None} \cup
                  [token: 1..MaxGeneration, terminating: BOOLEAN, rolledBack: BOOLEAN]
           /\ state \in {"idle", "awaiting-confirmation", "reverting", "committing",
                         "failed"}
           /\ watch \in BOOLEAN /\ (watch <=> confirmation # None)
           /\ deadline \in {"none", "running", "passed"}
           /\ deadline = "none" <=> confirmation = None)'
      BY DEF DisplayInv, DisplayTypes
    <2>4. (/\ ownerPresent \in BOOLEAN /\ ownerLost \in BOOLEAN
           /\ topologyExact \in BOOLEAN /\ targetExact \in BOOLEAN)'
      BY DEF DisplayInv, DisplayTypes
    <2> QED
      BY <2>1, <2>2, <2>3, <2>4 DEF DisplayTypes
  <1>2. Journal'
    BY DEF DisplayInv, DisplayTypes, Journal, Standing, Previewed
  <1>3. Previewed'
    BY DEF DisplayInv, DisplayTypes, Journal, Previewed, Standing, History
  <1>4. Standing'
    BY DEF DisplayInv, DisplayTypes, Journal, Previewed, Standing, History
  <1>5. History'
    BY DEF DisplayInv, DisplayTypes, Journal, Previewed, Standing, History
  <1> QED
    BY <1>1, <1>2, <1>3, <1>4, <1>5 DEF DisplayInv

\* An ordinary apply, which needs a settled service, and its failures.
LEMMA ApplyKeeps == ASSUME DisplayInv, Display!Apply PROVE DisplayInv'
  <1> DEFINE next == generations + 1
  <1>1. /\ step = "idle" /\ confirmation = None /\ available
        /\ authority = Display!NoJournal(live) /\ ~authorityFailed
        /\ generations < MaxGeneration /\ generations' = next
        /\ UNCHANGED <<step, deadline, ownerPresent, ownerLost, targetExact,
                       topologyExact, terminated, decided, outcomes, confirmation,
                       terminal, timer, watch, ending>>
    BY DEF Display!Apply, Display!history, Display!world, Display!service
  <1>2. /\ generations \in 0..MaxGeneration /\ next \in 1..MaxGeneration
        /\ live \in 0..MaxGeneration /\ live <= generations /\ authority \in Authority
        /\ state = "idle"
    BY <1>1, DisplayAssumption DEF DisplayInv, DisplayTypes, Standing, Journal, Authority
  <1>3. /\ authority.applied = live /\ authority.pending = 0 /\ authority.phase = "idle"
    BY <1>1, <1>2, WithoutJournal
  <1>4. \/ /\ authority' \in Authority /\ authority'.applied = next /\ live' = next
           /\ authority'.pending = 0 /\ authority'.phase = "idle"
           /\ authorityFailed' = authorityFailed /\ state' = state
           /\ available' = available
        \/ /\ authority' \in Authority /\ authority'.applied = live
           /\ authority'.pending = next /\ authority'.phase # "idle"
           /\ authorityFailed' \in BOOLEAN /\ live' \in {live, next}
           /\ available' = FALSE /\ state' = "failed"
    <2>1. /\ Display!NoJournal(next) \in Authority
          /\ Display!NoJournal(next).applied = next
          /\ Display!NoJournal(next).pending = 0
          /\ Display!NoJournal(next).phase = "idle"
      BY <1>2, WithoutJournal
    <2>2. \A phase \in {"prepared", "maybe", "committing"} :
             LET a == [authority EXCEPT !.pending = next, !.phase = phase] IN
             /\ a \in Authority /\ a.applied = live
             /\ a.pending = next /\ a.phase # "idle"
      <3>1. next \in 0..MaxGeneration
        BY <1>2
      <3> HIDE DEF next
      <3> SUFFICES ASSUME NEW phase \in {"prepared", "maybe", "committing"},
                          NEW a, a = [authority EXCEPT !.pending = next, !.phase = phase]
                   PROVE  /\ a \in Authority /\ a.applied = live
                          /\ a.pending = next /\ a.phase # "idle"
        OBVIOUS
      <3>2. phase \in Display!Phase /\ phase # "idle"
        BY DEF Display!Phase
      <3> QED
        BY <1>2, <1>3, <3>1, <3>2 DEF Authority
    <2>3. CASE /\ authority' = Display!NoJournal(next) /\ live' = next
               /\ UNCHANGED <<Display!service, authorityFailed>>
      BY <2>1, <2>3 DEF Display!service
    <2>4. CASE /\ authority' \in {[authority EXCEPT !.pending = next, !.phase = phase] :
                                    phase \in {"prepared", "maybe", "committing"}}
               /\ authorityFailed' \in BOOLEAN
               /\ live' \in {live, next}
               /\ Display!AcceptUnreconciled
      BY <2>2, <2>4 DEF Display!AcceptUnreconciled
    <2> QED
      BY <2>3, <2>4 DEF Display!Apply
  <1> HIDE DEF next
  <1>5. DisplayTypes'
    BY ZenonT(60), <1>1, <1>2, <1>4 DEF DisplayInv, DisplayTypes, Authority
  <1>6. Journal'
    <2>1. generations \in Nat /\ live \in Nat /\ generations' = generations + 1
      BY <1>1, <1>2, DisplayAssumption DEF next
    <2>2. next = generations + 1
      BY DEF next
    <2> QED
      BY <1>2, <1>4, <2>1, <2>2 DEF Journal
  <1>7. Previewed'
    BY <1>1, <1>2, <1>4 DEF Previewed
  <1>8. Standing'
    <2>1. /\ step' = "idle" /\ confirmation' = None /\ state' # "awaiting-confirmation"
          /\ available' => /\ authority'.phase = "idle" /\ live' = authority'.applied
                          /\ ~authorityFailed' /\ state' = "idle"
      <3>1. step' = "idle" /\ confirmation' = None /\ state' # "awaiting-confirmation"
        BY <1>1, <1>2, <1>4
      <3>2. ASSUME available' PROVE live' = authority'.applied /\ authority'.phase = "idle"
        BY <1>4, <3>2
      <3>3. ASSUME available' PROVE ~authorityFailed' /\ state' = "idle"
        BY <1>1, <1>2, <1>4, <3>3
      <3> QED
        BY <3>1, <3>2, <3>3
    <2> QED
      BY <2>1 DEF Standing, Preparing, Offering, Ending
  <1>9. History'
    <2>1. 1..generations \subseteq 1..next /\ next \notin 1..generations
      BY <1>2 DEF next
    <2>2. 0 \notin 1..generations /\ live < next
      BY <1>2 DEF next
    <2>3. ASSUME NEW outcome \in outcomes
          PROVE  IF outcome[2] = "confirmed" THEN authority'.applied >= outcome[1]
                 ELSE outcome[1] \notin {authority'.applied, authority'.pending, live'}
      <3>1. outcome[1] \in 1..generations
        BY DEF DisplayInv, History
      <3>2. outcome[1] < next
        BY <1>2, <3>1 DEF next
      <3>3. IF outcome[2] = "confirmed" THEN live >= outcome[1] ELSE outcome[1] # live
        BY <1>3 DEF DisplayInv, History
      <3> QED
        BY <1>2, <1>4, <2>1, <2>2, <3>1, <3>2, <3>3
    <2> QED
      BY <1>1, <2>1, <2>3 DEF DisplayInv, History
  <1> QED
    BY <1>5, <1>6, <1>7, <1>8, <1>9 DEF DisplayInv

\* Time passes, a monitor or the entrypoint changes under the service.
LEMMA WorldKeeps ==
    ASSUME DisplayInv,
           Display!Tick \/ Display!TopologyChanges \/ Display!EntrypointChanges
    PROVE  DisplayInv'
  <1>1. /\ UNCHANGED <<confirmation, state, terminal, timer, watch, available, step,
                       ending, authority, authorityFailed, live, generations,
                       ownerPresent, ownerLost, terminated, decided, outcomes>>
        /\ topologyExact' \in BOOLEAN /\ targetExact' \in BOOLEAN
        /\ \/ deadline' = deadline
           \/ deadline = "running" /\ deadline' = "passed"
    BY DEF Display!Tick, Display!TopologyChanges, Display!EntrypointChanges,
           Display!service, Display!store, Display!world, Display!history, DisplayInv,
           DisplayTypes
  <1>2. DisplayTypes'
    BY <1>1 DEF DisplayInv, DisplayTypes
  <1>3. Journal' /\ Previewed' /\ History'
    BY <1>1 DEF DisplayInv, Journal, Previewed, History
  <1>4. Standing'
    BY <1>1 DEF DisplayInv, Standing
  <1> QED
    BY <1>2, <1>3, <1>4 DEF DisplayInv

\* An owner that leaves is reported to whoever watches it.
LEMMA OwnerLeavesKeeps == ASSUME DisplayInv, Display!OwnerLeaves PROVE DisplayInv'
  <1> USE DisplayAssumption DEF Preparing, Offering, Ending, Display!Phase, Display!Action,
      Display!OwnerLeaves, Display!service, Display!store, Display!history
  <1>0. ownerLost' \in BOOLEAN
    BY DEF DisplayInv, DisplayTypes
  <1>1. DisplayTypes'
    <2>1. (/\ terminal \in {None} \cup [token: 1..MaxGeneration, action: Display!Action]
           /\ timer \in BOOLEAN /\ available \in BOOLEAN
           /\ step \in {"idle", "down", "finalizing"} \cup Preparing \cup Offering
                          \cup Ending
           /\ ending \in {"reverted", "expired"})'
      BY DEF DisplayInv, DisplayTypes
    <2>2. (/\ authority \in [applied: 0..MaxGeneration, pending: 0..MaxGeneration,
                             phase: Display!Phase]
           /\ authorityFailed \in BOOLEAN
           /\ live \in 0..MaxGeneration /\ generations \in 0..MaxGeneration)'
      BY DEF DisplayInv, DisplayTypes
    <2>3. (/\ confirmation \in {None} \cup
                  [token: 1..MaxGeneration, terminating: BOOLEAN, rolledBack: BOOLEAN]
           /\ state \in {"idle", "awaiting-confirmation", "reverting", "committing",
                         "failed"}
           /\ watch \in BOOLEAN /\ (watch <=> confirmation # None)
           /\ deadline \in {"none", "running", "passed"}
           /\ deadline = "none" <=> confirmation = None)'
      BY DEF DisplayInv, DisplayTypes
    <2>4. (/\ ownerPresent \in BOOLEAN /\ ownerLost \in BOOLEAN
           /\ topologyExact \in BOOLEAN /\ targetExact \in BOOLEAN)'
      BY <1>0 DEF DisplayInv, DisplayTypes
    <2> QED
      BY <2>1, <2>2, <2>3, <2>4 DEF DisplayTypes
  <1>2. Journal'
    BY DEF DisplayInv, DisplayTypes, Journal, Standing, Previewed
  <1>3. Previewed'
    BY DEF DisplayInv, DisplayTypes, Journal, Previewed, Standing, History
  <1>4. Standing'
    BY DEF DisplayInv, DisplayTypes, Journal, Previewed, Standing, History
  <1>5. History'
    BY DEF DisplayInv, DisplayTypes, Journal, Previewed, Standing, History
  <1> QED
    BY <1>1, <1>2, <1>3, <1>4, <1>5 DEF DisplayInv

\* A crash takes everything but the journal and the live generation.
LEMMA CrashKeeps == ASSUME DisplayInv, Display!Crash PROVE DisplayInv'
  <1> USE DisplayAssumption DEF Preparing, Offering, Ending, Display!Phase, Display!Action,
      Display!Crash, Display!history
  <1>1. DisplayTypes'
    BY DEF DisplayInv, DisplayTypes, Previewed, Standing, Journal
  <1>2. Journal'
    BY DEF DisplayInv, DisplayTypes, Journal, Standing, Previewed
  <1>3. Previewed'
    BY DEF DisplayInv, DisplayTypes, Journal, Previewed, Standing, History
  <1>4. Standing'
    BY DEF DisplayInv, DisplayTypes, Journal, Previewed, Standing, History
  <1>5. History'
    BY DEF DisplayInv, DisplayTypes, Journal, Previewed, Standing, History
  <1> QED
    BY <1>1, <1>2, <1>3, <1>4, <1>5 DEF DisplayInv

\* Startup settles the journal on one of the sides it may have.
LEMMA RestartKeeps == ASSUME DisplayInv, Display!Restart PROVE DisplayInv'
  <1> USE DisplayAssumption DEF Preparing, Offering, Ending, Display!Phase, Display!Action,
      Display!Restart, Display!StartupSides, Display!NoJournal, Display!world,
      Display!history
  <1>0. authority' \in Authority /\ live' \in 0..MaxGeneration /\ available' \in BOOLEAN
    <2>1. /\ Display!StartupSides \subseteq 0..MaxGeneration
          /\ live \in 0..MaxGeneration /\ available \in BOOLEAN
      BY DEF DisplayInv, DisplayTypes
    <2>2. \A side \in Display!StartupSides : Display!NoJournal(side) \in Authority
      BY <2>1, WithoutJournal
    <2> QED
      BY <2>1, <2>2
  <1>1. DisplayTypes'
    BY <1>0 DEF DisplayInv, DisplayTypes, Authority
  <1>2. Journal'
    BY DEF DisplayInv, DisplayTypes, Journal, Standing, Previewed
  <1>3. Previewed'
    BY DEF DisplayInv, DisplayTypes, Journal, Previewed, Standing, History
  <1>4. Standing'
    BY DEF DisplayInv, DisplayTypes, Journal, Previewed, Standing, History
  <1>5. History'
    BY DEF DisplayInv, DisplayTypes, Journal, Previewed, Standing, History
  <1> QED
    BY <1>1, <1>2, <1>3, <1>4, <1>5 DEF DisplayInv

-----------------------------------------------------------------------------
(* The theorem *)

\* The session starts with no preview, no journal and nothing behind it.
LEMMA InitEstablishes == ASSUME Display!Init PROVE DisplayInv
  <1> USE DisplayAssumption DEF Display!Init
  <1>1. Display!NoJournal(0) \in Authority /\ Display!NoJournal(0).applied = 0
        /\ Display!NoJournal(0).pending = 0 /\ Display!NoJournal(0).phase = "idle"
    BY WithoutJournal
  <1>2. DisplayTypes
    BY <1>1 DEF DisplayTypes, Authority
  <1>3. Journal /\ Previewed
    BY <1>1 DEF Journal, Previewed
  <1>4. Standing
    BY <1>1 DEF Standing, Preparing, Offering, Ending
  <1>5. History
    BY DEF History
  <1> QED
    BY <1>2, <1>3, <1>4, <1>5 DEF DisplayInv

\* A step that is not the display service's leaves all of it alone.
LEMMA RestKeeps == ASSUME DisplayInv, UNCHANGED display PROVE DisplayInv'
  <1> USE DEF display
  <1>1. DisplayTypes'
    BY DEF DisplayInv, DisplayTypes
  <1>2. Journal' /\ Previewed' /\ History'
    BY DEF DisplayInv, Journal, Previewed, History
  <1>3. Standing'
    BY DEF DisplayInv, Standing
  <1> QED
    BY <1>1, <1>2, <1>3 DEF DisplayInv

\* No step of the service or of the world around it breaks the invariant.
LEMMA DisplayStepKeeps == ASSUME DisplayInv, Display!Next PROVE DisplayInv'
  <1>1. CASE Display!Handler
    BY <1>1, ActivatePreviewKeeps, ProvePreviewKeeps, CleanPreviewKeeps,
       AbortPreviewKeeps, StartPreviewKeeps, ProbeOwnerKeeps, ArmTimerKeeps,
       RevertLiveKeeps, RevertJournalKeeps, ProveConfirmedKeeps, AskOwnerKeeps,
       DecideDeadlineKeeps, CommitKeeps, FinalizeConfirmedKeeps
       DEF Display!Handler
  <1>2. CASE Display!Call
    BY <1>2, PreviewKeeps, ConfirmKeeps, EndingKeeps, ApplyKeeps DEF Display!Call
  <1>3. CASE Display!Timeout \/ Display!OwnerLoss \/ Display!Poll
    BY <1>3, EndingKeeps
  <1>4. CASE Display!World
    BY <1>4, WorldKeeps, OwnerLeavesKeeps DEF Display!World
  <1>5. CASE Display!Crash \/ Display!Restart
    BY <1>5, CrashKeeps, RestartKeeps
  <1> QED
    BY <1>1, <1>2, <1>3, <1>4, <1>5 DEF Display!Next

\* The invariant is enough for what the run checks.
LEMMA DisplayIsSafe == ASSUME DisplayInv PROVE Display!PreviewIsSafe
  <1>1. Display!TypeOK
    <2> USE DEF DisplayInv, DisplayTypes
    <2>0. 1..generations \subseteq Display!Generation
      <3>1. generations \in 0..MaxGeneration
        OBVIOUS
      <3> HIDE DEF DisplayInv, DisplayTypes
      <3> QED
        BY <3>1, DisplayAssumption DEF Display!Generation
    <2>1. /\ confirmation \in {None} \cup
                 [token: Display!Generation, terminating: BOOLEAN, rolledBack: BOOLEAN]
          /\ terminal \in {None} \cup [token: Display!Generation, action: Display!Action]
          /\ authority \in [applied: 0..MaxGeneration, pending: 0..MaxGeneration,
                            phase: Display!Phase]
      BY DEF Display!Generation
    <2>2. /\ state \in {"idle", "awaiting-confirmation", "reverting", "committing",
                        "failed"}
          /\ step \in {"idle", "down"} \cup Display!HandlerStep
          /\ ending \in Display!Action \ {"confirmed"}
          /\ deadline \in {"none", "running", "passed"}
      BY DEF Display!HandlerStep, Display!Action, Preparing, Offering, Ending
    <2>3. /\ timer \in BOOLEAN /\ available \in BOOLEAN /\ authorityFailed \in BOOLEAN
          /\ {live, generations} \subseteq 0..MaxGeneration
          /\ {ownerPresent, ownerLost, topologyExact, targetExact} \subseteq BOOLEAN
      OBVIOUS
    <2>4. {terminated, decided} \subseteq SUBSET Display!Generation
      BY <2>0 DEF History
    <2>5. outcomes \subseteq Display!Generation \X Display!Action
      BY <2>0 DEF History
    <2>6. /\ watch = (confirmation # None)
          /\ (deadline = "none") = (confirmation = None)
      OBVIOUS
    <2>7. confirmation # None => authority.pending \in {0, confirmation.token}
      BY DEF Journal, Previewed
    <2> QED
      BY <2>1, <2>2, <2>3, <2>4, <2>5, <2>6, <2>7 DEF Display!TypeOK
  <1>2. Display!AwaitingIsGuarded
    BY DEF DisplayInv, Previewed, Standing, Journal, Display!AwaitingIsGuarded
  <1>3. Display!AvailableIsSettled
    BY DEF DisplayInv, DisplayTypes, Standing, Journal, Display!AvailableIsSettled, Display!NoJournal
  <1>4. Display!TerminationExcludesDecision /\ Display!OutcomesHold
    BY DEF DisplayInv, History, Display!TerminationExcludesDecision, Display!OutcomesHold
  <1> QED
    BY <1>1, <1>2, <1>3, <1>4 DEF Display!PreviewIsSafe, Display!RestIsSafe

\* A preview is safe to try: on offer it is guarded by its timer, its journal
\* and its owner's watch; a service that takes mutations has no unconfirmed
\* layout behind it; none is both kept and taken back; and the outcome the
\* service keeps stays true (ConfirmDisplayConfiguration,
\* revertDisplayConfirmation, acceptUnreconciled).
THEOREM PreviewAlwaysSafe == LiveSpec => []PreviewIsSafe
  <1>1. Init => DisplayInv
    BY InitEstablishes DEF Init
  <1>2. ASSUME DisplayInv, [Next]_vars PROVE DisplayInv'
    <2>1. CASE OnlyDisplay /\ Display!Next
      BY <1>2, <2>1, DisplayStepKeeps
    <2>2. CASE OnlyClient /\ Client!Next
      BY <1>2, <2>2, RestKeeps DEF OnlyClient
    <2>3. CASE UNCHANGED vars
      BY <1>2, <2>3, RestKeeps DEF vars
    <2> QED
      BY <1>2, <2>1, <2>2, <2>3 DEF Next
  <1>3. DisplayInv => PreviewIsSafe
    BY DisplayIsSafe DEF PreviewIsSafe
  <1> QED
    BY <1>1, <1>2, <1>3, PTL DEF LiveSpec

-----------------------------------------------------------------------------
(* The client: what is known of it and of the bus between any two steps *)

Contents == Client!Authors \X Nat
Mutations == {"Adopt", "Apply", "Recover", "Preview"}
Answered == {"Confirm", "Revert"}
Saves == {"Replace", "VerifyProperties", "VerifySnapshot"}
Applies == {"SavedApply", "ReconcileProperties"}
Writes == Mutations \cup {"Replace", "SavedApply"}
Verifies == {"VerifyProperties", "VerifySnapshot", "ReconcileProperties"}

PropertiesType ==
    [available: BOOLEAN, revision: Nat, digest: Nat, managed: BOOLEAN, applied: Nat,
     applyState: {"unavailable", "inactive", "current", "retained", "failed"},
     activation: {"none", "reload", "restart"}, preview: Nat \cup {None}]
SnapshotType == [revision: Nat, content: Contents, digest: Nat]

ServiceType ==
    [up: BOOLEAN, available: BOOLEAN, revision: Nat \ {0}, content: Contents,
     digest: Nat, managed: BOOLEAN, applied: Nat,
     applyState: {"inactive", "current", "retained", "failed"},
     activation: {"none", "reload", "restart"},
     preview: [id: Nat, mine: BOOLEAN] \cup {None}, previews: Nat,
     ran: SUBSET Contents]

SimpleOperation == [step: Mutations \cup Answered]
SaveOperation ==
    [step: Saves, retry: BOOLEAN, expected: Nat, digest: Nat, content: Contents,
     base: Contents]
ApplyOperation ==
    [step: Applies, retry: BOOLEAN, expected: Nat, digest: Nat, content: Contents]
OperationType == SimpleOperation \cup SaveOperation \cup ApplyOperation

SaveOutcomes == Client!Outcomes \ {"Done", "Failed"}
ToldType ==
    [outcome: {"Done", "Failed"}] \cup [outcome: SaveOutcomes, content: Contents]

ClientType ==
    [available: BOOLEAN, optionReady: BOOLEAN, actionReady: BOOLEAN, complete: BOOLEAN,
     displaysReady: BOOLEAN, option: Nat \cup {None}, action: Nat \cup {None},
     properties: PropertiesType, digest: Nat, snapshot: SnapshotType,
     token: Nat \cup {None}, operation: OperationType \cup {None},
     told: ToldType \cup {None}, unread: BOOLEAN]

PlainCall == [kind: Client!ReadCalls \cup Verifies, awaited: BOOLEAN]
AnswerCall == [kind: Answered, awaited: BOOLEAN, token: Nat]
WriteCall ==
    [kind: Writes \ {"Replace"}, awaited: BOOLEAN, digest: Nat, revision: Nat,
     shown: Contents]
ReplaceCall ==
    [kind: {"Replace"}, awaited: BOOLEAN, digest: Nat, revision: Nat,
     shown: Contents, content: Contents]
CallType == PlainCall \cup AnswerCall \cup WriteCall \cup ReplaceCall

MessageType ==
    [kind: {"PropertiesChanged"}, properties: PropertiesType, hydration: BOOLEAN]
    \cup [kind: {"NameOwnerChanged"}, up: BOOLEAN]
    \cup [kind: {"GetAll", "VerifyProperties", "ReconcileProperties"},
          properties: PropertiesType]
    \cup [kind: {"GetSnapshot", "VerifySnapshot"}, snapshot: SnapshotType]
    \cup [kind: {"GetOptionCatalog", "GetActionCatalog"}, digest: Nat]
    \cup [kind: {"GetConnectedDisplays"}]
    \cup [kind: {"GetPendingDisplayConfirmation"}, token: Nat \cup {None}]
    \cup [kind: Writes \cup Answered, ok: {FALSE}]
    \cup [kind: (Writes \cup Answered) \ {"Replace", "Preview"}, ok: {TRUE}]
    \cup [kind: {"Replace"}, ok: {TRUE}, revision: Nat]
    \cup [kind: {"Preview"}, ok: {TRUE}, token: Nat]

ClientTypes ==
    /\ service \in ServiceType
    /\ client \in ClientType
    /\ requests \in Seq(CallType)
    /\ inbox \in Seq(MessageType)
    /\ operations \in 0..MaxOperation
    /\ disturbances \in 0..MaxDisturbance
    /\ service.preview # None => service.preview.id \in 1..service.previews

-----------------------------------------------------------------------------
Els(q) == {q[i] : i \in DOMAIN q}

HasProperties(m) ==
    m.kind \in {"PropertiesChanged", "GetAll", "VerifyProperties", "ReconcileProperties"}
HasSnapshot(m) == m.kind \in {"GetSnapshot", "VerifySnapshot"}

\* A call of an operation whose reply will be taken, and a reply to one.
Waiting(m) == m.awaited /\ ~Client!IsRead(m)
IsReply(m) == ~Client!IsSignal(m) /\ ~Client!IsRead(m)

\* Only reads follow a call that is waited for, and one reply is under way.
LastWaits(q) ==
    \A i, j \in DOMAIN q : i < j /\ Waiting(q[i]) => Client!IsRead(q[j])
OneReply(q) == \A i, j \in DOMAIN q : i < j /\ IsReply(q[i]) => ~IsReply(q[j])

\* The revisions that somebody takes for applied.
AppliedRevisions ==
    {service.applied, client.properties.applied}
    \cup {m.properties.applied : m \in {n \in Els(inbox) : HasProperties(n)}}

\* Revision r was of content c; and that ran, if the revision is taken for applied.
Had(r, c) ==
    /\ r <= service.revision
    /\ r = service.revision => c = service.content
    /\ r \in AppliedRevisions /\ r > 0 => c \in service.ran

FromHere == {Client!Mine(k) : k \in 1..operations}
OwnerChanged(m) == m.kind = "NameOwnerChanged"
Settles == service.up /\ service.available /\ \A m \in Els(inbox) : ~OwnerChanged(m)
NotStored(c) ==
    /\ service.content # c
    /\ \A m \in Els(requests) : m.kind = "Replace" => m.content # c

HasRevision(p) == p.available => p.revision > 0

ServiceHolds ==
    /\ \A r \in AppliedRevisions : r <= service.revision
    /\ service.activation = "none" => service.applied = service.revision
    /\ Had(service.revision, service.content)
    /\ Had(client.snapshot.revision, client.snapshot.content)
    /\ HasRevision(client.properties)
    /\ service.content[1] = "mine" => service.content \in FromHere

\* An operation, by the step it is at.
Op == client.operation
During(steps) == Op # None /\ Op.step \in steps
OperationHolds ==
    /\ Op # None => client.told = None
    /\ During(Saves) => Had(Op.expected, Op.base) /\ Op.content \in FromHere
    /\ During(Applies) => Had(Op.expected, Op.content)
    /\ During({"Replace"}) /\ service.content = Op.content =>
           /\ service.revision = Op.expected + 1
           /\ service.digest = Op.digest \/ \E m \in Els(inbox) : OwnerChanged(m)

\* What the user was told of a save.
Refused(c) == c \in FromHere /\ (Settles => NotStored(c))
ToldHolds ==
    client.told # None =>
        /\ client.told.outcome = "Refused" => Refused(client.told.content)
        /\ client.told.outcome = "Applied" => client.told.content \in service.ran

CallHolds(m) ==
    /\ m.kind \in Writes => Had(m.revision, m.shown)
    /\ m.kind = "Replace" =>
           /\ m.content \in FromHere
           /\ During({"Replace"}) /\ m.content = Op.content =>
                  m.revision = Op.expected /\ m.digest = Op.digest
    /\ Waiting(m) =>
           /\ During({m.kind})
           /\ m.kind = "Replace" => m.content = Op.content
           /\ m.kind = "SavedApply" => m.shown = Op.content

MessageHolds(m) ==
    /\ HasProperties(m) => HasRevision(m.properties)
    /\ HasSnapshot(m) => Had(m.snapshot.revision, m.snapshot.content)
    /\ IsReply(m) => During({m.kind})
    /\ m.kind = "Replace" /\ ~m.ok /\ Settles => NotStored(Op.content)
    /\ m.kind = "SavedApply" /\ m.ok => Op.content \in service.ran

BusHolds ==
    /\ LastWaits(requests) /\ OneReply(inbox)
    /\ \A m \in Els(requests) : Waiting(m) => \A n \in Els(inbox) : ~IsReply(n)
    /\ \A m \in Els(requests) : CallHolds(m)
    /\ \A m \in Els(inbox) : MessageHolds(m)

ClientInv == ClientTypes /\ ServiceHolds /\ OperationHolds /\ ToldHolds /\ BusHolds
-----------------------------------------------------------------------------
(* Queues *)

LEMMA Order == \A i, j \in Nat : i < j => <<i, j>> \in OpToRel(<, Nat)
  BY DEF OpToRel

\* Induction, for a set of numbers.
LEMMA SetInduction ==
    ASSUME NEW S \in SUBSET Nat, 0 \in S, \A n \in S : n + 1 \in S
    PROVE  S = Nat
  <1> SUFFICES ASSUME Nat \ S # {}
               PROVE  FALSE
    OBVIOUS
  <1>1. PICK x \in Nat \ S : \A y \in Nat \ S : ~(<<y, x>> \in OpToRel(<, Nat))
    <2> DEFINE R == OpToRel(<, Nat)
    <2>1. IsWellFoundedOn(R, Nat)
      BY NatLessThanWellFounded
    <2> HIDE DEF R
    <2>2. \E x \in Nat \ S : \A y \in Nat \ S : ~ (<<y, x>> \in R)
      BY <2>1, WFMin
    <2> QED
      BY <2>2 DEF R
  <1>2. x # 0 /\ x - 1 \in Nat /\ x = (x - 1) + 1 /\ x - 1 < x
    OBVIOUS
  <1>3. x - 1 \in Nat \ S
    BY <1>2
  <1> QED
    BY <1>1, <1>2, <1>3, Order

LEMMA ElementsAre == \A S : \A q \in Seq(S) : Els(q) \subseteq S
  BY DEF Els

LEMMA TailIs ==
    ASSUME NEW S, NEW q \in Seq(S), q # <<>>
    PROVE  /\ Head(q) \in S /\ Tail(q) \in Seq(S)
           /\ Len(q) \in Nat \ {0} /\ DOMAIN q = 1..Len(q)
           /\ DOMAIN Tail(q) = 1..(Len(q) - 1)
           /\ \A i \in 1..(Len(q) - 1) : Tail(q)[i] = q[i + 1]
           /\ Head(q) = q[1]
           /\ Head(q) \in Els(q)
           /\ Els(Tail(q)) \subseteq Els(q)
           /\ \A m \in Els(q) : m = Head(q) \/ m \in Els(Tail(q))
           /\ Els(q) \subseteq S
  <1>1. /\ Head(q) \in S /\ Tail(q) \in Seq(S)
        /\ Len(q) \in Nat \ {0} /\ DOMAIN q = 1..Len(q) /\ Head(q) = q[1]
        /\ \A i \in 1..Len(q) : q[i] \in S
    OBVIOUS
  <1>2. /\ DOMAIN Tail(q) = 1..(Len(q) - 1)
        /\ \A i \in 1..(Len(q) - 1) : Tail(q)[i] = q[i + 1]
    OBVIOUS
  <1>3. \A i \in 1..Len(q) : i = 1 \/ (i - 1 \in 1..(Len(q) - 1) /\ i = (i - 1) + 1)
    BY <1>1
  <1>4. \A i \in 1..(Len(q) - 1) : i + 1 \in 1..Len(q)
    BY <1>1
  <1>5. 1 \in 1..Len(q)
    BY <1>1
  <1> DEFINE t == Tail(q)
             n == Len(q)
  <1>6. DOMAIN t = 1..(n - 1) /\ \A i \in 1..(n - 1) : t[i] = q[i + 1]
    BY <1>2
  <1> HIDE DEF t
  <1>7. DOMAIN q = 1..n /\ n \in Nat \ {0}
    BY <1>1
  <1> HIDE DEF n
  <1>8. Els(t) \subseteq Els(q)
    BY <1>4, <1>6, <1>7 DEF Els, n
  <1>9. ASSUME NEW i \in 1..n
        PROVE  q[i] = Head(q) \/ q[i] \in Els(t)
    <2>1. CASE i = 1
      BY <2>1, <1>1
    <2>2. CASE i - 1 \in 1..(n - 1) /\ i = (i - 1) + 1
      <3>1. t[i - 1] = q[i]
        BY <2>2, <1>6
      <3> QED
        BY <3>1, <2>2, <1>6 DEF Els
    <2> QED
      BY <2>1, <2>2, <1>3 DEF n
  <1>10. \A m \in Els(q) : m = Head(q) \/ m \in Els(t)
    BY <1>7, <1>9 DEF Els
  <1> QED
    BY <1>1, <1>2, <1>5, <1>8, <1>10 DEF Els, t

LEMMA ConcatIs ==
    ASSUME NEW S, NEW p \in Seq(S), NEW q \in Seq(S)
    PROVE  /\ p \o q \in Seq(S)
           /\ Els(p \o q) = Els(p) \cup Els(q)
           /\ LastWaits(p) /\ LastWaits(q)
              /\ ((\A m \in Els(q) : Client!IsRead(m)) \/ \A m \in Els(p) : ~Waiting(m))
                 => LastWaits(p \o q)
           /\ OneReply(p) /\ OneReply(q)
              /\ ((\A m \in Els(q) : ~IsReply(m)) \/ \A m \in Els(p) : ~IsReply(m))
                 => OneReply(p \o q)
  <1> DEFINE r == p \o q
  <1>1. /\ r \in Seq(S) /\ DOMAIN r = 1..(Len(p) + Len(q))
        /\ DOMAIN p = 1..Len(p) /\ DOMAIN q = 1..Len(q)
        /\ Len(p) \in Nat /\ Len(q) \in Nat
        /\ \A i \in 1..(Len(p) + Len(q)) :
              r[i] = IF i <= Len(p) THEN p[i] ELSE q[i - Len(p)]
    OBVIOUS
  <1> HIDE DEF r
  <1>2. \A i \in DOMAIN p : i \in DOMAIN r /\ r[i] = p[i]
    BY <1>1
  <1>3. \A i \in DOMAIN q : i + Len(p) \in DOMAIN r /\ r[i + Len(p)] = q[i]
    BY <1>1
  <1>4. \A i \in DOMAIN r :
            \/ i \in DOMAIN p /\ r[i] = p[i]
            \/ i > Len(p) /\ i - Len(p) \in DOMAIN q /\ r[i] = q[i - Len(p)]
    BY <1>1
  <1>5. Els(r) = Els(p) \cup Els(q)
    BY <1>2, <1>3, <1>4 DEF Els
  <1>6. \A i, j \in DOMAIN r : i < j =>
            \/ i \in DOMAIN p /\ j \in DOMAIN p /\ r[i] = p[i] /\ r[j] = p[j]
            \/ r[i] \in Els(p) /\ r[j] \in Els(q)
            \/ /\ i - Len(p) \in DOMAIN q /\ j - Len(p) \in DOMAIN q
               /\ i - Len(p) < j - Len(p)
               /\ r[i] = q[i - Len(p)] /\ r[j] = q[j - Len(p)]
    BY <1>1, <1>4 DEF Els
  <1>7. LastWaits(p) /\ LastWaits(q)
        /\ ((\A m \in Els(q) : Client!IsRead(m)) \/ \A m \in Els(p) : ~Waiting(m))
           => LastWaits(r)
    BY <1>6 DEF LastWaits
  <1>8. OneReply(p) /\ OneReply(q)
        /\ ((\A m \in Els(q) : ~IsReply(m)) \/ \A m \in Els(p) : ~IsReply(m))
           => OneReply(r)
    BY <1>6 DEF OneReply
  <1> QED
    BY <1>1, <1>5, <1>7, <1>8 DEF r

LEMMA SingleIs ==
    ASSUME NEW S, NEW m \in S
    PROVE  /\ <<m>> \in Seq(S) /\ Els(<<m>>) = {m}
           /\ LastWaits(<<m>>) /\ OneReply(<<m>>)
           /\ \A q \in Seq(S) : Append(q, m) = q \o <<m>>
  BY DEF Els, LastWaits, OneReply

LEMMA AppendIs ==
    ASSUME NEW S, NEW q \in Seq(S), NEW m \in S
    PROVE  /\ Append(q, m) \in Seq(S)
           /\ Els(Append(q, m)) = Els(q) \cup {m}
  <1> DEFINE s == <<m>>
             r == Append(q, m)
  <1>1. s \in Seq(S) /\ Els(s) = {m} /\ r = q \o s
    BY SingleIs
  <1> HIDE DEF s, r
  <1>2. r \in Seq(S) /\ Els(r) = Els(q) \cup {m}
    BY <1>1, ConcatIs
  <1> QED
    BY <1>2 DEF r

LEMMA AppendKeeps ==
    ASSUME NEW S, NEW q \in Seq(S), NEW m \in S
    PROVE  /\ LastWaits(q) /\ (Client!IsRead(m) \/ \A n \in Els(q) : ~Waiting(n))
              => LastWaits(Append(q, m))
           /\ OneReply(q) /\ (~IsReply(m) \/ \A n \in Els(q) : ~IsReply(n))
              => OneReply(Append(q, m))
  <1> DEFINE s == <<m>>
             r == Append(q, m)
  <1>1. /\ s \in Seq(S) /\ Els(s) = {m} /\ LastWaits(s) /\ OneReply(s)
        /\ r = q \o s
    BY SingleIs
  <1> HIDE DEF s, r
  <1>2. /\ LastWaits(q) /\ (Client!IsRead(m) \/ \A n \in Els(q) : ~Waiting(n))
           => LastWaits(r)
        /\ OneReply(q) /\ (~IsReply(m) \/ \A n \in Els(q) : ~IsReply(n))
           => OneReply(r)
    BY <1>1, ConcatIs
  <1> QED
    BY <1>2 DEF r

LEMMA EmptyIs ==
    ASSUME NEW S
    PROVE  /\ <<>> \in Seq(S) /\ Els(<<>>) = {}
           /\ LastWaits(<<>>) /\ OneReply(<<>>)
           /\ \A q \in Seq(S) : q \o <<>> = q
  BY DEF Els, LastWaits, OneReply

\* The messages at these places, in their order.
From(r, q, P, n) ==
    /\ Els(r) = {q[i] : i \in P \cap (1..n)}
    /\ \A i, j \in DOMAIN r :
           i < j => \E k \in 1..n : \E l \in 1..n : k < l /\ r[i] = q[k] /\ r[j] = q[l]

LEMMA FromNext ==
    ASSUME NEW S, NEW q \in Seq(S), NEW P, NEW n \in Nat, n + 1 \in 1..Len(q),
           NEW r \in Seq(S), From(r, q, P, n)
    PROVE  /\ n + 1 \notin P => From(r, q, P, n + 1)
           /\ n + 1 \in P =>
                  Append(r, q[n + 1]) \in Seq(S) /\ From(Append(r, q[n + 1]), q, P, n + 1)
  <1>1. \A i \in 1..(n + 1) : i = n + 1 \/ i \in 1..n
    OBVIOUS
  <1>2. \A i \in 1..n : i \in 1..(n + 1) /\ i < n + 1
    OBVIOUS
  <1>3. n + 1 \in 1..(n + 1) /\ q[n + 1] \in S
    OBVIOUS
  <1>4. ASSUME n + 1 \notin P PROVE From(r, q, P, n + 1)
    <2>1. P \cap (1..(n + 1)) = P \cap (1..n)
      BY <1>1, <1>2, <1>4
    <2>2. \A i, j \in DOMAIN r : i < j =>
              \E k \in 1..(n + 1) : \E l \in 1..(n + 1) :
                     k < l /\ r[i] = q[k] /\ r[j] = q[l]
      BY <1>2 DEF From
    <2> QED
      BY <2>1, <2>2 DEF From
  <1>5. ASSUME n + 1 \in P
        PROVE  Append(r, q[n + 1]) \in Seq(S) /\ From(Append(r, q[n + 1]), q, P, n + 1)
    <2> DEFINE a == Append(r, q[n + 1])
    <2>1. /\ a \in Seq(S) /\ DOMAIN a = 1..(Len(r) + 1) /\ DOMAIN r = 1..Len(r)
          /\ Len(r) \in Nat
          /\ \A i \in 1..Len(r) : a[i] = r[i]
          /\ a[Len(r) + 1] = q[n + 1]
      BY <1>3
    <2> HIDE DEF a
    <2>2. \A i \in 1..(Len(r) + 1) : i \in 1..Len(r) \/ i = Len(r) + 1
      BY <2>1
    <2>3. \A i \in 1..Len(r) : i \in 1..(Len(r) + 1)
      BY <2>1
    <2>4. Len(r) + 1 \in 1..(Len(r) + 1)
      BY <2>1
    <2>5. Els(a) = Els(r) \cup {q[n + 1]}
      BY <2>1, <2>2, <2>3, <2>4 DEF Els
    <2>6. {q[i] : i \in P \cap (1..(n + 1))} = {q[i] :
                 i \in P \cap (1..n)} \cup {q[n + 1]}
      BY <1>1, <1>2, <1>3, <1>5
    <2>7. ASSUME NEW i \in DOMAIN a, NEW j \in DOMAIN a, i < j
          PROVE  \E k \in 1..(n + 1) : \E l \in 1..(n + 1) :
                     k < l /\ a[i] = q[k] /\ a[j] = q[l]
      <3>1. i \in DOMAIN r /\ (j \in DOMAIN r \/ j = Len(r) + 1)
        BY <2>1, <2>7
      <3>2. CASE j \in DOMAIN r
        BY <3>1, <3>2, <2>1, <2>7, <1>2 DEF From
      <3>3. CASE j = Len(r) + 1
        <4>1. r[i] \in {q[x] : x \in P \cap (1..n)}
          BY <3>1 DEF From, Els
        <4>2. PICK k \in 1..n : r[i] = q[k]
          BY <4>1
        <4>3. a[i] = q[k] /\ a[j] = q[n + 1]
          BY <4>2, <3>1, <3>3, <2>1
        <4> QED
          BY <4>3, <1>2, <1>3
      <3> QED
        BY <3>1, <3>2, <3>3
    <2>8. From(a, q, P, n + 1)
      BY <2>5, <2>6, <2>7 DEF From
    <2> QED
      BY <2>1, <2>8 DEF a
  <1> QED
    BY <1>4, <1>5

LEMMA AtIs ==
    ASSUME NEW S, NEW q \in Seq(S), NEW P
    PROVE  Client!At(q, P) \in Seq(S) /\ From(Client!At(q, P), q, P, Len(q))
  <1> DEFINE N == Len(q)
             Value(f, n) == IF n = 0 THEN <<>>
                            ELSE IF n \in P THEN Append(f[n - 1], q[n]) ELSE f[n - 1]
             Fixed(f, K) == f = [n \in 0..K |-> Value(f, n)]
  <1>1. N \in Nat /\ \A n \in 1..N : q[n] \in S
    OBVIOUS
  <1>2. \E f : Fixed(f, N)
    <2> DEFINE Ks == {K \in Nat : \E f : Fixed(f, K)}
    <2>1. 0 \in Ks
      <3> DEFINE f == [n \in 0..0 |-> <<>>]
      <3>1. Fixed(f, 0)
        OBVIOUS
      <3> QED
        BY <3>1
    <2>2. ASSUME NEW K \in Ks PROVE K + 1 \in Ks
      <3>1. PICK f : Fixed(f, K)
        OBVIOUS
      <3> DEFINE g == [n \in 0..(K + 1) |-> Value(f, n)]
      <3>2. K \in Nat /\ DOMAIN f = 0..K /\ \A n \in 0..K : f[n] = Value(f, n)
        BY <3>1
      <3>3. \A n \in 0..K : g[n] = f[n]
        BY <3>2
      <3>4. \A n \in 0..(K + 1) : n # 0 => n - 1 \in 0..K
        BY <3>2
      <3>5. \A n \in 0..(K + 1) : Value(f, n) = Value(g, n)
        <4> HIDE DEF g
        <4> QED
          BY <3>3, <3>4
      <3>6. Fixed(g, K + 1)
        BY <3>5
      <3> HIDE DEF g, Fixed
      <3> QED
        BY <3>2, <3>6
    <2> HIDE DEF Ks
    <2>3. Ks \subseteq Nat
      BY DEF Ks
    <2>4. Ks = Nat
      BY <2>1, <2>2, <2>3, SetInduction
    <2> QED
      BY <2>4, <1>1 DEF Ks
  <1> DEFINE u == CHOOSE f : Fixed(f, N)
  <1>3. Client!At(q, P) = u[N]
    BY DEF Client!At
  <1>4. Fixed(u, N)
    <2> HIDE DEF Fixed
    <2> QED
      BY <1>2
  <1>5. \A n \in 0..N : u[n] = Value(u, n)
    <2> HIDE DEF u
    <2> QED
      BY <1>4
  <1> HIDE DEF u
  <1> DEFINE Good == {n \in Nat : n <= N => u[n] \in Seq(S) /\ From(u[n], q, P, n)}
  <1>6. 0 \in Good
    <2>1. u[0] = <<>>
      BY <1>1, <1>5
    <2>2. <<>> \in Seq(S) /\ From(<<>>, q, P, 0)
      BY DEF From, Els
    <2> QED
      BY <2>1, <2>2
  <1>7. ASSUME NEW n \in Good PROVE n + 1 \in Good
    <2> SUFFICES ASSUME n + 1 <= N
                 PROVE  u[n + 1] \in Seq(S) /\ From(u[n + 1], q, P, n + 1)
      OBVIOUS
    <2>1. n \in Nat /\ n <= N /\ n + 1 \in 1..N /\ n + 1 \in 0..N /\ n + 1 # 0
          /\ (n + 1) - 1 = n
      BY <1>1
    <2>2. u[n] \in Seq(S) /\ From(u[n], q, P, n)
      BY <2>1
    <2>3. u[n + 1] = IF n + 1 \in P THEN Append(u[n], q[n + 1]) ELSE u[n]
      BY <2>1, <1>5
    <2>4. /\ n + 1 \notin P => From(u[n], q, P, n + 1)
          /\ n + 1 \in P =>
                  Append(u[n], q[n + 1]) \in Seq(S)
                  /\ From(Append(u[n], q[n + 1]), q, P, n + 1)
      BY <2>1, <2>2, FromNext
    <2> QED
      BY <2>2, <2>3, <2>4
  <1> HIDE DEF Good
  <1>8. Good \subseteq Nat
    BY DEF Good
  <1>9. Good = Nat
    BY <1>6, <1>7, <1>8, SetInduction
  <1>10. N \in Good
    BY <1>1, <1>9
  <1> QED
    BY <1>1, <1>3, <1>10 DEF Good

\* What is kept keeps its order.
LEMMA FromKeeps ==
    ASSUME NEW S, NEW q \in Seq(S), NEW P, NEW r \in Seq(S), From(r, q, P, Len(q))
    PROVE  /\ LastWaits(q) => LastWaits(r)
           /\ OneReply(q) => OneReply(r)
           /\ Els(r) = {q[i] : i \in P \cap (1..Len(q))}
  <1>1. DOMAIN q = 1..Len(q)
    OBVIOUS
  <1>2. ASSUME NEW i \in DOMAIN r, NEW j \in DOMAIN r, i < j
        PROVE  \E k, l \in DOMAIN q : k < l /\ r[i] = q[k] /\ r[j] = q[l]
    BY <1>1, <1>2 DEF From
  <1>3. LastWaits(q) => LastWaits(r)
    BY <1>2 DEF LastWaits
  <1>4. OneReply(q) => OneReply(r)
    BY <1>2 DEF OneReply
  <1> QED
    BY <1>3, <1>4 DEF From

LEMMA SupersededIs ==
    ASSUME NEW S, NEW q \in Seq(S)
    PROVE  /\ Client!Superseded(q) \in Seq(S)
           /\ LastWaits(q) => LastWaits(Client!Superseded(q))
           /\ OneReply(q) => OneReply(Client!Superseded(q))
           /\ Els(Client!Superseded(q)) = {m \in Els(q) : ~Client!IsRead(m)}
  <1> DEFINE P == {i \in DOMAIN q : ~Client!IsRead(q[i])}
             r == Client!At(q, P)
  <1>1. r \in Seq(S) /\ From(r, q, P, Len(q))
    <2> HIDE DEF P
    <2> QED
      BY AtIs
  <1>2. /\ LastWaits(q) => LastWaits(r)
        /\ OneReply(q) => OneReply(r)
        /\ Els(r) = {q[i] : i \in P \cap (1..Len(q))}
    <2> HIDE DEF P, r
    <2> QED
      BY <1>1, FromKeeps
  <1>3. r = Client!Superseded(q)
    BY DEF Client!Superseded
  <1>4. {q[i] : i \in P \cap (1..Len(q))} = {m \in Els(q) : ~Client!IsRead(m)}
    BY DEF Els
  <1> HIDE DEF P, r
  <1> QED
    BY <1>1, <1>2, <1>3, <1>4

\* All but one of the messages.
LEMMA RemovedIs ==
    ASSUME NEW S, NEW q \in Seq(S), NEW i \in DOMAIN q
    PROVE  LET r == Client!At(q, DOMAIN q \ {i})
           IN  /\ r \in Seq(S)
               /\ LastWaits(q) => LastWaits(r)
               /\ OneReply(q) => OneReply(r)
               /\ Els(r) \subseteq Els(q)
               /\ \A m \in Els(q) : m = q[i] \/ m \in Els(r)
  <1> DEFINE P == DOMAIN q \ {i}
             r == Client!At(q, P)
  <1>1. r \in Seq(S) /\ From(r, q, P, Len(q))
    <2> HIDE DEF P
    <2> QED
      BY AtIs
  <1>2. /\ LastWaits(q) => LastWaits(r)
        /\ OneReply(q) => OneReply(r)
        /\ Els(r) = {q[k] : k \in P \cap (1..Len(q))}
    <2> HIDE DEF P, r
    <2> QED
      BY <1>1, FromKeeps
  <1> HIDE DEF r
  <1>3. DOMAIN q = 1..Len(q)
    OBVIOUS
  <1> HIDE DEF P
  <1>4. P \subseteq DOMAIN q /\ \A k \in DOMAIN q : k = i \/ k \in P
    BY DEF P
  <1>5. Els(r) \subseteq Els(q)
    BY <1>2, <1>3 DEF Els
  <1>6. ASSUME NEW k \in DOMAIN q PROVE q[k] = q[i] \/ q[k] \in Els(r)
    BY <1>2, <1>3, <1>4
  <1>7. \A m \in Els(q) : m = q[i] \/ m \in Els(r)
    BY <1>6 DEF Els
  <1> QED
    BY <1>1, <1>2, <1>5, <1>7 DEF r, P

LEMMA SignalsAre ==
    ASSUME NEW S, NEW q \in Seq(S)
    PROVE  /\ Client!Signals(q) \in Seq(S)
           /\ Els(Client!Signals(q)) = {m \in Els(q) : Client!IsSignal(m)}
  <1> DEFINE P == {i \in DOMAIN q : Client!IsSignal(q[i])}
             r == Client!At(q, P)
  <1>1. r \in Seq(S) /\ From(r, q, P, Len(q))
    <2> HIDE DEF P
    <2> QED
      BY AtIs
  <1>2. Els(r) = {q[i] : i \in P \cap (1..Len(q))}
    BY <1>1 DEF From
  <1>3. r = Client!Signals(q)
    BY DEF Client!Signals
  <1>4. {q[i] : i \in P \cap (1..Len(q))} = {m \in Els(q) : Client!IsSignal(m)}
    BY DEF Els
  <1> HIDE DEF P, r
  <1> QED
    BY <1>1, <1>2, <1>3, <1>4

LEMMA ReadsAndSignalsAre ==
    ASSUME NEW S, NEW q \in Seq(S)
    PROVE  /\ Client!ReadsAndSignals(q) \in Seq(S)
           /\ Els(Client!ReadsAndSignals(q)) = {m \in Els(q) : ~IsReply(m)}
  <1> DEFINE P == {i \in DOMAIN q : Client!IsSignal(q[i]) \/ Client!IsRead(q[i])}
             r == Client!At(q, P)
  <1>1. r \in Seq(S) /\ From(r, q, P, Len(q))
    <2> HIDE DEF P
    <2> QED
      BY AtIs
  <1>2. Els(r) = {q[i] : i \in P \cap (1..Len(q))}
    BY <1>1 DEF From
  <1>3. r = Client!ReadsAndSignals(q)
    BY DEF Client!ReadsAndSignals
  <1>4. {q[i] : i \in P \cap (1..Len(q))} = {m \in Els(q) : ~IsReply(m)}
    BY DEF Els, IsReply
  <1> HIDE DEF P, r
  <1> QED
    BY <1>1, <1>2, <1>3, <1>4

-----------------------------------------------------------------------------
(* Calls and messages *)

\* The same call, whether or not its reply will be taken.
Same(m, n) ==
    /\ m.kind = n.kind
    /\ m.kind \in Writes =>
           m.revision = n.revision /\ m.shown = n.shown /\ m.digest = n.digest
    /\ m.kind = "Replace" => m.content = n.content

LEMMA CallIs ==
    ASSUME NEW m \in CallType
    PROVE  /\ m.kind \in Client!ReadCalls \cup Client!Steps
           /\ m.kind \in Writes =>
                  m.revision \in Nat /\ m.digest \in Nat /\ m.shown \in Contents
           /\ m.kind = "Replace" => m.content \in Contents
           /\ m.kind \in Answered => m.token \in Nat
           /\ m.kind \in Client!ReadCalls => ~(m.kind \in Client!Steps)
           /\ [m EXCEPT !.awaited = FALSE] \in CallType
           /\ Same([m EXCEPT !.awaited = FALSE], m) /\ Same(m, m)
           /\ ~Waiting([m EXCEPT !.awaited = FALSE])
  <1> USE DEF Writes, Mutations, Answered, Verifies, Client!ReadCalls, Client!Steps
  <1> DEFINE g == [m EXCEPT !.awaited = FALSE]
  <1>1. CASE m \in PlainCall
    <2>1. g \in PlainCall /\ g.kind = m.kind /\ g.awaited = FALSE
      BY <1>1 DEF PlainCall
    <2> HIDE DEF g
    <2>2. Same(g, m) /\ Same(m, m) /\ ~Waiting(g)
      BY <1>1, <2>1 DEF PlainCall, Same, Waiting
    <2> QED
      BY <1>1, <2>1, <2>2 DEF PlainCall, CallType, g
  <1>2. CASE m \in AnswerCall
    <2>1. g \in AnswerCall /\ g.kind = m.kind /\ g.awaited = FALSE
      BY <1>2 DEF AnswerCall
    <2> HIDE DEF g
    <2>2. Same(g, m) /\ Same(m, m) /\ ~Waiting(g)
      BY <1>2, <2>1 DEF AnswerCall, Same, Waiting
    <2> QED
      BY <1>2, <2>1, <2>2 DEF AnswerCall, CallType, g
  <1>3. CASE m \in WriteCall
    <2>1. /\ g \in WriteCall /\ g.kind = m.kind /\ g.awaited = FALSE
          /\ g.revision = m.revision /\ g.shown = m.shown /\ g.digest = m.digest
      BY <1>3 DEF WriteCall
    <2> HIDE DEF g
    <2>2. Same(g, m) /\ Same(m, m) /\ ~Waiting(g)
      BY <1>3, <2>1 DEF WriteCall, Same, Waiting
    <2> QED
      BY <1>3, <2>1, <2>2 DEF WriteCall, CallType, g
  <1>4. CASE m \in ReplaceCall
    <2>1. /\ g \in ReplaceCall /\ g.kind = m.kind /\ g.awaited = FALSE
          /\ g.revision = m.revision /\ g.shown = m.shown /\ g.digest = m.digest
          /\ g.content = m.content
      BY <1>4 DEF ReplaceCall
    <2> HIDE DEF g
    <2>2. Same(g, m) /\ Same(m, m) /\ ~Waiting(g)
      BY <1>4, <2>1 DEF ReplaceCall, Same, Waiting
    <2> QED
      BY <1>4, <2>1, <2>2 DEF ReplaceCall, CallType, g
  <1> QED
    BY <1>1, <1>2, <1>3, <1>4 DEF CallType

LEMMA ReadIs ==
    \A kind \in Client!ReadCalls :
        /\ Client!Read(kind) \in CallType
        /\ Client!IsRead(Client!Read(kind))
  BY DEF Client!Read, Client!IsRead, CallType, PlainCall

LEMMA GivenUpIs ==
    ASSUME NEW q \in Seq(CallType)
    PROVE  /\ Client!GivenUp(q) \in Seq(CallType)
           /\ LastWaits(Client!GivenUp(q))
           /\ \A m \in Els(Client!GivenUp(q)) :
                  ~Waiting(m) /\ \E n \in Els(q) : Same(m, n)
  <1> DEFINE G(m) == IF Client!IsRead(m) THEN m ELSE [m EXCEPT !.awaited = FALSE]
             g == Client!GivenUp(q)
  <1>1. g = [i \in DOMAIN q |-> G(q[i])]
    BY DEF Client!GivenUp
  <1>2. \A m \in CallType : G(m) \in CallType /\ Same(G(m), m) /\ ~Waiting(G(m))
    <2> TAKE m \in CallType
    <2>1. CASE Client!IsRead(m)
      BY <2>1, CallIs DEF Waiting
    <2>2. CASE ~Client!IsRead(m)
      BY <2>2, CallIs
    <2> QED
      BY <2>1, <2>2
  <1> HIDE DEF G
  <1>3. DOMAIN q = 1..Len(q) /\ Len(q) \in Nat /\ \A i \in DOMAIN q : q[i] \in CallType
    OBVIOUS
  <1>4. DOMAIN g = DOMAIN q /\ \A i \in DOMAIN q : g[i] = G(q[i])
    <2> HIDE DEF g
    <2> QED
      BY <1>1
  <1>5. g \in [1..Len(q) -> CallType]
    <2> HIDE DEF g
    <2> QED
      BY <1>1, <1>2, <1>3
  <1>6. g \in Seq(CallType)
    <2> HIDE DEF g
    <2> QED
      BY <1>3, <1>5
  <1> HIDE DEF g
  <1>7. \A m \in Els(g) : ~Waiting(m) /\ \E n \in Els(q) : Same(m, n)
    BY <1>2, <1>3, <1>4 DEF Els
  <1>8. LastWaits(g)
    BY <1>7 DEF LastWaits, Els
  <1> QED
    BY <1>6, <1>7, <1>8 DEF g

LEMMA MessageIs ==
    ASSUME NEW m \in MessageType
    PROVE  /\ HasProperties(m) => m.properties \in PropertiesType
           /\ HasSnapshot(m) => m.snapshot \in SnapshotType
           /\ m.kind \in {"GetOptionCatalog", "GetActionCatalog"} => m.digest \in Nat
           /\ m.kind = "GetPendingDisplayConfirmation" => m.token \in Nat \cup {None}
           /\ m.kind \in Writes \cup Answered => m.ok \in BOOLEAN
           /\ m.kind = "Preview" /\ m.ok => m.token \in Nat
           /\ IsReply(m) => m.kind \in Client!Steps
           /\ m.kind \in Client!Steps => IsReply(m)
  BY DEF MessageType, HasProperties, HasSnapshot, IsReply, Client!IsSignal,
         Client!IsRead, Client!ReadCalls, Client!Steps, Writes, Mutations, Answered

-----------------------------------------------------------------------------
(* What was had stays so *)

LEMMA HadStays ==
    ASSUME ClientTypes, ClientTypes', ServiceHolds,
           service.ran \subseteq service'.ran,
           \/ service'.revision = service.revision /\ service'.content = service.content
           \/ service'.revision = service.revision + 1,
           AppliedRevisions' \subseteq AppliedRevisions \cup {service'.applied},
           \/ service'.applied \in AppliedRevisions
           \/ service'.applied = service'.revision /\ service'.content \in service'.ran
    PROVE  /\ \A r \in Nat, c \in Contents : Had(r, c) => Had(r, c)'
           /\ Had(service.revision, service.content)'
           /\ \A r \in AppliedRevisions' : r <= service'.revision
  <1>1. /\ service.revision \in Nat /\ service'.revision \in Nat
        /\ service.content \in Contents /\ service'.applied \in Nat
    BY DEF ClientTypes, ServiceType
  <1>2. /\ \A r \in AppliedRevisions : r <= service.revision
        /\ Had(service.revision, service.content)
    BY DEF ServiceHolds
  <1>3. \A r \in AppliedRevisions' :
            \/ r \in AppliedRevisions
            \/ r = service'.revision /\ service'.content \in service'.ran
    OBVIOUS
  <1> DEFINE A == AppliedRevisions
             B == AppliedRevisions'
  <1>4. \A r \in B :
               r \in A \/ (r = service'.revision /\ service'.content \in service'.ran)
    BY <1>3
  <1>5. \A r \in A : r <= service.revision
    BY <1>2
  <1>6. \A r \in Nat, c \in Contents : Had(r, c) <=>
            /\ r <= service.revision
            /\ r = service.revision => c = service.content
            /\ r \in A /\ r > 0 => c \in service.ran
    BY DEF Had
  <1>7. \A r \in Nat, c \in Contents : Had(r, c)' <=>
            /\ r <= service'.revision
            /\ r = service'.revision => c = service'.content
            /\ r \in B /\ r > 0 => c \in service'.ran
    BY DEF Had
  <1>8. Had(service.revision, service.content)' <=>
            (service'.revision \in B /\ service'.revision > 0 =>
                   service'.content \in service'.ran)
    BY <1>1 DEF Had
  <1> HIDE DEF A, B
  <1>9. \A r \in Nat, c \in Contents : Had(r, c) => Had(r, c)'
    <2> TAKE r \in Nat, c \in Contents
    <2> HAVE Had(r, c)
    <2>1. /\ r <= service.revision
          /\ r = service.revision => c = service.content
          /\ r \in A /\ r > 0 => c \in service.ran
      BY <1>6
    <2>2. r <= service'.revision /\ (r = service'.revision => c = service'.content)
      BY <2>1, <1>1
    <2>3. r \in B /\ r > 0 => c \in service'.ran
      BY <2>1, <2>2, <1>4
    <2> QED
      BY <2>2, <2>3, <1>7
  <1>10. Had(service.revision, service.content)'
    <2>1. /\ service.revision \in A /\ service.revision > 0 =>
                    service.content \in service.ran
      BY <1>2, <1>6, <1>1
    <2>2. service'.revision \in B /\ service'.revision > 0 =>
                 service'.content \in service'.ran
      BY <2>1, <1>1, <1>4, <1>5
    <2> QED
      BY <2>2, <1>8
  <1>11. \A r \in B : r <= service'.revision
    <2>1. service.applied \in Nat /\ client.properties.applied \in Nat
      BY DEF ClientTypes, ServiceType, ClientType, PropertiesType
    <2>2. \A m \in Els(inbox) : HasProperties(m) => m.properties.applied \in Nat
      BY MessageIs, ElementsAre DEF ClientTypes, PropertiesType
    <2>3. A \subseteq Nat
      BY <2>1, <2>2 DEF A, AppliedRevisions
    <2>4. service.revision <= service'.revision
      BY <1>1
    <2> TAKE r \in B
    <2>5. CASE r \in A
      BY <2>3, <2>4, <2>5, <1>1, <1>5
    <2>6. CASE r = service'.revision
      BY <2>6, <1>1
    <2> QED
      BY <2>5, <2>6, <1>4
  <1> QED
    BY <1>9, <1>10, <1>11 DEF B

LEMMA OperationIs ==
    ASSUME ClientTypes
    PROVE  /\ Op # None => Op.step \in Client!Steps
           /\ During(Saves) =>
                  /\ Op \in SaveOperation
                  /\ Op.expected \in Nat /\ Op.base \in Contents
                  /\ Op.content \in Contents
                  /\ Op.digest \in Nat
           /\ During(Applies) =>
                  /\ Op \in ApplyOperation
                  /\ Op.expected \in Nat /\ Op.content \in Contents /\ Op.digest \in Nat
  <1>1. Op # None => Op \in OperationType
    BY DEF ClientTypes, ClientType, Op
  <1> QED
    BY <1>1 DEF During, Saves, OperationType, SimpleOperation, SaveOperation,
                ApplyOperation, Mutations, Answered, Applies, Client!Steps

LEMMA NoneIsNoOperation == None \notin OperationType
  <1>1. /\ SimpleOperation \subseteq [step: Client!Steps]
        /\ SaveOperation \subseteq
               [step: Client!Steps, retry: BOOLEAN, expected: Nat, digest: Nat,
                content: Client!Authors \X Nat, base: Client!Authors \X Nat]
        /\ ApplyOperation \subseteq
               [step: Client!Steps, retry: BOOLEAN, expected: Nat, digest: Nat,
                content: Client!Authors \X Nat]
    BY DEF SimpleOperation, SaveOperation, ApplyOperation, Client!Steps, Mutations,
           Answered, Saves, Applies, Contents
  <1> QED
    BY <1>1, ClientAssumption DEF OperationType

LEMMA ReadHolds ==
    ASSUME NEW m, Client!IsRead(m)
    PROVE  CallHolds(m)' /\ ~Waiting(m)
  BY DEF CallHolds, Client!IsRead, Client!ReadCalls, Waiting, Writes, Mutations

LEMMA CallStays ==
    ASSUME ClientTypes, ClientTypes', NEW m \in CallType, NEW n \in CallType, Same(m, n), CallHolds(n),
           \A r \in Nat, c \in Contents : Had(r, c) => Had(r, c)',
           FromHere \subseteq FromHere',
           Waiting(m) => Waiting(n) /\ Op' = Op,
           During({"Replace"})' =>
               \/ /\ During({"Replace"}) /\ Op'.content = Op.content
                  /\ Op'.expected = Op.expected /\ Op'.digest = Op.digest
               \/ Op'.content \notin FromHere
    PROVE  CallHolds(m)'
  <1>1. m.kind \in Writes => Had(m.revision, m.shown)'
    <2> HAVE m.kind \in Writes
    <2>1. m.revision \in Nat /\ m.shown \in Contents /\ Had(m.revision, m.shown)
      BY CallIs DEF Same, CallHolds
    <2> QED
      BY <2>1
  <1>2. m.kind = "Replace" =>
            /\ m.content \in FromHere'
            /\ During({"Replace"})' /\ m.content = Op'.content =>
                   m.revision = Op'.expected /\ m.digest = Op'.digest
    BY DEF CallHolds, Same, Writes
  <1>3. Waiting(m) =>
            /\ During({m.kind})'
            /\ m.kind = "Replace" => m.content = Op'.content
            /\ m.kind = "SavedApply" => m.shown = Op'.content
    BY DEF CallHolds, Same, Writes, During
  <1> QED
    BY <1>1, <1>2, <1>3 DEF CallHolds

LEMMA MessageStays ==
    ASSUME ClientTypes, OperationHolds, NEW m \in MessageType, MessageHolds(m),
           \A r \in Nat, c \in Contents : Had(r, c) => Had(r, c)',
           service.ran \subseteq service'.ran,
           IsReply(m) => Op' = Op,
           Settles' => Settles,
           \A c \in FromHere : Settles' /\ NotStored(c) => NotStored(c)'
    PROVE  MessageHolds(m)'
  <1>1. HasSnapshot(m) => Had(m.snapshot.revision, m.snapshot.content)'
    <2> HAVE HasSnapshot(m)
    <2>1. m.snapshot.revision \in Nat /\ m.snapshot.content \in Contents
      BY MessageIs DEF SnapshotType
    <2> QED
      BY <2>1 DEF MessageHolds
  <1>2. m.kind \in {"Replace", "SavedApply"} => IsReply(m)
    BY DEF IsReply, Client!IsSignal, Client!IsRead, Client!ReadCalls
  <1>3. IsReply(m) => During({m.kind}) /\ During({m.kind})'
    BY DEF MessageHolds, During
  <1>4. m.kind = "Replace" => Op.content \in FromHere
    BY <1>2, <1>3 DEF OperationHolds, During, Saves
  <1>5. m.kind = "Replace" /\ ~m.ok /\ Settles' => NotStored(Op.content)'
    <2> HAVE m.kind = "Replace" /\ ~m.ok /\ Settles'
    <2>1. Op' = Op
      BY <1>2
    <2>2. NotStored(Op.content) /\ Op.content \in FromHere
      BY <1>4 DEF MessageHolds
    <2>3. PICK c \in FromHere : c = Op.content /\ NotStored(c)
      BY <2>2
    <2>4. NotStored(c)'
      BY <2>3
    <2> QED
      BY <2>1, <2>3, <2>4 DEF NotStored
  <1>6. m.kind = "SavedApply" /\ m.ok => Op'.content \in service'.ran
    BY <1>2 DEF MessageHolds
  <1> QED
    BY <1>1, <1>3, <1>5, <1>6 DEF MessageHolds, During


LEMMA ToldStays ==
    ASSUME ToldHolds, client'.told = client.told,
           FromHere \subseteq FromHere', service.ran \subseteq service'.ran,
           Settles' => Settles,
           \A c \in FromHere : Settles' /\ NotStored(c) => NotStored(c)'
    PROVE  ToldHolds'
  <1> SUFFICES ASSUME client.told # None
               PROVE  /\ client.told.outcome = "Refused" => Refused(client.told.content)'
                      /\ client.told.outcome = "Applied" =>
                                client.told.content \in service'.ran
    BY DEF ToldHolds
  <1>1. ASSUME client.told.outcome = "Refused" PROVE Refused(client.told.content)'
    <2>1. PICK c \in FromHere : c = client.told.content /\ (Settles => NotStored(c))
      BY <1>1 DEF ToldHolds, Refused
    <2>2. c \in FromHere' /\ (Settles' => NotStored(c)')
      BY <2>1
    <2> QED
      BY <2>1, <2>2 DEF Refused, NotStored
  <1> QED
    BY <1>1 DEF ToldHolds

LEMMA OperationStays ==
    ASSUME ClientTypes, OperationHolds, Op' = Op, client'.told = client.told,
           \A r \in Nat, c \in Contents : Had(r, c) => Had(r, c)',
           FromHere \subseteq FromHere',
           During({"Replace"}) /\ service'.content = Op.content =>
               /\ service'.revision = Op.expected + 1
               /\ service'.digest = Op.digest \/ \E m \in Els(inbox)' : OwnerChanged(m)
    PROVE  OperationHolds'
  <1>1. \A s : During(s)' <=> During(s)
    BY DEF During
  <1>2. Op # None => client'.told = None
    BY DEF OperationHolds
  <1>3. During(Saves) => Had(Op.expected, Op.base)' /\ Op.content \in FromHere'
    <2> HAVE During(Saves)
    <2>1. PICK r \in Nat : r = Op.expected
      BY OperationIs
    <2>2. PICK c \in Contents : c = Op.base
      BY OperationIs
    <2>3. Had(r, c)' /\ Op.content \in FromHere'
      BY <2>1, <2>2 DEF OperationHolds
    <2> QED
      BY <2>1, <2>2, <2>3 DEF Had
  <1>4. During(Applies) => Had(Op.expected, Op.content)'
    <2> HAVE During(Applies)
    <2>1. PICK r \in Nat : r = Op.expected
      BY OperationIs
    <2>2. PICK c \in Contents : c = Op.content
      BY OperationIs
    <2>3. Had(r, c)'
      BY <2>1, <2>2 DEF OperationHolds
    <2> QED
      BY <2>1, <2>2, <2>3 DEF Had
  <1> QED
    BY <1>1, <1>2, <1>3, <1>4 DEF OperationHolds
-----------------------------------------------------------------------------
(* What the steps of the client leave true *)

LEMMA ClientKeeps ==
    ASSUME ClientTypes, ClientTypes', ServiceHolds, service' = service,
           operations' \in {operations, operations + 1},
           Els(inbox)' \subseteq Els(inbox),
           client'.properties.applied \in AppliedRevisions,
           Had(client'.snapshot.revision, client'.snapshot.content),
           HasRevision(client'.properties)
    PROVE  /\ ServiceHolds'
           /\ \A r \in Nat, c \in Contents : Had(r, c) => Had(r, c)'
           /\ FromHere \subseteq FromHere'
  <1>1. AppliedRevisions' \subseteq AppliedRevisions
    BY DEF AppliedRevisions
  <1>2. service.applied \in AppliedRevisions
    BY DEF AppliedRevisions
  <1>3. /\ \A r \in Nat, c \in Contents : Had(r, c) => Had(r, c)'
        /\ Had(service.revision, service.content)'
        /\ \A r \in AppliedRevisions' : r <= service'.revision
    BY <1>1, <1>2, HadStays
  <1>4. FromHere \subseteq FromHere'
    BY DEF FromHere, ClientTypes, Client!Mine
  <1>5. Had(client.snapshot.revision, client.snapshot.content)'
    <2>1. client'.snapshot.revision \in Nat /\ client'.snapshot.content \in Contents
      BY DEF ClientTypes, ClientType, SnapshotType
    <2> DEFINE r == client'.snapshot.revision
               c == client'.snapshot.content
    <2>2. Had(r, c)
      OBVIOUS
    <2> QED
      BY <2>1, <2>2, <1>1 DEF Had
  <1>6. HasRevision(client.properties)'
    BY DEF HasRevision
  <1> QED
    BY <1>3, <1>4, <1>5, <1>6 DEF ServiceHolds

LEMMA QuietHolds ==
    ASSUME ClientInv, ClientTypes', ServiceHolds',
           \A r \in Nat, c \in Contents : Had(r, c) => Had(r, c)',
           service' = service, operations' = operations,
           client'.operation = client.operation, client'.told = client.told,
           Els(inbox)' \subseteq Els(inbox), OneReply(inbox)', LastWaits(requests)',
           \A m \in Els(inbox) : OwnerChanged(m) => m \in Els(inbox)',
           \A m \in Els(requests)' : m \in Els(requests) \/ Client!IsRead(m)
    PROVE  ClientInv'
  <1> USE DEF ClientInv
  <1>1. Op' = Op /\ FromHere' = FromHere
    BY DEF Op, FromHere
  <1>2. Settles' => Settles
    BY DEF Settles
  <1>3. \A c : NotStored(c) => NotStored(c)'
    BY DEF NotStored, Client!IsRead, Client!ReadCalls
  <1>4. OperationHolds'
    <2>1. During({"Replace"}) /\ service'.content = Op.content =>
               /\ service'.revision = Op.expected + 1
               /\ service'.digest = Op.digest \/ \E m \in Els(inbox)' : OwnerChanged(m)
      BY DEF OperationHolds
    <2> QED
      BY <1>1, <2>1, OperationStays
  <1>5. ToldHolds'
    BY <1>1, <1>2, <1>3, ToldStays
  <1>6. Els(requests) \subseteq CallType /\ Els(inbox) \subseteq MessageType
    BY ElementsAre DEF ClientTypes
  <1>7. ASSUME NEW m \in Els(requests)' PROVE CallHolds(m)' /\ (Waiting(m) =>
                   m \in Els(requests))
    <2>1. CASE Client!IsRead(m)
      BY <2>1, ReadHolds
    <2>2. CASE m \in Els(requests)
      <3>1. m \in CallType /\ CallHolds(m) /\ Same(m, m)
        BY <2>2, <1>6, CallIs DEF BusHolds
      <3>2. During({"Replace"})' => During({"Replace"})
        BY <1>1 DEF During
      <3> QED
        BY <2>2, <3>1, <3>2, <1>1, CallStays
    <2> QED
      BY <2>1, <2>2
  <1>8. ASSUME NEW m \in Els(inbox)' PROVE MessageHolds(m)' /\ m \in Els(inbox)
    <2>1. m \in MessageType /\ MessageHolds(m)
      BY <1>6 DEF BusHolds
    <2> QED
      BY <2>1, <1>1, <1>2, <1>3, MessageStays
  <1>9. BusHolds'
    <2>1. \A m \in Els(requests)' : Waiting(m) => \A n \in Els(inbox)' : ~IsReply(n)
      BY <1>7, <1>8 DEF BusHolds
    <2> QED
      BY <2>1, <1>7, <1>8 DEF BusHolds
  <1> QED
    BY <1>4, <1>5, <1>9

\* An operation ends, or nothing is left of it: no reply is waited for.
LEMMA RestHolds ==
    ASSUME ClientInv, ClientTypes', ServiceHolds',
           \A r \in Nat, c \in Contents : Had(r, c) => Had(r, c)',
           FromHere \subseteq FromHere',
           service' = service, client'.operation = None,
           client'.told # None =>
               /\ \A m \in Els(inbox) : OwnerChanged(m) => m \in Els(inbox)'
               /\ client'.told.outcome = "Refused" => Refused(client'.told.content)
               /\ client'.told.outcome = "Applied" =>
                         client'.told.content \in service.ran,
           \A m \in Els(inbox)' : m \in Els(inbox) /\ ~IsReply(m),
           \A m \in Els(requests)' :
               ~Waiting(m) /\ (Client!IsRead(m) \/ \E n \in Els(requests) : Same(m, n))
    PROVE  ClientInv'
  <1> USE DEF ClientInv
  <1>1. Op' = None /\ \A s : ~During(s)'
    BY DEF Op, During
  <1>2. OperationHolds'
    BY <1>1 DEF OperationHolds
  <1>3. \A c : NotStored(c) => NotStored(c)'
    BY DEF NotStored, Client!IsRead, Client!ReadCalls, Same
  <1>4. ToldHolds'
    <2> SUFFICES ASSUME client'.told # None
                 PROVE  /\ client'.told.outcome = "Refused" =>
                                  Refused(client.told.content)'
                        /\ client'.told.outcome = "Applied" =>
                                  client'.told.content \in service'.ran
      BY DEF ToldHolds
    <2>1. Settles' => Settles
      BY DEF Settles
    <2>2. ASSUME client'.told.outcome = "Refused" PROVE Refused(client.told.content)'
      <3>1. PICK c \in FromHere : c = client'.told.content /\ (Settles => NotStored(c))
        BY <2>2 DEF Refused
      <3>2. Settles' => NotStored(c)'
        BY <3>1, <2>1, <1>3
      <3> QED
        BY <3>1, <3>2 DEF Refused, NotStored
    <2> QED
      BY <2>2
  <1>5. Els(requests) \subseteq CallType /\ Els(inbox) \subseteq MessageType
        /\ Els(requests)' \subseteq CallType
    BY ElementsAre DEF ClientTypes
  <1>6. ASSUME NEW m \in Els(requests)' PROVE CallHolds(m)'
    <2>1. CASE Client!IsRead(m)
      BY <2>1, ReadHolds
    <2>2. CASE ~Client!IsRead(m)
      <3>1. PICK n \in Els(requests) : Same(m, n)
        BY <2>2
      <3>2. m \in CallType /\ n \in CallType /\ CallHolds(n) /\ ~Waiting(m)
        BY <1>5 DEF BusHolds
      <3> QED
        BY <3>1, <3>2, <1>1, CallStays
    <2> QED
      BY <2>1, <2>2
  <1>7. ASSUME NEW m \in Els(inbox)' PROVE MessageHolds(m)'
    <2>1. m \in MessageType /\ MessageHolds(m) /\ ~IsReply(m)
      BY <1>5 DEF BusHolds
    <2>2. m.kind # "Replace" /\ m.kind # "SavedApply"
      BY <2>1 DEF IsReply, Client!IsSignal, Client!IsRead, Client!ReadCalls
    <2>3. HasSnapshot(m) => Had(m.snapshot.revision, m.snapshot.content)'
      <3> HAVE HasSnapshot(m)
      <3>1. m.snapshot.revision \in Nat /\ m.snapshot.content \in Contents
        BY <2>1, MessageIs DEF SnapshotType
      <3> QED
        BY <2>1, <3>1 DEF MessageHolds
    <2> QED
      BY <2>1, <2>2, <2>3 DEF MessageHolds
  <1>8. LastWaits(requests)' /\ OneReply(inbox)'
    BY DEF LastWaits, OneReply, Els
  <1>9. BusHolds'
    BY <1>6, <1>7, <1>8 DEF BusHolds
  <1> QED
    BY <1>2, <1>4, <1>9

\* An operation makes its call: nothing else is waited for.
Turned(call) ==
    /\ ClientTypes' /\ ServiceHolds' /\ service' = service
    /\ \A r \in Nat, c \in Contents : Had(r, c) => Had(r, c)'
    /\ FromHere \subseteq FromHere'
    /\ \A m \in Els(inbox)' : m \in Els(inbox) /\ ~IsReply(m)
    /\ \A m \in Els(inbox) : OwnerChanged(m) => m \in Els(inbox)'
    /\ \A m \in Els(requests)' :
           \/ m = call
           \/ ~Waiting(m) /\ (Client!IsRead(m) \/ \E n \in Els(requests) : Same(m, n))
    /\ LastWaits(requests)'

LEMMA TurnHolds ==
    ASSUME ClientInv, NEW call, Turned(call), client'.told = None,
           OperationHolds', CallHolds(call)',
           During({"Replace"})' =>
               \/ /\ During({"Replace"}) /\ Op'.content = Op.content
                  /\ Op'.expected = Op.expected /\ Op'.digest = Op.digest
               \/ Op'.content \notin FromHere
    PROVE  ClientInv'
  <1> USE DEF ClientInv, Turned
  <1>1. ToldHolds'
    BY DEF ToldHolds
  <1>2. Els(requests) \subseteq CallType /\ Els(inbox) \subseteq MessageType
        /\ Els(requests)' \subseteq CallType
    BY ElementsAre DEF ClientTypes
  <1>3. ASSUME NEW m \in Els(requests)' PROVE CallHolds(m)'
    <2>1. CASE m = call
      BY <2>1
    <2>2. CASE Client!IsRead(m)
      BY <2>2, ReadHolds
    <2>3. CASE m # call /\ ~Client!IsRead(m)
      <3>1. PICK n \in Els(requests) : Same(m, n)
        BY <2>3
      <3>2. m \in CallType /\ n \in CallType /\ CallHolds(n) /\ ~Waiting(m)
        BY <1>2, <2>3 DEF BusHolds
      <3> QED
        BY <3>1, <3>2, CallStays
    <2> QED
      BY <2>1, <2>2, <2>3
  <1>4. ASSUME NEW m \in Els(inbox)' PROVE MessageHolds(m)'
    <2>1. m \in MessageType /\ MessageHolds(m) /\ ~IsReply(m)
      BY <1>2 DEF BusHolds
    <2>2. m.kind # "Replace" /\ m.kind # "SavedApply"
      BY <2>1 DEF IsReply, Client!IsSignal, Client!IsRead, Client!ReadCalls
    <2>3. HasSnapshot(m) => Had(m.snapshot.revision, m.snapshot.content)'
      <3> HAVE HasSnapshot(m)
      <3>1. m.snapshot.revision \in Nat /\ m.snapshot.content \in Contents
        BY <2>1, MessageIs DEF SnapshotType
      <3> QED
        BY <2>1, <3>1 DEF MessageHolds
    <2> QED
      BY <2>1, <2>2, <2>3 DEF MessageHolds
  <1>5. OneReply(inbox)'
    BY DEF OneReply, Els
  <1>6. BusHolds'
    BY <1>3, <1>4, <1>5 DEF BusHolds
  <1> QED
    BY <1>1, <1>6

-----------------------------------------------------------------------------
(* What a handler makes of the client's state *)

LEMMA AppliedPropertiesAre ==
    ASSUME NEW c \in ClientType, NEW p \in PropertiesType
    PROVE  /\ Client!ApplyProperties(c, p) \in ClientType
           /\ Client!ApplyProperties(c, p).operation = c.operation
           /\ Client!ApplyProperties(c, p).told = c.told
           /\ Client!ApplyProperties(c, p).snapshot = c.snapshot
           /\ Client!ApplyProperties(c, p).properties = p
  <1> DEFINE t == IF Client!KeepsOwnership(c, p) THEN c.token ELSE None
             n == [c EXCEPT !.properties = p, !.digest = p.digest, !.token = t]
             o == [n EXCEPT !.option = None, !.optionReady = FALSE,
                            !.action = None, !.actionReady = FALSE,
                            !.complete = FALSE]
  <1>1. t \in Nat \cup {None} /\ p.digest \in Nat
    BY DEF ClientType, PropertiesType
  <1> HIDE DEF t
  <1>2. /\ n \in ClientType /\ n.operation = c.operation /\ n.told = c.told
        /\ n.snapshot = c.snapshot /\ n.properties = p
    BY <1>1 DEF ClientType
  <1> HIDE DEF n
  <1>3. /\ o \in ClientType /\ o.operation = n.operation /\ o.told = n.told
        /\ o.snapshot = n.snapshot /\ o.properties = n.properties
    BY <1>2 DEF ClientType
  <1>4. Client!ApplyProperties(c, p) = IF p.digest = c.digest THEN n ELSE o
    BY DEF Client!ApplyProperties, n, t
  <1> HIDE DEF o
  <1> QED
    BY <1>2, <1>3, <1>4

LEMMA NothingReadyIs ==
    ASSUME NEW c \in ClientType
    PROVE  /\ Client!NothingReady(c) \in ClientType
           /\ Client!NothingReady(c).operation = c.operation
           /\ Client!NothingReady(c).told = c.told
           /\ Client!NothingReady(c).snapshot = c.snapshot
           /\ Client!NothingReady(c).properties = c.properties
           /\ Client!Unavailable(c) \in ClientType
           /\ Client!Unavailable(c).operation = c.operation
           /\ Client!Unavailable(c).told = c.told
           /\ Client!Unavailable(c).snapshot = c.snapshot
           /\ Client!Unavailable(c).properties = c.properties
  <1>1. /\ Client!NothingReady(c) \in ClientType
        /\ Client!NothingReady(c).operation = c.operation
        /\ Client!NothingReady(c).told = c.told
        /\ Client!NothingReady(c).snapshot = c.snapshot
        /\ Client!NothingReady(c).properties = c.properties
    BY ZenonT(60) DEF Client!NothingReady, ClientType
  <1>2. /\ Client!Unavailable(c) \in ClientType
        /\ Client!Unavailable(c).operation = c.operation
        /\ Client!Unavailable(c).told = c.told
        /\ Client!Unavailable(c).snapshot = c.snapshot
        /\ Client!Unavailable(c).properties = c.properties
    BY ZenonT(60) DEF Client!Unavailable, ClientType
  <1> QED
    BY <1>1, <1>2

LEMMA ProjectedIs ==
    ASSUME NEW c \in ClientType
    PROVE  /\ Client!Projected(c) \in ClientType
           /\ Client!Projected(c).operation = c.operation
           /\ Client!Projected(c).told = c.told
           /\ Client!Projected(c).snapshot = c.snapshot
           /\ Client!Projected(c).properties = c.properties
  BY ZenonT(60) DEF Client!Projected, ClientType

LEMMA WithoutIs ==
    ASSUME NEW c \in ClientType, NEW kind \in Client!ReadCalls
    PROVE  LET w == Client!Without(c, kind)
           IN  /\ w \in ClientType /\ w.operation = c.operation /\ w.told = c.told
               /\ w.snapshot = c.snapshot /\ w.properties = c.properties
  <1> DEFINE Keeps(w) ==
                 /\ w \in ClientType /\ w.operation = c.operation /\ w.told = c.told
                 /\ w.snapshot = c.snapshot /\ w.properties = c.properties
  <1>1. Keeps(Client!Unavailable(c))
    BY NothingReadyIs
  <1>2. Keeps(Client!WithoutOptions(c))
    BY ZenonT(60) DEF Client!WithoutOptions, ClientType
  <1>3. Keeps(Client!WithoutActions(c))
    BY ZenonT(60) DEF Client!WithoutActions, ClientType
  <1>4. Keeps(Client!WithoutDisplays(c))
    BY ZenonT(60) DEF Client!WithoutDisplays, ClientType
  <1>5. Client!Without(c, kind) \in
            {Client!Unavailable(c), Client!WithoutOptions(c), Client!WithoutActions(c),
             Client!WithoutDisplays(c)}
    BY DEF Client!Without, Client!ReadCalls
  <1> HIDE DEF Keeps
  <1>6. Keeps(Client!Without(c, kind))
    BY <1>1, <1>2, <1>3, <1>4, <1>5
  <1> QED
    BY <1>6 DEF Keeps

LEMMA FinishedIs ==
    ASSUME NEW c \in ClientType, NEW outcome \in ToldType \cup {None}
    PROVE  LET f == [Client!Finished(c) EXCEPT !.told = outcome]
           IN  /\ f \in ClientType /\ f.operation = None /\ f.told = outcome
               /\ f.snapshot = c.snapshot /\ f.properties = c.properties
  <1> DEFINE g == Client!Finished(c)
             f == [g EXCEPT !.told = outcome]
  <1>1. /\ g \in ClientType /\ g.operation = None
        /\ g.snapshot = c.snapshot /\ g.properties = c.properties
    BY DEF Client!Finished, ClientType
  <1> HIDE DEF g
  <1>2. /\ f \in ClientType /\ f.operation = g.operation /\ f.told = outcome
        /\ f.snapshot = g.snapshot /\ f.properties = g.properties
    BY <1>1 DEF ClientType
  <1> QED
    BY <1>1, <1>2 DEF g

-----------------------------------------------------------------------------
(* The ways in which a step of the client ends *)

\* What may be said of a client that has read c.
Shows(c) ==
    /\ c.properties.applied \in AppliedRevisions
    /\ Had(c.snapshot.revision, c.snapshot.content)
    /\ HasRevision(c.properties)

LEMMA ShowsAsBefore ==
    ASSUME ServiceHolds
    PROVE  Shows(client)
  BY DEF ServiceHolds, Shows, AppliedRevisions

\* A message that is taken off the inbox.
LEMMA TakenIs ==
    ASSUME ClientTypes, BusHolds, inbox # <<>>
    PROVE  /\ Head(inbox) \in MessageType /\ Tail(inbox) \in Seq(MessageType)
           /\ Els(Tail(inbox)) \subseteq Els(inbox)
           /\ Head(inbox) \in Els(inbox) /\ MessageHolds(Head(inbox))
           /\ OneReply(Tail(inbox))
           /\ \A m \in Els(inbox) : m = Head(inbox) \/ m \in Els(Tail(inbox))
           /\ IsReply(Head(inbox)) => \A m \in Els(Tail(inbox)) : ~IsReply(m)
           /\ IsReply(Head(inbox)) => \A m \in Els(requests) : ~Waiting(m)
  <1> DEFINE t == Tail(inbox)
             n == Len(inbox)
  <1>1. /\ Head(inbox) \in MessageType /\ t \in Seq(MessageType)
        /\ n \in Nat \ {0} /\ DOMAIN inbox = 1..n
        /\ DOMAIN t = 1..(n - 1)
        /\ \A i \in 1..(n - 1) : t[i] = inbox[i + 1]
        /\ Head(inbox) = inbox[1]
        /\ Head(inbox) \in Els(inbox)
        /\ Els(t) \subseteq Els(inbox)
        /\ \A m \in Els(inbox) : m = Head(inbox) \/ m \in Els(t)
    BY TailIs DEF ClientTypes
  <1> HIDE DEF t, n
  <1>2. \A i \in 1..(n - 1) : i + 1 \in 1..n /\ 1 < i + 1 /\ 1 \in 1..n
    BY <1>1
  <1>3. \A i, j \in 1..(n - 1) : i < j => i + 1 < j + 1
    BY <1>1
  <1>4. OneReply(t)
    BY <1>1, <1>2, <1>3 DEF BusHolds, OneReply
  <1>5. IsReply(Head(inbox)) => \A m \in Els(t) : ~IsReply(m)
    BY <1>1, <1>2 DEF BusHolds, OneReply, Els
  <1> QED
    BY <1>1, <1>4, <1>5 DEF BusHolds, t

LEMMA NothingWaits ==
    ASSUME BusHolds, Op = None
    PROVE  /\ \A m \in Els(requests) : ~Waiting(m)
           /\ \A m \in Els(inbox) : ~IsReply(m)
  BY DEF BusHolds, CallHolds, MessageHolds, During

LEMMA ContinueHolds ==
    ASSUME ClientInv, NEW c \in ClientType, NEW calls \in Seq(CallType),
           Client!Continue(c, calls), inbox # <<>>, ~OwnerChanged(Head(inbox)),
           \A m \in Els(calls) : Client!IsRead(m),
           c.operation = client.operation, c.told = client.told, Shows(c)
    PROVE  ClientInv'
  <1> USE DEF ClientInv
  <1>1. /\ client' = c /\ inbox' = Tail(inbox) /\ requests' = requests \o calls
        /\ service' = service /\ operations' = operations
        /\ disturbances' = disturbances
    BY DEF Client!Continue, Client!begun
  <1>2. /\ Head(inbox) \in MessageType /\ inbox' \in Seq(MessageType)
        /\ Els(inbox)' \subseteq Els(inbox) /\ OneReply(inbox)'
        /\ \A m \in Els(inbox) : m = Head(inbox) \/ m \in Els(inbox)'
    BY <1>1, TakenIs
  <1>3. LastWaits(calls)
    BY DEF LastWaits, Waiting, Els
  <1>4. /\ requests' \in Seq(CallType) /\ Els(requests)' = Els(requests) \cup Els(calls)
        /\ LastWaits(requests)'
    <2> DEFINE r == requests \o calls
    <2>1. r \in Seq(CallType) /\ Els(r) = Els(requests) \cup Els(calls) /\ LastWaits(r)
      BY <1>3, ConcatIs DEF ClientTypes, BusHolds
    <2> HIDE DEF r
    <2> QED
      BY <2>1, <1>1 DEF r
  <1>5. ClientTypes'
    BY <1>1, <1>2, <1>4 DEF ClientTypes
  <1>6. /\ ServiceHolds'
        /\ \A r \in Nat, x \in Contents : Had(r, x) => Had(r, x)'
    BY <1>1, <1>2, <1>5, ClientKeeps DEF Shows
  <1> QED
    BY <1>1, <1>2, <1>4, <1>5, <1>6, QuietHolds

\* Nothing is waited for, and everything is read again.
LEMMA ReadsAgainHolds ==
    ASSUME ClientInv, NEW c \in ClientType, NEW rest \in Seq(MessageType),
           Client!Refreshed(c, rest), UNCHANGED <<service, disturbances>>,
           operations' \in {operations, operations + 1} \cap (0..MaxOperation),
           Els(rest) \subseteq Els(inbox),
           \A m \in Els(inbox) : OwnerChanged(m) => m \in Els(rest),
           \A m \in Els(requests) : ~Waiting(m), \A m \in Els(rest) : ~IsReply(m),
           c.operation = None, Shows(c),
           c.told # None =>
               /\ c.told.outcome = "Refused" => Refused(c.told.content)
               /\ c.told.outcome = "Applied" => c.told.content \in service.ran
    PROVE  ClientInv'
  <1> USE DEF ClientInv
  <1> DEFINE get == Client!Read("GetAll")
             i == Client!Superseded(rest)
             q == Client!Superseded(requests)
             r == Append(q, get)
  <1>1. client' = Client!NothingReady(c) /\ inbox' = i /\ requests' = r
    BY DEF Client!Refreshed
  <1>2. /\ client' \in ClientType /\ client'.operation = None /\ client'.told = c.told
        /\ client'.snapshot = c.snapshot /\ client'.properties = c.properties
    BY <1>1, NothingReadyIs
  <1>3. i \in Seq(MessageType) /\ Els(i) = {m \in Els(rest) : ~Client!IsRead(m)}
    BY SupersededIs
  <1>4. q \in Seq(CallType) /\ Els(q) = {m \in Els(requests) : ~Client!IsRead(m)}
    BY SupersededIs DEF ClientTypes
  <1> HIDE DEF i, q
  <1>5. get \in CallType /\ Client!IsRead(get)
    BY ReadIs DEF Client!ReadCalls
  <1> HIDE DEF get
  <1>6. r \in Seq(CallType) /\ Els(r) = Els(q) \cup {get}
    BY <1>4, <1>5, AppendIs
  <1> HIDE DEF r
  <1>7. ClientTypes'
    BY <1>1, <1>2, <1>3, <1>6 DEF ClientTypes
  <1>8. Els(inbox)' = Els(i) /\ Els(requests)' = Els(r)
    BY <1>1 DEF Els
  <1>9. Els(inbox)' \subseteq Els(inbox)
    BY <1>3, <1>8
  <1>10. /\ ServiceHolds'
         /\ \A y \in Nat, x \in Contents : Had(y, x) => Had(y, x)'
         /\ FromHere \subseteq FromHere'
    BY <1>2, <1>7, <1>9, ClientKeeps DEF Shows
  <1>11. \A m \in Els(inbox) : OwnerChanged(m) => m \in Els(inbox)'
    BY <1>3, <1>8 DEF OwnerChanged, Client!IsRead, Client!ReadCalls
  <1>12. \A m \in Els(inbox)' : m \in Els(inbox) /\ ~IsReply(m)
    BY <1>3, <1>8
  <1>13. Els(requests) \subseteq CallType
    BY ElementsAre DEF ClientTypes
  <1>14. ASSUME NEW m \in Els(requests)'
         PROVE  ~Waiting(m) /\ (Client!IsRead(m) \/ \E n \in Els(requests) : Same(m, n))
    <2>1. m = get \/ m \in Els(requests)
      BY <1>4, <1>6, <1>8
    <2> QED
      BY <2>1, <1>5, <1>13, CallIs DEF Waiting
  <1> QED
    BY <1>2, <1>7, <1>10, <1>11, <1>12, <1>14, RestHolds

LEMMA RefreshedHolds ==
    ASSUME ClientInv, NEW c \in ClientType, Client!Refreshed(c, Tail(inbox)),
           UNCHANGED <<service, operations, disturbances>>, inbox # <<>>,
           Op = None \/ IsReply(Head(inbox)), ~OwnerChanged(Head(inbox)),
           c.operation = None, Shows(c),
           c.told # None =>
               /\ c.told.outcome = "Refused" => Refused(c.told.content)
               /\ c.told.outcome = "Applied" => c.told.content \in service.ran
    PROVE  ClientInv'
  <1> USE DEF ClientInv
  <1> DEFINE t == Tail(inbox)
  <1>1. /\ t \in Seq(MessageType) /\ Els(t) \subseteq Els(inbox)
        /\ \A m \in Els(inbox) : m = Head(inbox) \/ m \in Els(t)
        /\ \A m \in Els(requests) : ~Waiting(m)
        /\ \A m \in Els(t) : ~IsReply(m)
    BY TakenIs, NothingWaits
  <1>2. Client!Refreshed(c, t)
    OBVIOUS
  <1> HIDE DEF t
  <1>3. operations' \in {operations, operations + 1} \cap (0..MaxOperation)
    BY DEF ClientTypes
  <1> QED
    BY <1>1, <1>2, <1>3, ReadsAgainHolds

\* An operation ends with the reply to its last call.
LEMMA EndsHolds ==
    ASSUME ClientInv, NEW c \in ClientType, NEW outcome \in ToldType,
           Client!Ends(c, outcome), inbox # <<>>, IsReply(Head(inbox)), Shows(c),
           outcome.outcome = "Refused" => Refused(outcome.content),
           outcome.outcome = "Applied" => outcome.content \in service.ran
    PROVE  ClientInv'
  <1> DEFINE f == [Client!Finished(c) EXCEPT !.told = outcome]
  <1>1. /\ f \in ClientType /\ f.operation = None /\ f.told = outcome
        /\ f.snapshot = c.snapshot /\ f.properties = c.properties
    BY FinishedIs
  <1>2. Client!Refresh(f)
    BY DEF Client!Ends
  <1> HIDE DEF f
  <1>3. /\ Client!Refreshed(f, Tail(inbox))
        /\ UNCHANGED <<service, operations, disturbances>>
    BY <1>1, <1>2 DEF Client!Refresh, Client!begun
  <1>4. Shows(f)
    BY <1>1 DEF Shows
  <1>5. ~OwnerChanged(Head(inbox))
    BY DEF IsReply, OwnerChanged, Client!IsSignal
  <1> QED
    BY <1>1, <1>3, <1>4, <1>5, RefreshedHolds

\* It ends without an answer: nothing that is asked will be taken for one.
LEMMA GivenUpHolds ==
    ASSUME ClientInv, NEW c \in ClientType, NEW outcome \in ToldType,
           Client!GiveUpAndRefresh(c, outcome), Shows(c),
           outcome.outcome = "Refused" => Refused(outcome.content),
           outcome.outcome = "Applied" => outcome.content \in service.ran
    PROVE  ClientInv'
  <1> USE DEF ClientInv
  <1> DEFINE get == Client!Read("GetAll")
             f == [Client!Finished(c) EXCEPT !.told = outcome]
             i == Client!Signals(inbox)
             g == Client!GivenUp(requests)
             q == Client!Superseded(g)
             r == Append(q, get)
  <1>1. /\ client' = Client!NothingReady(f) /\ inbox' = i /\ requests' = r
        /\ service' = service /\ operations' = operations
        /\ disturbances' = disturbances
    BY DEF Client!GiveUpAndRefresh, Client!begun
  <1>2. /\ f \in ClientType /\ f.operation = None /\ f.told = outcome
        /\ f.snapshot = c.snapshot /\ f.properties = c.properties
    BY FinishedIs
  <1> HIDE DEF f
  <1>3. /\ client' \in ClientType /\ client'.operation = None /\ client'.told = outcome
        /\ client'.snapshot = c.snapshot /\ client'.properties = c.properties
    BY <1>1, <1>2, NothingReadyIs
  <1>4. i \in Seq(MessageType) /\ Els(i) = {m \in Els(inbox) : Client!IsSignal(m)}
    BY SignalsAre DEF ClientTypes
  <1>5. /\ g \in Seq(CallType)
        /\ \A m \in Els(g) : ~Waiting(m) /\ \E n \in Els(requests) : Same(m, n)
    BY GivenUpIs DEF ClientTypes
  <1> HIDE DEF g
  <1>6. q \in Seq(CallType) /\ Els(q) \subseteq Els(g)
    BY <1>5, SupersededIs
  <1> HIDE DEF i, q
  <1>7. get \in CallType /\ Client!IsRead(get)
    BY ReadIs DEF Client!ReadCalls
  <1> HIDE DEF get
  <1>9. r \in Seq(CallType) /\ Els(r) = Els(q) \cup {get}
    BY <1>6, <1>7, AppendIs
  <1> HIDE DEF r
  <1>10. ClientTypes'
    BY <1>1, <1>3, <1>4, <1>9 DEF ClientTypes
  <1>11. Els(inbox)' = Els(i) /\ Els(requests)' = Els(r)
    BY <1>1 DEF Els
  <1>12. Els(inbox)' \subseteq Els(inbox)
    BY <1>4, <1>11
  <1>13. /\ ServiceHolds'
         /\ \A y \in Nat, x \in Contents : Had(y, x) => Had(y, x)'
         /\ FromHere \subseteq FromHere'
    BY <1>1, <1>3, <1>10, <1>12, ClientKeeps DEF Shows
  <1>14. \A m \in Els(inbox) : OwnerChanged(m) => m \in Els(inbox)'
    BY <1>4, <1>11 DEF OwnerChanged, Client!IsSignal
  <1>15. \A m \in Els(inbox)' : m \in Els(inbox) /\ ~IsReply(m)
    BY <1>4, <1>11 DEF IsReply
  <1>16. \A m \in Els(requests)' :
            ~Waiting(m) /\ (Client!IsRead(m) \/ \E n \in Els(requests) : Same(m, n))
    BY <1>5, <1>6, <1>7, <1>9, <1>11 DEF Waiting
  <1> QED
    BY <1>1, <1>3, <1>10, <1>13, <1>14, <1>15, <1>16, RestHolds

\* The next call after one that was given up.
LEMMA GiveUpTurns ==
    ASSUME ClientInv, NEW c \in ClientType, NEW call \in CallType,
           Client!GiveUp(c, <<call>>), Shows(c)
    PROVE  Turned(call)
  <1> USE DEF ClientInv
  <1> DEFINE i == Client!ReadsAndSignals(inbox)
             g == Client!GivenUp(requests)
             r == Append(g, call)
  <1>1. /\ client' = c /\ inbox' = i /\ requests' = g \o <<call>>
        /\ service' = service /\ operations' = operations
        /\ disturbances' = disturbances
    BY DEF Client!GiveUp, Client!begun
  <1>2. i \in Seq(MessageType) /\ Els(i) = {m \in Els(inbox) : ~IsReply(m)}
    BY ReadsAndSignalsAre DEF ClientTypes
  <1>3. /\ g \in Seq(CallType)
        /\ \A m \in Els(g) : ~Waiting(m) /\ \E n \in Els(requests) : Same(m, n)
        /\ LastWaits(g)
    BY GivenUpIs DEF ClientTypes
  <1> HIDE DEF i, g
  <1>4. requests' = r
    BY <1>1, <1>3, SingleIs
  <1>5. r \in Seq(CallType) /\ Els(r) = Els(g) \cup {call} /\ LastWaits(r)
    BY <1>3, AppendIs, AppendKeeps
  <1> HIDE DEF r
  <1>6. ClientTypes'
    BY <1>1, <1>2, <1>4, <1>5 DEF ClientTypes
  <1>7. Els(inbox)' = Els(i) /\ Els(requests)' = Els(r) /\ LastWaits(requests)'
    BY <1>1, <1>4, <1>5 DEF Els, LastWaits
  <1>8. Els(inbox)' \subseteq Els(inbox)
    BY <1>2, <1>7
  <1>9. /\ ServiceHolds'
        /\ \A y \in Nat, x \in Contents : Had(y, x) => Had(y, x)'
        /\ FromHere \subseteq FromHere'
    BY <1>1, <1>6, <1>8, ClientKeeps DEF Shows
  <1>10. \A m \in Els(inbox) : OwnerChanged(m) => m \in Els(inbox)'
    BY <1>2, <1>7 DEF OwnerChanged, IsReply, Client!IsSignal
  <1> QED
    BY <1>1, <1>2, <1>3, <1>4, <1>5, <1>6, <1>7, <1>9, <1>10 DEF Turned

\* The next call after an answer.
LEMMA ContinueTurns ==
    ASSUME ClientInv, NEW c \in ClientType, NEW call \in CallType,
           Client!Continue(c, <<call>>), inbox # <<>>, IsReply(Head(inbox)), Shows(c)
    PROVE  Turned(call)
  <1> USE DEF ClientInv
  <1> DEFINE t == Tail(inbox)
             r == Append(requests, call)
  <1>1. /\ client' = c /\ inbox' = t /\ requests' = requests \o <<call>>
        /\ service' = service /\ operations' = operations
        /\ disturbances' = disturbances
    BY DEF Client!Continue, Client!begun
  <1>2. /\ t \in Seq(MessageType) /\ Els(t) \subseteq Els(inbox)
        /\ \A m \in Els(inbox) : m = Head(inbox) \/ m \in Els(t)
        /\ \A m \in Els(requests) : ~Waiting(m)
        /\ \A m \in Els(t) : ~IsReply(m)
    BY TakenIs
  <1> HIDE DEF t
  <1>3. /\ requests \in Seq(CallType) /\ LastWaits(requests)
        /\ Els(requests) \subseteq CallType
    BY ElementsAre DEF ClientTypes, BusHolds
  <1>4. requests' = r
    BY <1>1, <1>3, SingleIs
  <1>5. r \in Seq(CallType) /\ Els(r) = Els(requests) \cup {call} /\ LastWaits(r)
    BY <1>2, <1>3, AppendIs, AppendKeeps
  <1> HIDE DEF r
  <1>6. ClientTypes'
    BY <1>1, <1>2, <1>4, <1>5 DEF ClientTypes
  <1>7. Els(inbox)' = Els(t) /\ Els(requests)' = Els(r) /\ LastWaits(requests)'
    BY <1>1, <1>4, <1>5 DEF Els, LastWaits
  <1>8. Els(inbox)' \subseteq Els(inbox)
    BY <1>2, <1>7
  <1>9. /\ ServiceHolds'
        /\ \A y \in Nat, x \in Contents : Had(y, x) => Had(y, x)'
        /\ FromHere \subseteq FromHere'
    BY <1>1, <1>6, <1>8, ClientKeeps DEF Shows
  <1>10. \A m \in Els(inbox) : OwnerChanged(m) => m \in Els(inbox)'
    BY <1>2, <1>7 DEF OwnerChanged, IsReply, Client!IsSignal
  <1>11. \A m \in Els(requests) : \E n \in Els(requests) : Same(m, n)
    BY <1>3, CallIs
  <1> QED
    BY <1>1, <1>2, <1>4, <1>5, <1>6, <1>7, <1>9, <1>10, <1>11 DEF Turned

\* The first call of an operation.
LEMMA BeginTurns ==
    ASSUME ClientInv, NEW operation \in OperationType, NEW call \in CallType,
           Op = None, Client!Begin(operation, call)
    PROVE  /\ Turned(call)
           /\ client'.operation = operation /\ client'.told = None
           /\ operations' = operations + 1
  <1> USE DEF ClientInv
  <1> DEFINE c == [client EXCEPT !.operation = operation, !.told = None]
             r == Append(requests, call)
  <1>1. /\ client' = c /\ inbox' = inbox /\ requests' = r
        /\ service' = service /\ operations' = operations + 1 /\ operations < MaxOperation
        /\ disturbances' = disturbances
    BY DEF Client!Begin
  <1>2. /\ c \in ClientType /\ c.operation = operation /\ c.told = None
        /\ c.properties = client.properties /\ c.snapshot = client.snapshot
    BY DEF ClientTypes, ClientType
  <1> HIDE DEF c
  <1>3. /\ \A m \in Els(requests) : ~Waiting(m)
        /\ \A m \in Els(inbox) : ~IsReply(m)
    BY NothingWaits
  <1>4. /\ requests \in Seq(CallType) /\ LastWaits(requests)
        /\ Els(requests) \subseteq CallType
    BY ElementsAre DEF ClientTypes, BusHolds
  <1>6. r \in Seq(CallType) /\ Els(r) = Els(requests) \cup {call} /\ LastWaits(r)
    BY <1>3, <1>4, AppendIs, AppendKeeps
  <1> HIDE DEF r
  <1>7. operations' \in 0..MaxOperation
    BY <1>1, ClientAssumption DEF ClientTypes
  <1>8. ClientTypes'
    BY <1>1, <1>2, <1>6, <1>7 DEF ClientTypes
  <1>9. Els(inbox)' = Els(inbox) /\ Els(requests)' = Els(r) /\ LastWaits(requests)'
    BY <1>1, <1>6 DEF Els, LastWaits
  <1>10. /\ ServiceHolds'
         /\ \A y \in Nat, x \in Contents : Had(y, x) => Had(y, x)'
         /\ FromHere \subseteq FromHere'
    BY <1>1, <1>2, <1>8, <1>9, ShowsAsBefore, ClientKeeps DEF Shows
  <1>11. \A m \in Els(requests) : \E n \in Els(requests) : Same(m, n)
    BY <1>4, CallIs
  <1> QED
    BY <1>1, <1>2, <1>3, <1>6, <1>8, <1>9, <1>10, <1>11 DEF Turned

-----------------------------------------------------------------------------
(* The handlers of signals and reads *)

StepNames ==
    /\ Client!ReadCalls \cap Client!Steps = {}
    /\ \A m : m.kind \in Client!Steps => IsReply(m) /\ ~OwnerChanged(m)
    /\ \A m : m.kind \in Client!ReadCalls \cup {"PropertiesChanged"} => ~OwnerChanged(m)

LEMMA NamesDiffer == StepNames
  BY DEF StepNames, Client!ReadCalls, Client!Steps, IsReply, OwnerChanged,
         Client!IsSignal, Client!IsRead

\* A message with properties is of what the service had.
LEMMA PropertiesReceived ==
    ASSUME ClientInv, inbox # <<>>, HasProperties(Head(inbox)), NEW c \in ClientType,
           c.snapshot = client.snapshot
    PROVE  /\ Head(inbox).properties \in PropertiesType
           /\ Client!ApplyProperties(c, Head(inbox).properties) \in ClientType
           /\ Client!ApplyProperties(c, Head(inbox).properties).operation = c.operation
           /\ Client!ApplyProperties(c, Head(inbox).properties).told = c.told
           /\ Client!ApplyProperties(c, Head(inbox).properties).properties
                  = Head(inbox).properties
           /\ Client!ApplyProperties(c, Head(inbox).properties).snapshot = client.snapshot
           /\ Shows(Client!ApplyProperties(c, Head(inbox).properties))
  <1> USE DEF ClientInv
  <1> DEFINE m == Head(inbox)
             n == Client!ApplyProperties(c, m.properties)
  <1>1. m \in MessageType /\ m \in Els(inbox) /\ MessageHolds(m)
    BY TakenIs
  <1>2. m.properties \in PropertiesType /\ HasRevision(m.properties)
    BY <1>1, MessageIs DEF MessageHolds
  <1>3. m.properties.applied \in AppliedRevisions
    BY <1>1 DEF AppliedRevisions
  <1> HIDE DEF m
  <1>4. /\ n \in ClientType /\ n.operation = c.operation /\ n.told = c.told
        /\ n.snapshot = c.snapshot /\ n.properties = m.properties
    BY <1>2, AppliedPropertiesAre
  <1> HIDE DEF n
  <1>5. Shows(n)
    BY <1>2, <1>3, <1>4 DEF Shows, ServiceHolds
  <1> QED
    BY <1>2, <1>4, <1>5 DEF n, m

LEMMA NoCalls ==
    /\ <<>> \in Seq(CallType)
    /\ \A m \in Els(<<>>) : Client!IsRead(m)
    /\ requests \in Seq(CallType) => requests \o <<>> = requests
  BY EmptyIs

LEMMA ReadCall ==
    ASSUME NEW kind \in Client!ReadCalls
    PROVE  /\ <<Client!Read(kind)>> \in Seq(CallType)
           /\ \A m \in Els(<<Client!Read(kind)>>) : Client!IsRead(m)
  <1> DEFINE m == Client!Read(kind)
  <1>1. m \in CallType /\ Client!IsRead(m)
    BY ReadIs
  <1> HIDE DEF m
  <1>2. <<m>> \in Seq(CallType) /\ Els(<<m>>) = {m}
    BY <1>1, SingleIs
  <1> QED
    BY <1>1, <1>2 DEF m

LEMMA PropertiesChangedKeeps ==
    ASSUME ClientInv, Client!PropertiesChanged
    PROVE  ClientInv'
  <1> USE DEF ClientInv
  <1> DEFINE n == Client!ApplyProperties(client, Head(inbox).properties)
  <1>1. inbox # <<>> /\ Head(inbox).kind = "PropertiesChanged"
    BY DEF Client!PropertiesChanged, Client!Message
  <1>2. HasProperties(Head(inbox)) /\ ~OwnerChanged(Head(inbox))
    BY <1>1 DEF HasProperties, OwnerChanged
  <1>3. /\ n \in ClientType /\ n.operation = client.operation /\ n.told = client.told
        /\ Shows(n)
    BY <1>1, <1>2, PropertiesReceived DEF ClientTypes
  <1>4. \/ Client!Refresh(n)
        \/ Client!Continue(n, <<>>)
    BY DEF Client!PropertiesChanged
  <1> HIDE DEF n
  <1>5. requests \o <<>> = requests
    BY NoCalls DEF ClientTypes
  <1>6. CASE Client!Continue(n, <<>>) \/ n.operation # None
    <2>1. Client!Continue(n, <<>>)
      BY <1>4, <1>5, <1>6 DEF Client!Refresh, Client!Continue
    <2> QED
      BY <2>1, <1>1, <1>2, <1>3, NoCalls, ContinueHolds
  <1>7. CASE ~Client!Continue(n, <<>>) /\ n.operation = None
    <2>1. /\ Client!Refreshed(n, Tail(inbox))
          /\ UNCHANGED <<service, operations, disturbances>>
      BY <1>4, <1>7 DEF Client!Refresh, Client!begun
    <2>2. Op = None
      BY <1>3, <1>7 DEF Op
    <2>3. n.told # None =>
              /\ n.told.outcome = "Refused" => Refused(n.told.content)
              /\ n.told.outcome = "Applied" => n.told.content \in service.ran
      BY <1>3 DEF ToldHolds
    <2> QED
      BY <2>1, <2>2, <2>3, <1>1, <1>2, <1>3, <1>7, RefreshedHolds
  <1> QED
    BY <1>6, <1>7

LEMMA ServiceOwnerChangedKeeps ==
    ASSUME ClientInv, Client!ServiceOwnerChanged
    PROVE  ClientInv'
  <1> USE DEF ClientInv
  <1> DEFINE get == Client!Read("GetAll")
             f == [Client!NothingReady(Client!Finished(client)) EXCEPT
                       !.option = None, !.action = None, !.token = None,
                       !.properties.preview = None,
                       !.told = None]
             t == Tail(inbox)
             i == Client!Signals(t)
             g == Client!GivenUp(requests)
             q == Client!Superseded(g)
             r == Append(q, get)
  <1>1. /\ client' = f /\ inbox' = i /\ requests' \in {r, q}
        /\ service' = service /\ operations' = operations
        /\ disturbances' = disturbances /\ inbox # <<>>
    BY DEF Client!ServiceOwnerChanged, Client!begun, Client!Message
  <1>2. /\ f \in ClientType /\ f.operation = None /\ f.told = None
        /\ f.snapshot = client.snapshot
        /\ f.properties.applied = client.properties.applied
        /\ f.properties.available = client.properties.available
        /\ f.properties.revision = client.properties.revision
    <2> DEFINE a == Client!NothingReady(Client!Finished(client))
               p == [client.properties EXCEPT !.preview = None]
    <2>1. /\ a \in ClientType /\ a.operation = None /\ a.snapshot = client.snapshot
          /\ a.properties = client.properties
      BY ZenonT(60) DEF ClientTypes, ClientType, Client!NothingReady, Client!Finished
    <2> HIDE DEF a
    <2>2. client.properties \in PropertiesType
      BY DEF ClientTypes, ClientType
    <2>3. /\ p \in PropertiesType /\ p.applied = client.properties.applied
          /\ p.available = client.properties.available
          /\ p.revision = client.properties.revision
      BY <2>2 DEF PropertiesType
    <2>4. f = [a EXCEPT !.option = None, !.action = None, !.token = None,
                        !.properties = p, !.told = None]
      BY <2>1 DEF ClientType, a
    <2> HIDE DEF p
    <2> QED
      BY ZenonT(60), <2>1, <2>3, <2>4 DEF ClientType
  <1> HIDE DEF f
  <1>3. t \in Seq(MessageType) /\ Els(t) \subseteq Els(inbox)
    BY <1>1, TakenIs
  <1> HIDE DEF t
  <1>4. i \in Seq(MessageType) /\ Els(i) = {m \in Els(t) : Client!IsSignal(m)}
    BY <1>3, SignalsAre
  <1>5. /\ g \in Seq(CallType)
        /\ \A m \in Els(g) : ~Waiting(m) /\ \E n \in Els(requests) : Same(m, n)
    BY GivenUpIs DEF ClientTypes
  <1> HIDE DEF g
  <1>6. q \in Seq(CallType) /\ Els(q) \subseteq Els(g)
    BY <1>5, SupersededIs
  <1> HIDE DEF i, q
  <1>7. get \in CallType /\ Client!IsRead(get)
    BY ReadIs DEF Client!ReadCalls
  <1> HIDE DEF get
  <1>9. r \in Seq(CallType) /\ Els(r) = Els(q) \cup {get}
    BY <1>6, <1>7, AppendIs
  <1> HIDE DEF r
  <1>10. ClientTypes'
    BY <1>1, <1>2, <1>4, <1>6, <1>9 DEF ClientTypes
  <1>11. Els(inbox)' = Els(i) /\ Els(requests)' \subseteq Els(q) \cup {get}
    BY <1>1, <1>9 DEF Els
  <1>12. Els(inbox)' \subseteq Els(inbox)
    BY <1>3, <1>4, <1>11
  <1>13. Shows(client')
    BY <1>1, <1>2, ShowsAsBefore DEF Shows, HasRevision
  <1>14. /\ ServiceHolds'
         /\ \A y \in Nat, x \in Contents : Had(y, x) => Had(y, x)'
         /\ FromHere \subseteq FromHere'
    BY <1>1, <1>10, <1>12, <1>13, ClientKeeps DEF Shows
  <1>15. \A m \in Els(inbox)' : m \in Els(inbox) /\ ~IsReply(m)
    BY <1>3, <1>4, <1>11 DEF IsReply
  <1>16. \A m \in Els(requests)' :
            ~Waiting(m) /\ (Client!IsRead(m) \/ \E n \in Els(requests) : Same(m, n))
    BY <1>5, <1>6, <1>7, <1>11 DEF Waiting
  <1> QED
    BY <1>1, <1>2, <1>10, <1>14, <1>15, <1>16, RestHolds

LEMMA HydratePropertiesKeeps ==
    ASSUME ClientInv, Client!HydrateProperties
    PROVE  ClientInv'
  <1> USE DEF ClientInv
  <1> DEFINE n == Client!ApplyProperties(client, Head(inbox).properties)
             u == Client!Unavailable(n)
             get == <<Client!Read("GetSnapshot")>>
  <1>1. inbox # <<>> /\ Head(inbox).kind = "GetAll"
    BY DEF Client!HydrateProperties, Client!Message
  <1>2. HasProperties(Head(inbox)) /\ ~OwnerChanged(Head(inbox))
    BY <1>1 DEF HasProperties, OwnerChanged
  <1>3. /\ n \in ClientType /\ n.operation = client.operation /\ n.told = client.told
        /\ Shows(n)
    BY <1>1, <1>2, PropertiesReceived DEF ClientTypes
  <1>4. Client!Continue(n, get) \/ Client!Continue(u, <<>>)
    BY DEF Client!HydrateProperties
  <1> HIDE DEF n
  <1>5. /\ u \in ClientType /\ u.operation = client.operation /\ u.told = client.told
        /\ Shows(u)
    BY <1>3, NothingReadyIs DEF Shows
  <1>6. get \in Seq(CallType) /\ \A m \in Els(get) : Client!IsRead(m)
    BY ReadCall DEF Client!ReadCalls
  <1> HIDE DEF u, get
  <1>7. CASE Client!Continue(n, get)
    BY <1>7, <1>1, <1>2, <1>3, <1>6, ContinueHolds
  <1>8. CASE Client!Continue(u, <<>>)
    BY <1>8, <1>1, <1>2, <1>5, NoCalls, ContinueHolds
  <1> QED
    BY <1>4, <1>7, <1>8

LEMMA MissingCatalogsAre ==
    ASSUME NEW c
    PROVE  LET calls == Append(Client!MissingCatalogs(c), Client!Read("GetConnectedDisplays"))
           IN  calls \in Seq(CallType) /\ \A m \in Els(calls) : Client!IsRead(m)
  <1> DEFINE a == IF c.option = c.digest THEN <<>> ELSE <<Client!Read("GetOptionCatalog")>>
             b == IF c.action = c.digest THEN <<>> ELSE <<Client!Read("GetActionCatalog")>>
             d == Client!Read("GetConnectedDisplays")
             ab == a \o b
             calls == Append(ab, d)
  <1>1. a \in Seq(CallType) /\ \A m \in Els(a) : Client!IsRead(m)
    BY ReadCall, NoCalls DEF Client!ReadCalls
  <1>2. b \in Seq(CallType) /\ \A m \in Els(b) : Client!IsRead(m)
    BY ReadCall, NoCalls DEF Client!ReadCalls
  <1>3. d \in CallType /\ Client!IsRead(d)
    BY ReadIs DEF Client!ReadCalls
  <1>4. Client!MissingCatalogs(c) = ab
    BY DEF Client!MissingCatalogs
  <1> HIDE DEF a, b, d
  <1>5. ab \in Seq(CallType) /\ Els(ab) = Els(a) \cup Els(b)
    BY <1>1, <1>2, ConcatIs
  <1> HIDE DEF ab
  <1>6. calls \in Seq(CallType) /\ Els(calls) = Els(ab) \cup {d}
    BY <1>3, <1>5, AppendIs
  <1> HIDE DEF calls
  <1>7. calls \in Seq(CallType) /\ \A m \in Els(calls) : Client!IsRead(m)
    BY <1>1, <1>2, <1>3, <1>5, <1>6
  <1> QED
    BY <1>4, <1>7 DEF calls, d

\* A snapshot that is read is of a revision the service had.
LEMMA SnapshotReceived ==
    ASSUME ClientInv, inbox # <<>>, HasSnapshot(Head(inbox))
    PROVE  /\ Head(inbox).snapshot \in SnapshotType
           /\ Had(Head(inbox).snapshot.revision, Head(inbox).snapshot.content)
  <1> USE DEF ClientInv
  <1>1. Head(inbox) \in MessageType /\ MessageHolds(Head(inbox))
    BY TakenIs
  <1> QED
    BY <1>1, MessageIs DEF MessageHolds

LEMMA HydrateSnapshotKeeps ==
    ASSUME ClientInv, Client!HydrateSnapshot
    PROVE  ClientInv'
  <1> USE DEF ClientInv
  <1> DEFINE s == Head(inbox).snapshot
             u == Client!Unavailable(client)
             shown == [client EXCEPT !.snapshot = s, !.digest = s.digest,
                                     !.complete = FALSE, !.available = TRUE]
             ready == [shown EXCEPT
                           !.optionReady = (shown.option = shown.digest),
                           !.actionReady = (shown.action = shown.digest)]
             n == Client!Projected(ready)
             calls == Append(Client!MissingCatalogs(shown),
                             Client!Read("GetConnectedDisplays"))
  <1>1. inbox # <<>> /\ Head(inbox).kind = "GetSnapshot"
    BY DEF Client!HydrateSnapshot, Client!Message
  <1>2. HasSnapshot(Head(inbox)) /\ ~OwnerChanged(Head(inbox))
    BY <1>1 DEF HasSnapshot, OwnerChanged
  <1>3. s \in SnapshotType /\ Had(s.revision, s.content)
    BY <1>1, <1>2, SnapshotReceived
  <1>4. Client!Continue(u, <<>>) \/ Client!Continue(n, calls)
    BY DEF Client!HydrateSnapshot
  <1> HIDE DEF s
  <1>5. /\ u \in ClientType /\ u.operation = client.operation /\ u.told = client.told
        /\ Shows(u)
    BY NothingReadyIs, ShowsAsBefore DEF Shows, ClientTypes
  <1>6. /\ shown \in ClientType /\ shown.operation = client.operation
        /\ shown.told = client.told /\ shown.snapshot = s
        /\ shown.properties = client.properties
    BY <1>3 DEF ClientTypes, ClientType, SnapshotType
  <1>7. calls \in Seq(CallType) /\ \A m \in Els(calls) : Client!IsRead(m)
    <2> HIDE DEF shown
    <2> QED
      BY MissingCatalogsAre
  <1> HIDE DEF shown, calls
  <1>8. /\ ready \in ClientType /\ ready.operation = client.operation
        /\ ready.told = client.told /\ ready.snapshot = s
        /\ ready.properties = client.properties
    <2>1. ready \in ClientType
      BY ZenonT(60), <1>6 DEF ClientType
    <2>2. /\ ready.operation = shown.operation /\ ready.told = shown.told
          /\ ready.snapshot = shown.snapshot /\ ready.properties = shown.properties
      BY ZenonT(60), <1>6 DEF ClientType
    <2> QED
      BY <1>6, <2>1, <2>2
  <1> HIDE DEF ready
  <1>9. /\ n \in ClientType /\ n.operation = client.operation
        /\ n.told = client.told /\ n.snapshot = s
        /\ n.properties = client.properties
    BY <1>8, ProjectedIs
  <1> HIDE DEF n
  <1>10. Shows(n)
    BY <1>3, <1>9, ShowsAsBefore DEF Shows
  <1> HIDE DEF u
  <1>11. CASE Client!Continue(u, <<>>)
    BY <1>11, <1>1, <1>2, <1>5, NoCalls, ContinueHolds
  <1>12. CASE Client!Continue(n, calls)
    BY <1>12, <1>1, <1>2, <1>7, <1>9, <1>10, ContinueHolds
  <1> QED
    BY <1>4, <1>11, <1>12

\* The other reads change no more than what is available.
LEMMA ReadKeeps ==
    ASSUME ClientInv, NEW c \in ClientType, NEW calls \in Seq(CallType),
           Client!Continue(c, calls), inbox # <<>>,
           Head(inbox).kind \in Client!ReadCalls,
           \A m \in Els(calls) : Client!IsRead(m),
           c.operation = client.operation, c.told = client.told,
           c.properties = client.properties, c.snapshot = client.snapshot
    PROVE  ClientInv'
  <1>1. ~OwnerChanged(Head(inbox))
    BY NamesDiffer DEF StepNames
  <1>2. Shows(c)
    BY ShowsAsBefore DEF ClientInv, Shows
  <1> QED
    BY <1>1, <1>2, ContinueHolds

LEMMA HydrateCatalogsKeep ==
    ASSUME ClientInv, Client!HydrateOptionCatalog \/ Client!HydrateActionCatalog
    PROVE  ClientInv'
  <1> USE DEF ClientInv
  <1> DEFINE o == [client EXCEPT !.option = client.digest, !.optionReady = TRUE]
             a == [client EXCEPT !.action = client.digest, !.actionReady = TRUE]
             c1 == Client!Projected(o)
             c2 == Client!WithoutOptions(client)
             c3 == Client!Projected(a)
             c4 == Client!WithoutActions(client)
  <1>1. inbox # <<>> /\ Head(inbox).kind \in Client!ReadCalls
    BY DEF Client!HydrateOptionCatalog, Client!HydrateActionCatalog, Client!Message,
           Client!ReadCalls
  <1>2. /\ o \in ClientType /\ o.operation = client.operation /\ o.told = client.told
        /\ o.properties = client.properties /\ o.snapshot = client.snapshot
        /\ a \in ClientType /\ a.operation = client.operation /\ a.told = client.told
        /\ a.properties = client.properties /\ a.snapshot = client.snapshot
    BY DEF ClientTypes, ClientType
  <1>3. PICK c \in {c1, c2, c3, c4} : Client!Continue(c, <<>>)
    <2>1. CASE Client!HydrateOptionCatalog
      BY <2>1 DEF Client!HydrateOptionCatalog
    <2>2. CASE Client!HydrateActionCatalog
      BY <2>2 DEF Client!HydrateActionCatalog
    <2> QED
      BY <2>1, <2>2
  <1>4. /\ c2 \in ClientType /\ c2.operation = client.operation /\ c2.told = client.told
        /\ c2.properties = client.properties /\ c2.snapshot = client.snapshot
        /\ c4 \in ClientType /\ c4.operation = client.operation /\ c4.told = client.told
        /\ c4.properties = client.properties /\ c4.snapshot = client.snapshot
    <2>1. client \in ClientType
      BY DEF ClientTypes
    <2>2. /\ c2 = Client!Without(client, "GetOptionCatalog")
          /\ c4 = Client!Without(client, "GetActionCatalog")
      BY DEF Client!Without
    <2>3. "GetOptionCatalog" \in Client!ReadCalls /\ "GetActionCatalog" \in Client!ReadCalls
      BY DEF Client!ReadCalls
    <2> HIDE DEF c2, c4
    <2> QED
      BY <2>1, <2>2, <2>3, WithoutIs
  <1> HIDE DEF o, a
  <1>5. /\ c1 \in ClientType /\ c1.operation = client.operation /\ c1.told = client.told
        /\ c1.properties = client.properties /\ c1.snapshot = client.snapshot
        /\ c3 \in ClientType /\ c3.operation = client.operation /\ c3.told = client.told
        /\ c3.properties = client.properties /\ c3.snapshot = client.snapshot
    BY <1>2, ProjectedIs
  <1> HIDE DEF c1, c2, c3, c4
  <1>6. /\ c \in ClientType /\ c.operation = client.operation /\ c.told = client.told
        /\ c.properties = client.properties /\ c.snapshot = client.snapshot
    BY <1>3, <1>4, <1>5
  <1> QED
    BY <1>1, <1>3, <1>6, NoCalls, ReadKeeps

LEMMA HydrateDisplaysKeeps ==
    ASSUME ClientInv, Client!HydrateDisplays
    PROVE  ClientInv'
  <1> USE DEF ClientInv
  <1> DEFINE n == [client EXCEPT !.displaysReady = TRUE]
             a == [n EXCEPT !.available = TRUE]
             get == <<Client!Read("GetPendingDisplayConfirmation")>>
  <1>1. inbox # <<>> /\ Head(inbox).kind \in Client!ReadCalls
    BY DEF Client!HydrateDisplays, Client!Message, Client!ReadCalls
  <1>2. /\ n \in ClientType /\ n.operation = client.operation /\ n.told = client.told
        /\ n.properties = client.properties /\ n.snapshot = client.snapshot
    BY DEF ClientTypes, ClientType
  <1>3. Client!Continue(n, get) \/ Client!Continue(a, <<>>)
    BY DEF Client!HydrateDisplays
  <1> HIDE DEF n
  <1>4. /\ a \in ClientType /\ a.operation = client.operation /\ a.told = client.told
        /\ a.properties = client.properties /\ a.snapshot = client.snapshot
    BY <1>2 DEF ClientType
  <1>5. get \in Seq(CallType) /\ \A m \in Els(get) : Client!IsRead(m)
    BY ReadCall DEF Client!ReadCalls
  <1> HIDE DEF a, get
  <1>6. CASE Client!Continue(n, get)
    BY <1>6, <1>1, <1>2, <1>5, ReadKeeps
  <1>7. CASE Client!Continue(a, <<>>)
    BY <1>7, <1>1, <1>4, NoCalls, ReadKeeps
  <1> QED
    BY <1>3, <1>6, <1>7

LEMMA HydratePendingKeeps ==
    ASSUME ClientInv, Client!HydratePending
    PROVE  ClientInv'
  <1> USE DEF ClientInv
  <1> DEFINE t == Head(inbox).token
             a == [client EXCEPT !.token = t, !.available = TRUE]
             b == Client!WithoutDisplays(client)
  <1>1. inbox # <<>> /\ Head(inbox).kind = "GetPendingDisplayConfirmation"
    BY DEF Client!HydratePending, Client!Message
  <1>2. t \in Nat \cup {None}
    BY <1>1, TakenIs, MessageIs
  <1>3. Client!Continue(a, <<>>) \/ Client!Continue(b, <<>>)
    BY DEF Client!HydratePending
  <1> HIDE DEF t
  <1>4. /\ a \in ClientType /\ a.operation = client.operation /\ a.told = client.told
        /\ a.properties = client.properties /\ a.snapshot = client.snapshot
        /\ b \in ClientType /\ b.operation = client.operation /\ b.told = client.told
        /\ b.properties = client.properties /\ b.snapshot = client.snapshot
    BY ZenonT(60), <1>2 DEF ClientTypes, ClientType, Client!WithoutDisplays
  <1>5. Head(inbox).kind \in Client!ReadCalls
    BY <1>1 DEF Client!ReadCalls
  <1> HIDE DEF a, b
  <1>6. CASE Client!Continue(a, <<>>)
    BY <1>6, <1>1, <1>4, <1>5, NoCalls, ReadKeeps
  <1>7. CASE Client!Continue(b, <<>>)
    BY <1>7, <1>1, <1>4, <1>5, NoCalls, ReadKeeps
  <1> QED
    BY <1>3, <1>6, <1>7

-----------------------------------------------------------------------------
(* The replies to an operation *)

LEMMA ReplyTaken ==
    ASSUME ClientInv, inbox # <<>>, Head(inbox).kind \in Client!Steps
    PROVE  /\ IsReply(Head(inbox)) /\ Head(inbox) \in MessageType
           /\ MessageHolds(Head(inbox))
           /\ Op # None /\ Op.step = Head(inbox).kind /\ client.told = None
           /\ Shows(client)
  <1> USE DEF ClientInv
  <1>1. Head(inbox) \in MessageType /\ MessageHolds(Head(inbox)) /\ IsReply(Head(inbox))
    BY TakenIs, NamesDiffer DEF StepNames
  <1>2. Op # None /\ Op.step = Head(inbox).kind
    BY <1>1 DEF MessageHolds, During
  <1> QED
    BY <1>1, <1>2, ShowsAsBefore DEF OperationHolds

LEMMA SimpleTold ==
    \A outcome \in {"Done", "Failed"} :
        /\ Client!Told(outcome) \in ToldType
        /\ Client!Told(outcome).outcome \notin {"Refused", "Applied"}
  BY DEF Client!Told, ToldType

LEMMA SaveTold ==
    ASSUME ClientTypes, During(Saves) \/ During(Applies), NEW outcome \in SaveOutcomes
    PROVE  /\ Client!Saved(outcome) \in ToldType
           /\ Client!Saved(outcome).outcome = outcome
           /\ Client!Saved(outcome).content = Op.content
           /\ Op.content \in Contents
  <1>1. Op.content \in Contents
    BY OperationIs
  <1> QED
    BY <1>1 DEF Client!Saved, ToldType, Op

LEMMA MutationReplyKeeps ==
    ASSUME ClientInv, Client!MutationReply
    PROVE  ClientInv'
  <1> USE DEF ClientInv
  <1> DEFINE t == Head(inbox).token
             p == [client.properties EXCEPT !.preview = t]
             c == [client EXCEPT !.token = t, !.properties.preview = t]
             d == [client EXCEPT !.token = t, !.properties = p]
  <1>1. inbox # <<>> /\ Head(inbox).kind \in Mutations
    BY DEF Client!MutationReply, Client!Message, Mutations
  <1>2. Head(inbox).kind \in Client!Steps
    BY <1>1 DEF Mutations, Client!Steps
  <1>3. IsReply(Head(inbox)) /\ Head(inbox) \in MessageType /\ Shows(client)
    BY <1>1, <1>2, ReplyTaken
  <1>4. CASE Head(inbox).ok /\ Head(inbox).kind = "Preview"
    <2>1. t \in Nat
      BY <1>3, <1>4, MessageIs
    <2>2. Client!Ends(c, Client!Told("Done"))
      BY <1>4 DEF Client!MutationReply
    <2> HIDE DEF t
    <2>3. p \in PropertiesType /\ p.applied = client.properties.applied
          /\ p.available = client.properties.available
          /\ p.revision = client.properties.revision
      BY <2>1 DEF ClientTypes, ClientType, PropertiesType
    <2>4. c = d
      BY DEF ClientTypes, ClientType
    <2> HIDE DEF p, c
    <2>5. d \in ClientType /\ d.snapshot = client.snapshot /\ d.properties = p
      BY <2>1, <2>3 DEF ClientTypes, ClientType
    <2> HIDE DEF d
    <2>6. Shows(c)
      BY <1>3, <2>3, <2>4, <2>5 DEF Shows, HasRevision
    <2> QED
      BY <1>1, <1>3, <2>2, <2>4, <2>5, <2>6, SimpleTold, EndsHolds
  <1>5. CASE ~(Head(inbox).ok /\ Head(inbox).kind = "Preview")
    <2>1. PICK outcome \in {"Done", "Failed"} : Client!Ends(client, Client!Told(outcome))
      BY <1>5 DEF Client!MutationReply
    <2>2. client \in ClientType
      BY DEF ClientTypes
    <2> QED
      BY <1>1, <1>3, <2>1, <2>2, SimpleTold, EndsHolds
  <1> QED
    BY <1>4, <1>5

LEMMA AnswerReplyKeeps ==
    ASSUME ClientInv, Client!AnswerReply
    PROVE  ClientInv'
  <1> USE DEF ClientInv
  <1> DEFINE p == [client.properties EXCEPT !.preview = Client!Ending]
             c == [client EXCEPT !.token = None, !.properties.preview = Client!Ending]
             d == [client EXCEPT !.token = None, !.properties = p]
  <1>1. inbox # <<>> /\ Head(inbox).kind \in Answered
    BY DEF Client!AnswerReply, Client!Message, Answered
  <1>2. Head(inbox).kind \in Client!Steps
    BY <1>1 DEF Answered, Client!Steps
  <1>3. IsReply(Head(inbox)) /\ Shows(client)
    BY <1>1, <1>2, ReplyTaken
  <1>4. CASE Head(inbox).ok
    <2>1. Client!Ends(c, Client!Told("Done"))
      BY <1>4 DEF Client!AnswerReply
    <2>2. p \in PropertiesType /\ p.applied = client.properties.applied
          /\ p.available = client.properties.available
          /\ p.revision = client.properties.revision
      BY DEF ClientTypes, ClientType, PropertiesType, Client!Ending
    <2>3. c = d
      BY DEF ClientTypes, ClientType
    <2> HIDE DEF p, c
    <2>4. d \in ClientType /\ d.snapshot = client.snapshot /\ d.properties = p
      BY <2>2 DEF ClientTypes, ClientType
    <2> HIDE DEF d
    <2>5. Shows(c)
      BY <1>3, <2>2, <2>3, <2>4 DEF Shows, HasRevision
    <2> QED
      BY <1>1, <1>3, <2>1, <2>3, <2>4, <2>5, SimpleTold, EndsHolds
  <1>5. CASE ~Head(inbox).ok
    <2>1. Client!Ends(client, Client!Told("Failed"))
      BY <1>5 DEF Client!AnswerReply
    <2>2. client \in ClientType
      BY DEF ClientTypes
    <2> QED
      BY <1>1, <1>3, <2>1, <2>2, SimpleTold, EndsHolds
  <1> QED
    BY <1>4, <1>5

\* A save goes on with a call that reads.
LEMMA VerifyTurns ==
    ASSUME ClientInv, NEW call \in PlainCall, Turned(call), client'.told = None,
           During(Saves) \/ During({"SavedApply"}), client'.operation \in OperationType,
           client'.operation.step = call.kind, call.kind \in Verifies,
           client'.operation.content = Op.content,
           client'.operation.expected = Op.expected,
           During(Saves) => /\ client'.operation.base = Op.base
                            /\ client'.operation.step \in Saves,
           During({"SavedApply"}) => client'.operation.step \in Applies
    PROVE  ClientInv'
  <1>1. Op' = client'.operation /\ Op' # None /\ Op'.step # "Replace"
    BY NoneIsNoOperation DEF Op, Verifies
  <1>2. During(Saves)' => During(Saves)
    BY <1>1 DEF During, Saves, Applies
  <1>3. During(Applies)' => During({"SavedApply"})
    BY <1>1 DEF During, Saves, Applies
  <1>4. ~During({"Replace"})'
    BY <1>1 DEF During
  <1>5. During(Saves) => Had(Op.expected, Op.base)' /\ Op.content \in FromHere'
    <2> HAVE During(Saves)
    <2>1. PICK r \in Nat : r = Op.expected
      BY OperationIs DEF ClientInv
    <2>2. PICK x \in Contents : x = Op.base
      BY OperationIs DEF ClientInv
    <2>3. Had(r, x)' /\ Op.content \in FromHere'
      BY <2>1, <2>2 DEF OperationHolds, ClientInv, Turned
    <2> QED
      BY <2>1, <2>2, <2>3, <1>1 DEF Had
  <1>6. During({"SavedApply"}) => Had(Op.expected, Op.content)'
    <2> HAVE During({"SavedApply"})
    <2>0. During(Applies)
      BY DEF During, Applies
    <2>1. PICK r \in Nat : r = Op.expected
      BY <2>0, OperationIs DEF ClientInv
    <2>2. PICK x \in Contents : x = Op.content
      BY <2>0, OperationIs DEF ClientInv
    <2>3. Had(r, x)'
      BY <2>0, <2>1, <2>2 DEF OperationHolds, ClientInv, Turned
    <2> QED
      BY <2>1, <2>2, <2>3, <1>1 DEF Had
  <1>7. OperationHolds'
    BY <1>1, <1>2, <1>3, <1>4, <1>5, <1>6 DEF OperationHolds
  <1>8. CallHolds(call)'
    BY <1>1 DEF CallHolds, During, Verifies, Writes, Mutations
  <1> QED
    BY <1>4, <1>7, <1>8, TurnHolds

LEMMA SteppedIs ==
    ASSUME NEW c \in ClientType, c.operation \in SaveOperation, NEW s \in Saves
    PROVE  LET n == [c EXCEPT !.operation.step = s]
           IN  /\ n \in ClientType /\ n.operation \in OperationType
               /\ n.operation.step = s
               /\ n.operation.content = c.operation.content
               /\ n.operation.expected = c.operation.expected
               /\ n.operation.base = c.operation.base
               /\ n.told = c.told /\ n.properties = c.properties
               /\ n.snapshot = c.snapshot
  <1> DEFINE o == [c.operation EXCEPT !.step = s]
             d == [c EXCEPT !.operation = o]
  <1>1. /\ o \in SaveOperation /\ o.step = s /\ o.content = c.operation.content
        /\ o.expected = c.operation.expected /\ o.base = c.operation.base
    BY DEF SaveOperation
  <1>2. o \in OperationType
    BY <1>1 DEF OperationType
  <1>3. [c EXCEPT !.operation.step = s] = d
    BY DEF ClientType
  <1> HIDE DEF o
  <1>4. /\ d \in ClientType /\ d.operation = o /\ d.told = c.told
        /\ d.properties = c.properties /\ d.snapshot = c.snapshot
    BY <1>2 DEF ClientType
  <1> HIDE DEF d
  <1> QED
    BY <1>1, <1>2, <1>3, <1>4

LEMMA PlainCalls ==
    \A kind \in Verifies :
        /\ [kind |-> kind, awaited |-> TRUE] \in PlainCall
        /\ [kind |-> kind, awaited |-> TRUE] \in CallType
  BY DEF PlainCall, CallType

LEMMA ReplaceReplyKeeps ==
    ASSUME ClientInv, Client!ReplaceReply
    PROVE  ClientInv'
  <1> USE DEF ClientInv
  <1> DEFINE n == [client EXCEPT !.operation.step = "VerifyProperties"]
             call == [kind |-> "VerifyProperties", awaited |-> TRUE]
  <1>1. inbox # <<>> /\ Head(inbox).kind = "Replace"
    BY DEF Client!ReplaceReply, Client!Message
  <1>2. Head(inbox).kind \in Client!Steps
    BY <1>1 DEF Client!Steps
  <1>3. /\ IsReply(Head(inbox)) /\ MessageHolds(Head(inbox))
        /\ During({"Replace"}) /\ client.told = None /\ Shows(client)
    BY <1>1, <1>2, ReplyTaken DEF During
  <1>4. During(Saves) /\ client.operation \in SaveOperation /\ client \in ClientType
    BY <1>3, OperationIs DEF During, Saves, ClientTypes, Op
  <1>5. \/ Client!Ends(client, Client!Saved("Refused")) /\ ~Head(inbox).ok
        \/ Client!Ends(client, Client!Saved("Unconfirmed"))
        \/ Client!Continue(n, <<call>>)
    BY DEF Client!ReplaceReply, Client!Verify, Client!VerifyCall
  <1>6. CASE Client!Ends(client, Client!Saved("Refused")) /\ ~Head(inbox).ok
    <2>1. Refused(Op.content)
      BY <1>1, <1>3, <1>4, <1>6 DEF MessageHolds, Refused, OperationHolds
    <2>2. /\ Client!Saved("Refused") \in ToldType
          /\ Client!Saved("Refused").outcome = "Refused"
          /\ Client!Saved("Refused").content = Op.content
      BY <1>4, SaveTold DEF SaveOutcomes, Client!Outcomes
    <2> QED
      BY <1>1, <1>3, <1>4, <1>6, <2>1, <2>2, EndsHolds
  <1>7. CASE Client!Ends(client, Client!Saved("Unconfirmed"))
    <2>1. /\ Client!Saved("Unconfirmed") \in ToldType
          /\ Client!Saved("Unconfirmed").outcome = "Unconfirmed"
      BY <1>4, SaveTold DEF SaveOutcomes, Client!Outcomes
    <2> QED
      BY <1>1, <1>3, <1>4, <1>7, <2>1, EndsHolds
  <1>8. CASE Client!Continue(n, <<call>>)
    <2>1. /\ n \in ClientType /\ n.operation \in OperationType
          /\ n.operation.step = "VerifyProperties"
          /\ n.operation.content = client.operation.content
          /\ n.operation.expected = client.operation.expected
          /\ n.operation.base = client.operation.base
          /\ n.told = client.told /\ n.properties = client.properties
          /\ n.snapshot = client.snapshot
      BY <1>4, SteppedIs DEF Saves
    <2>2. call \in PlainCall /\ call \in CallType /\ call.kind = "VerifyProperties"
      BY PlainCalls DEF Verifies
    <2>3. client' = n
      BY <1>8 DEF Client!Continue
    <2> HIDE DEF n, call
    <2>4. Shows(n)
      BY <1>3, <2>1 DEF Shows
    <2>5. Turned(call)
      BY <1>1, <1>3, <1>8, <2>1, <2>2, <2>4, ContinueTurns
    <2>6. ~During({"SavedApply"})
      BY <1>3 DEF During
    <2> QED
      BY <1>3, <1>4, <2>1, <2>2, <2>3, <2>5, <2>6, VerifyTurns DEF Op, Verifies, Saves
  <1> QED
    BY <1>5, <1>6, <1>7, <1>8

LEMMA VerifyPropertiesReplyKeeps ==
    ASSUME ClientInv, Client!VerifyPropertiesReply
    PROVE  ClientInv'
  <1> USE DEF ClientInv
  <1> DEFINE a == Client!ApplyProperties(client, Head(inbox).properties)
             n == [a EXCEPT !.operation.step = "VerifySnapshot"]
             call == [kind |-> "VerifySnapshot", awaited |-> TRUE]
  <1>1. inbox # <<>> /\ Head(inbox).kind = "VerifyProperties"
    BY DEF Client!VerifyPropertiesReply, Client!Message
  <1>2. Head(inbox).kind \in Client!Steps /\ HasProperties(Head(inbox))
    BY <1>1 DEF Client!Steps, HasProperties
  <1>3. /\ IsReply(Head(inbox))
        /\ During({"VerifyProperties"}) /\ client.told = None
    BY <1>1, <1>2, ReplyTaken DEF During
  <1>4. During(Saves) /\ client.operation \in SaveOperation /\ client \in ClientType
    BY <1>3, OperationIs DEF During, Saves, ClientTypes, Op
  <1>5. /\ a \in ClientType /\ a.operation = client.operation /\ a.told = client.told
        /\ Shows(a)
    BY <1>1, <1>2, <1>4, PropertiesReceived
  <1>6. Client!Ends(a, Client!Saved("Unconfirmed")) \/ Client!Continue(n, <<call>>)
    BY DEF Client!VerifyPropertiesReply
  <1> HIDE DEF a
  <1>7. CASE Client!Ends(a, Client!Saved("Unconfirmed"))
    <2>1. /\ Client!Saved("Unconfirmed") \in ToldType
          /\ Client!Saved("Unconfirmed").outcome = "Unconfirmed"
      BY <1>4, SaveTold DEF SaveOutcomes, Client!Outcomes
    <2> QED
      BY <1>1, <1>3, <1>5, <1>7, <2>1, EndsHolds
  <1>8. CASE Client!Continue(n, <<call>>)
    <2>1. /\ n \in ClientType /\ n.operation \in OperationType
          /\ n.operation.step = "VerifySnapshot"
          /\ n.operation.content = client.operation.content
          /\ n.operation.expected = client.operation.expected
          /\ n.operation.base = client.operation.base
          /\ n.told = client.told /\ n.properties = a.properties
          /\ n.snapshot = a.snapshot
      <3>1. a.operation \in SaveOperation /\ "VerifySnapshot" \in Saves
        BY <1>4, <1>5 DEF Saves
      <3> QED
        BY <1>4, <1>5, <3>1, SteppedIs
    <2>2. call \in PlainCall /\ call \in CallType /\ call.kind = "VerifySnapshot"
      BY PlainCalls DEF Verifies
    <2>3. client' = n
      BY <1>8 DEF Client!Continue
    <2> HIDE DEF n, call
    <2>4. Shows(n)
      BY <1>5, <2>1 DEF Shows
    <2>5. Turned(call)
      BY <1>1, <1>3, <1>8, <2>1, <2>2, <2>4, ContinueTurns
    <2>6. ~During({"SavedApply"})
      BY <1>3 DEF During
    <2> QED
      BY <1>3, <1>4, <2>1, <2>2, <2>3, <2>5, <2>6, VerifyTurns DEF Op, Verifies, Saves
  <1> QED
    BY <1>6, <1>7, <1>8

\* What is saved is applied at the revision that was read back.
LEMMA ApplicationTurns ==
    ASSUME ClientInv, NEW o \in ApplyOperation, o.step = "SavedApply",
           Had(o.expected, o.content),
           Turned(Client!Application(o)), client'.told = None, client'.operation = o
    PROVE  ClientInv'
  <1> DEFINE call == Client!Application(o)
  <1>1. /\ call.kind = "SavedApply" /\ call.revision = o.expected
        /\ call.shown = o.content
    BY DEF Client!Application
  <1>2. o \in OperationType /\ o.expected \in Nat /\ o.content \in Contents
    BY DEF OperationType, ApplyOperation
  <1>3. Op' = o /\ Op' # None
    BY <1>2, NoneIsNoOperation DEF Op
  <1>4. PICK r \in Nat : r = o.expected
    BY <1>2
  <1>5. PICK x \in Contents : x = o.content
    BY <1>2
  <1>6. Had(r, x)'
    BY <1>4, <1>5 DEF Turned
  <1>7. OperationHolds'
    BY <1>3, <1>4, <1>5, <1>6 DEF OperationHolds, During, Saves, Had
  <1> HIDE DEF call
  <1>8. CallHolds(call)'
    BY <1>1, <1>3, <1>4, <1>5, <1>6 DEF CallHolds, During, Had
  <1>9. ~During({"Replace"})'
    BY <1>3 DEF During
  <1> QED
    BY <1>7, <1>8, <1>9, TurnHolds DEF call

LEMMA ApplicationIs ==
    ASSUME NEW o \in ApplyOperation
    PROVE  Client!Application(o) \in CallType
  BY DEF ApplyOperation, Client!Application, CallType, WriteCall, Writes, Mutations

LEMMA VerifySnapshotReplyKeeps ==
    ASSUME ClientInv, Client!VerifySnapshotReply
    PROVE  ClientInv'
  <1> USE DEF ClientInv
  <1> DEFINE s == Head(inbox).snapshot
             shown == [client EXCEPT !.snapshot = s, !.digest = s.digest]
             n == Client!Projected(shown)
             o == [step |-> "SavedApply", retry |-> FALSE, expected |-> s.revision,
                   digest |-> s.digest, content |-> client.operation.content]
             c == [n EXCEPT !.operation = o]
  <1>1. inbox # <<>> /\ Head(inbox).kind = "VerifySnapshot"
    BY DEF Client!VerifySnapshotReply, Client!Message
  <1>2. Head(inbox).kind \in Client!Steps /\ HasSnapshot(Head(inbox))
    BY <1>1 DEF Client!Steps, HasSnapshot
  <1>3. /\ IsReply(Head(inbox)) /\ Shows(client)
        /\ During({"VerifySnapshot"}) /\ client.told = None
    BY <1>1, <1>2, ReplyTaken DEF During
  <1>4. /\ During(Saves) /\ client \in ClientType /\ Op.content \in Contents
        /\ Op.expected \in Nat
    BY <1>3, OperationIs DEF During, Saves, ClientTypes
  <1>5. s \in SnapshotType /\ Had(s.revision, s.content)
    BY <1>1, <1>2, SnapshotReceived
  <1>6. /\ Client!Saved("Unconfirmed") \in ToldType
        /\ Client!Saved("Applied") \in ToldType
        /\ Client!Saved("ActivationRequired") \in ToldType
        /\ Client!Saved("Unconfirmed").outcome = "Unconfirmed"
        /\ Client!Saved("ActivationRequired").outcome = "ActivationRequired"
        /\ Client!Saved("Applied").outcome = "Applied"
        /\ Client!Saved("Applied").content = Op.content
    BY <1>4, SaveTold DEF SaveOutcomes, Client!Outcomes
  <1>7. \/ Client!Ends(client, Client!Saved("Unconfirmed"))
        \/ /\ Client!IsTheCandidate(s, Op)
           /\ \/ /\ client.properties.applied = s.revision
                 /\ Client!Ends(n, Client!Saved("Applied"))
              \/ Client!Ends(n, Client!Saved("ActivationRequired"))
              \/ Client!Continue(c, <<Client!Application(o)>>)
    BY DEF Client!VerifySnapshotReply, Op
  <1> HIDE DEF s
  <1>8. /\ shown \in ClientType /\ shown.told = client.told /\ shown.snapshot = s
        /\ shown.properties = client.properties
    BY <1>4, <1>5 DEF ClientType, SnapshotType
  <1> HIDE DEF shown
  <1>9. /\ n \in ClientType /\ n.told = client.told /\ n.snapshot = s
        /\ n.properties = client.properties
    BY <1>8, ProjectedIs
  <1> HIDE DEF n
  <1>10. Shows(n)
    BY <1>3, <1>5, <1>9 DEF Shows
  <1>11. CASE Client!Ends(client, Client!Saved("Unconfirmed"))
    BY <1>1, <1>3, <1>4, <1>6, <1>11, EndsHolds
  <1>12. CASE /\ Client!IsTheCandidate(s, Op) /\ client.properties.applied = s.revision
              /\ Client!Ends(n, Client!Saved("Applied"))
    <2>1. s.content = Op.content /\ s.revision > 0
      BY <1>12, <1>4 DEF Client!IsTheCandidate
    <2>2. s.revision \in AppliedRevisions
      BY <1>3, <1>12 DEF Shows
    <2>3. Op.content \in service.ran
      BY <1>5, <2>1, <2>2 DEF Had
    <2> QED
      BY <1>1, <1>3, <1>6, <1>9, <1>10, <1>12, <2>3, EndsHolds
  <1>13. CASE Client!Ends(n, Client!Saved("ActivationRequired"))
    BY <1>1, <1>3, <1>6, <1>9, <1>10, <1>13, EndsHolds
  <1>14. CASE Client!IsTheCandidate(s, Op) /\ Client!Continue(c, <<Client!Application(o)>>)
    <2>1. /\ o \in ApplyOperation /\ o.step = "SavedApply"
          /\ o.expected = s.revision /\ o.content = s.content
      BY <1>4, <1>5, <1>14 DEF ApplyOperation, Applies, SnapshotType, Op,
                               Client!IsTheCandidate
    <2>2. o \in OperationType
      BY <2>1 DEF OperationType
    <2> HIDE DEF o
    <2>3. /\ c \in ClientType /\ c.operation = o /\ c.told = n.told
          /\ c.properties = n.properties /\ c.snapshot = n.snapshot
      BY <1>9, <2>2 DEF ClientType
    <2> HIDE DEF c
    <2>4. client' = c
      BY <1>14 DEF Client!Continue
    <2>5. Shows(c)
      BY <1>10, <2>3 DEF Shows
    <2>6. Client!Application(o) \in CallType
      BY <2>1, ApplicationIs
    <2>7. Turned(Client!Application(o))
      BY <1>1, <1>3, <1>14, <2>3, <2>5, <2>6, ContinueTurns
    <2>8. Had(o.expected, o.content)
      BY <1>5, <2>1
    <2> QED
      BY <1>3, <1>9, <2>1, <2>3, <2>4, <2>7, <2>8, ApplicationTurns
  <1> QED
    BY <1>7, <1>11, <1>12, <1>13, <1>14

LEMMA ApplyReplyKeeps ==
    ASSUME ClientInv, Client!ApplyReply
    PROVE  ClientInv'
  <1> USE DEF ClientInv
  <1>1. inbox # <<>> /\ Head(inbox).kind = "SavedApply"
    BY DEF Client!ApplyReply, Client!Message
  <1>2. Head(inbox).kind \in Client!Steps
    BY <1>1 DEF Client!Steps
  <1>3. /\ IsReply(Head(inbox)) /\ MessageHolds(Head(inbox)) /\ Shows(client)
        /\ During(Applies) /\ client \in ClientType
    BY <1>1, <1>2, ReplyTaken DEF During, Applies, ClientTypes
  <1>4. /\ Client!Saved("Applied") \in ToldType /\ Client!Saved("NotApplied") \in ToldType
        /\ Client!Saved("Applied").outcome = "Applied"
        /\ Client!Saved("Applied").content = Op.content
        /\ Client!Saved("NotApplied").outcome = "NotApplied"
    BY <1>3, SaveTold DEF SaveOutcomes, Client!Outcomes
  <1>5. \/ Client!Ends(client, Client!Saved("Applied")) /\ Head(inbox).ok
        \/ Client!Ends(client, Client!Saved("NotApplied"))
    BY DEF Client!ApplyReply
  <1>6. Head(inbox).ok => Op.content \in service.ran
    BY <1>1, <1>3 DEF MessageHolds
  <1> QED
    BY <1>1, <1>3, <1>4, <1>5, <1>6, EndsHolds

\* What is applied as asked has run.
LEMMA AppliedAsAskedRan ==
    ASSUME ClientInv, During(Applies), NEW p, Client!AppliedAsAsked(p, client.operation),
           HasRevision(p), p.applied \in AppliedRevisions
    PROVE  Op.content \in service.ran
  <1>1. /\ p.revision = Op.expected /\ p.applied = Op.expected /\ p.available
    BY DEF Client!AppliedAsAsked, Op
  <1>2. Op.expected > 0 /\ Had(Op.expected, Op.content)
    BY <1>1 DEF HasRevision, ClientInv, OperationHolds
  <1> QED
    BY <1>1, <1>2 DEF Had

LEMMA ReconcileReplyKeeps ==
    ASSUME ClientInv, Client!ReconcileReply
    PROVE  ClientInv'
  <1> USE DEF ClientInv
  <1> DEFINE p == Head(inbox).properties
             a == Client!ApplyProperties(client, p)
  <1>1. inbox # <<>> /\ Head(inbox).kind = "ReconcileProperties"
    BY DEF Client!ReconcileReply, Client!Message
  <1>2. Head(inbox).kind \in Client!Steps /\ HasProperties(Head(inbox))
    BY <1>1 DEF Client!Steps, HasProperties
  <1>3. IsReply(Head(inbox)) /\ During(Applies) /\ client \in ClientType
    BY <1>1, <1>2, ReplyTaken DEF During, Applies, ClientTypes
  <1>4. a \in ClientType /\ a.properties = p /\ Shows(a)
    BY <1>1, <1>2, <1>3, PropertiesReceived
  <1>5. /\ Client!Saved("Applied") \in ToldType
        /\ Client!Saved("ApplyUnconfirmed") \in ToldType
        /\ Client!Saved("Applied").outcome = "Applied"
        /\ Client!Saved("Applied").content = Op.content
        /\ Client!Saved("ApplyUnconfirmed").outcome = "ApplyUnconfirmed"
    BY <1>3, SaveTold DEF SaveOutcomes, Client!Outcomes
  <1>6. \/ Client!Ends(a, Client!Saved("Applied")) /\ Client!AppliedAsAsked(p, client.operation)
        \/ Client!Ends(a, Client!Saved("ApplyUnconfirmed"))
    BY DEF Client!ReconcileReply
  <1> HIDE DEF a, p
  <1>7. Client!AppliedAsAsked(p, client.operation) => Op.content \in service.ran
    BY <1>3, <1>4, AppliedAsAskedRan DEF Shows
  <1> QED
    BY <1>1, <1>3, <1>4, <1>5, <1>6, <1>7, EndsHolds

-----------------------------------------------------------------------------
(* What the user begins *)

LEMMA MutationKeeps ==
    ASSUME ClientInv, NEW kind \in Mutations, Op = None, Client!Mutation(kind)
    PROVE  ClientInv'
  <1> USE DEF ClientInv
  <1> DEFINE o == [step |-> kind]
  <1>0. PICK call : call = Client!Operation(kind, client)
    OBVIOUS
  <1>1. Client!Begin(o, call)
    BY <1>0 DEF Client!Mutation
  <1>2. o \in OperationType /\ o.step = kind
    BY DEF OperationType, SimpleOperation
  <1>3. /\ call \in CallType /\ call.kind = kind
        /\ call.revision = client.snapshot.revision
        /\ call.shown = client.snapshot.content
    BY <1>0 DEF Client!Operation, CallType, WriteCall, Writes, Mutations, ClientTypes,
           ClientType, SnapshotType
  <1> HIDE DEF o
  <1>4. Turned(call) /\ client'.operation = o /\ client'.told = None
    BY <1>1, <1>2, <1>3, BeginTurns
  <1>5. Op' = o /\ Op' # None /\ Op'.step = kind /\ kind \notin {"Replace", "SavedApply"}
    BY <1>2, <1>4, NoneIsNoOperation DEF Op, Mutations
  <1>6. OperationHolds'
    BY <1>4, <1>5 DEF OperationHolds, During, Saves, Applies, Mutations
  <1>7. PICK r \in Nat : r = client.snapshot.revision
    BY DEF ClientTypes, ClientType, SnapshotType
  <1>8. PICK x \in Contents : x = client.snapshot.content
    BY DEF ClientTypes, ClientType, SnapshotType
  <1>9. Had(r, x)'
    BY <1>4, <1>7, <1>8 DEF Turned, ServiceHolds
  <1>10. CallHolds(call)'
    BY <1>3, <1>5, <1>7, <1>8, <1>9 DEF CallHolds, During, Had
  <1>11. ~During({"Replace"})'
    BY <1>5 DEF During
  <1> QED
    BY <1>4, <1>6, <1>10, <1>11, TurnHolds

LEMMA MutationsKeep ==
    ASSUME ClientInv,
           \/ Client!AdoptManagedConfiguration \/ Client!ApplyConfiguration
           \/ Client!RecoverConfiguration \/ Client!PreviewDisplayConfiguration
    PROVE  ClientInv'
  <1>1. Op = None
    BY DEF Client!AdoptManagedConfiguration, Client!ApplyConfiguration,
           Client!RecoverConfiguration, Client!PreviewDisplayConfiguration,
           Client!RecoveryAvailable, Client!ReadyToWrite, Op
  <1>2. \E kind \in Mutations : Client!Mutation(kind)
    BY DEF Client!AdoptManagedConfiguration, Client!ApplyConfiguration,
           Client!RecoverConfiguration, Client!PreviewDisplayConfiguration, Mutations
  <1> QED
    BY <1>1, <1>2, MutationKeeps

LEMMA AnswerDisplayConfirmationKeeps ==
    ASSUME ClientInv, NEW kind \in Answered, Client!AnswerDisplayConfirmation(kind)
    PROVE  ClientInv'
  <1> USE DEF ClientInv
  <1> DEFINE o == [step |-> kind]
  <1>0. PICK call : call = [kind |-> kind, awaited |-> TRUE, token |-> client.token]
    OBVIOUS
  <1>1. Client!Begin(o, call) /\ Op = None /\ client.token # None
    BY <1>0 DEF Client!AnswerDisplayConfirmation, Op
  <1>2. o \in OperationType /\ o.step = kind
    BY DEF OperationType, SimpleOperation
  <1>3. call \in CallType /\ call.kind = kind
    BY <1>0, <1>1 DEF CallType, AnswerCall, ClientTypes, ClientType
  <1> HIDE DEF o
  <1>4. Turned(call) /\ client'.operation = o /\ client'.told = None
    BY <1>1, <1>2, <1>3, BeginTurns
  <1>5. Op' = o /\ Op' # None /\ Op'.step = kind
    BY <1>2, <1>4, NoneIsNoOperation DEF Op
  <1>6. OperationHolds'
    BY <1>4, <1>5 DEF OperationHolds, During, Saves, Applies, Answered
  <1>7. CallHolds(call)'
    BY <1>3, <1>5 DEF CallHolds, During, Answered, Writes, Mutations
  <1>8. ~During({"Replace"})'
    BY <1>5 DEF During, Answered
  <1> QED
    BY <1>4, <1>6, <1>7, <1>8, TurnHolds

\* A save, or a save again, under way with one call.
LEMMA ReplacementTurns ==
    ASSUME ClientInv, NEW o \in SaveOperation, o.step = "Replace",
           Had(o.expected, o.base), o.content \in FromHere',
           Turned(Client!Replacement(o)), client'.told = None, client'.operation = o,
           \/ /\ During({"Replace"}) /\ o.content = Op.content
              /\ o.expected = Op.expected /\ o.digest = Op.digest
           \/ o.content \notin FromHere /\ service.content # o.content
    PROVE  ClientInv'
  <1> DEFINE call == Client!Replacement(o)
  <1>1. /\ call.kind = "Replace" /\ call.revision = o.expected /\ call.shown = o.base
        /\ call.content = o.content /\ call.digest = o.digest
    BY DEF Client!Replacement
  <1>2. o \in OperationType /\ o.expected \in Nat /\ o.base \in Contents
    BY DEF OperationType, SaveOperation
  <1>3. Op' = o /\ Op' # None
    BY <1>2, NoneIsNoOperation DEF Op
  <1>4. PICK r \in Nat : r = o.expected
    BY <1>2
  <1>5. PICK x \in Contents : x = o.base
    BY <1>2
  <1>6. Had(r, x)'
    BY <1>4, <1>5 DEF Turned
  <1>7. service'.content = o.content =>
            /\ service'.revision = o.expected + 1
            /\ service'.digest = o.digest \/ \E m \in Els(inbox)' : OwnerChanged(m)
    <2> HAVE service'.content = o.content
    <2>1. /\ During({"Replace"}) /\ o.content = Op.content
          /\ o.expected = Op.expected /\ o.digest = Op.digest
          /\ service.content = Op.content /\ service' = service
      BY DEF Turned
    <2>2. /\ service.revision = Op.expected + 1
          /\ service.digest = Op.digest \/ \E m \in Els(inbox) : OwnerChanged(m)
      BY <2>1 DEF ClientInv, OperationHolds
    <2> QED
      BY <2>1, <2>2 DEF Turned
  <1>8. OperationHolds'
    BY <1>3, <1>4, <1>5, <1>6, <1>7 DEF OperationHolds, During, Applies, Had
  <1> HIDE DEF call
  <1>9. CallHolds(call)'
    BY <1>1, <1>3, <1>4, <1>5, <1>6 DEF CallHolds, During, Had
  <1>10. \/ /\ During({"Replace"}) /\ Op'.content = Op.content
            /\ Op'.expected = Op.expected /\ Op'.digest = Op.digest
         \/ Op'.content \notin FromHere
    BY <1>3
  <1> QED
    BY <1>8, <1>9, <1>10, TurnHolds DEF call

LEMMA ReplacementIs ==
    ASSUME NEW o \in SaveOperation
    PROVE  Client!Replacement(o) \in CallType
  BY DEF SaveOperation, Client!Replacement, CallType, ReplaceCall

LEMMA SaveOptionGroupKeeps ==
    ASSUME ClientInv, Client!SaveOptionGroup
    PROVE  ClientInv'
  <1> USE DEF ClientInv
  <1> DEFINE x == Client!Mine(operations + 1)
             o == [step |-> "Replace", retry |-> FALSE,
                   expected |-> client.snapshot.revision,
                   digest |-> client.digest, content |-> x,
                   base |-> client.snapshot.content]
  <1>1. Client!Begin(o, Client!Replacement(o)) /\ Op = None
    BY DEF Client!SaveOptionGroup, Client!Editable, Client!ReadyToWrite, Op
  <1>2. operations \in Nat /\ operations + 1 \in 1..(operations + 1)
        /\ \A k \in 1..operations : k # operations + 1
    BY ClientAssumption DEF ClientTypes
  <1>3. x \in Contents /\ x[1] = "mine" /\ x \notin FromHere
    <2>1. x = <<"mine", operations + 1>>
      BY DEF Client!Mine
    <2>2. \A k \in 1..operations : Client!Mine(k) # x
      BY <1>2, <2>1 DEF Client!Mine
    <2>3. x \in Contents /\ x[1] = "mine"
      <3>1. \A n \in Nat : <<"mine", n>> \in Contents /\ <<"mine", n>>[1] = "mine"
        BY DEF Contents, Client!Authors
      <3>2. operations + 1 \in Nat
        BY <1>2
      <3> HIDE DEF x
      <3> QED
        BY <2>1, <3>1, <3>2
    <2> HIDE DEF x
    <2>4. x \notin FromHere
      BY <2>2 DEF FromHere
    <2> QED
      BY <2>3, <2>4
  <1>4. service.content # x
    BY <1>3 DEF ServiceHolds
  <1>5. /\ o \in SaveOperation /\ o.step = "Replace" /\ o.content = x
        /\ o.expected = client.snapshot.revision /\ o.base = client.snapshot.content
    BY <1>3 DEF SaveOperation, Saves, ClientTypes, ClientType, SnapshotType
  <1>6. operations' = operations + 1 => x \in FromHere'
    BY <1>2 DEF FromHere
  <1> HIDE DEF o, x
  <1>7. o \in OperationType
    BY <1>5 DEF OperationType
  <1>8. Client!Replacement(o) \in CallType
    BY <1>5, ReplacementIs
  <1>9. /\ Turned(Client!Replacement(o)) /\ client'.operation = o /\ client'.told = None
        /\ operations' = operations + 1
    BY <1>1, <1>7, <1>8, BeginTurns
  <1>10. Had(o.expected, o.base)
    BY <1>5 DEF ServiceHolds
  <1> QED
    BY <1>3, <1>4, <1>5, <1>6, <1>9, <1>10, ReplacementTurns

LEMMA RetryApplyKeeps ==
    ASSUME ClientInv, Client!RetryApply
    PROVE  ClientInv'
  <1> USE DEF ClientInv
  <1> DEFINE o == [step |-> "SavedApply", retry |-> FALSE,
                   expected |-> client.snapshot.revision,
                   digest |-> client.digest,
                   content |-> client.snapshot.content]
  <1>1. Client!Begin(o, Client!Application(o)) /\ Op = None
    BY DEF Client!RetryApply, Client!RetryApplyAvailable, Client!ReadyToWrite, Op
  <1>2. /\ o \in ApplyOperation /\ o.step = "SavedApply"
        /\ o.expected = client.snapshot.revision /\ o.content = client.snapshot.content
    BY DEF ApplyOperation, Applies, ClientTypes, ClientType, SnapshotType
  <1> HIDE DEF o
  <1>3. o \in OperationType
    BY <1>2 DEF OperationType
  <1>4. Client!Application(o) \in CallType
    BY <1>2, ApplicationIs
  <1>5. Turned(Client!Application(o)) /\ client'.operation = o /\ client'.told = None
    BY <1>1, <1>3, <1>4, BeginTurns
  <1>6. Had(o.expected, o.content)
    BY <1>2 DEF ServiceHolds
  <1> QED
    BY <1>2, <1>5, <1>6, ApplicationTurns

-----------------------------------------------------------------------------
(* Calls that time out *)

LEMMA RetriedIs ==
    ASSUME NEW c \in ClientType,
           c.operation \in SaveOperation \/ c.operation \in ApplyOperation
    PROVE  LET n == [c EXCEPT !.operation.retry = TRUE]
           IN  /\ n \in ClientType
               /\ c.operation \in SaveOperation => n.operation \in SaveOperation
               /\ c.operation \in ApplyOperation => n.operation \in ApplyOperation
               /\ n.operation.step = c.operation.step
               /\ n.operation.content = c.operation.content
               /\ n.operation.expected = c.operation.expected
               /\ n.operation.digest = c.operation.digest
               /\ c.operation \in SaveOperation => n.operation.base = c.operation.base
               /\ n.told = c.told /\ n.properties = c.properties
               /\ n.snapshot = c.snapshot
  <1> DEFINE o == [c.operation EXCEPT !.retry = TRUE]
             d == [c EXCEPT !.operation = o]
  <1>1. /\ c.operation \in SaveOperation =>
                  o \in SaveOperation /\ o.base = c.operation.base
        /\ c.operation \in ApplyOperation => o \in ApplyOperation
        /\ o.step = c.operation.step
        /\ o.content = c.operation.content
        /\ o.expected = c.operation.expected /\ o.digest = c.operation.digest
    BY DEF SaveOperation, ApplyOperation
  <1>2. o \in OperationType
    BY <1>1 DEF OperationType
  <1>3. [c EXCEPT !.operation.retry = TRUE] = d
    BY DEF ClientType
  <1> HIDE DEF o
  <1>4. /\ d \in ClientType /\ d.operation = o /\ d.told = c.told
        /\ d.properties = c.properties /\ d.snapshot = c.snapshot
    BY <1>2 DEF ClientType
  <1> HIDE DEF d
  <1> QED
    BY <1>1, <1>3, <1>4

LEMMA ReplaceTimesOutKeeps ==
    ASSUME ClientInv, Client!ReplaceTimesOut
    PROVE  ClientInv'
  <1> USE DEF ClientInv
  <1> DEFINE n == [client EXCEPT !.operation.step = "VerifyProperties"]
             call == [kind |-> "VerifyProperties", awaited |-> TRUE]
             a == [client EXCEPT !.operation.retry = TRUE]
  <1>1. During({"Replace"}) /\ During(Saves) /\ ~During({"SavedApply"})
    BY DEF Client!ReplaceTimesOut, Client!Awaiting, During, Saves, Op
  <1>2. /\ client.operation \in SaveOperation /\ client \in ClientType
        /\ client.told = None
        /\ Shows(client)
    BY <1>1, OperationIs, ShowsAsBefore DEF ClientTypes, Op, OperationHolds, During
  <1>3. \/ Client!GiveUp(n, <<call>>)
        \/ Client!GiveUp(a, <<Client!Replacement(client.operation)>>)
    BY DEF Client!ReplaceTimesOut, Client!Verify, Client!VerifyCall, Client!Retried
  <1>4. CASE Client!GiveUp(n, <<call>>)
    <2>1. /\ n \in ClientType /\ n.operation \in OperationType
          /\ n.operation.step = "VerifyProperties"
          /\ n.operation.content = client.operation.content
          /\ n.operation.expected = client.operation.expected
          /\ n.operation.base = client.operation.base
          /\ n.told = client.told /\ n.properties = client.properties
          /\ n.snapshot = client.snapshot
      BY <1>2, SteppedIs DEF Saves
    <2>2. call \in PlainCall /\ call \in CallType /\ call.kind = "VerifyProperties"
      BY PlainCalls DEF Verifies
    <2>3. client' = n
      BY <1>4 DEF Client!GiveUp
    <2> HIDE DEF n, call
    <2>4. Shows(n)
      BY <1>2, <2>1 DEF Shows
    <2>5. Turned(call)
      BY <1>4, <2>1, <2>2, <2>4, GiveUpTurns
    <2> QED
      BY <1>1, <1>2, <2>1, <2>2, <2>3, <2>5, VerifyTurns DEF Op, Verifies, Saves
  <1>5. CASE Client!GiveUp(a, <<Client!Replacement(client.operation)>>)
    <2>1. /\ a \in ClientType /\ a.operation \in SaveOperation
          /\ a.operation.step = client.operation.step
          /\ a.operation.content = client.operation.content
          /\ a.operation.expected = client.operation.expected
          /\ a.operation.digest = client.operation.digest
          /\ a.operation.base = client.operation.base
          /\ a.told = client.told /\ a.properties = client.properties
          /\ a.snapshot = client.snapshot
      BY <1>2, RetriedIs
    <2>2. client' = a
      BY <1>5 DEF Client!GiveUp
    <2> HIDE DEF a
    <2> DEFINE o == a.operation
    <2>3. Client!Replacement(client.operation) = Client!Replacement(o)
      BY <2>1 DEF Client!Replacement
    <2>4. Client!Replacement(o) \in CallType
      BY <2>1, ReplacementIs
    <2>5. Shows(a)
      BY <1>2, <2>1 DEF Shows
    <2>6. Turned(Client!Replacement(o))
      BY <1>5, <2>1, <2>3, <2>4, <2>5, GiveUpTurns
    <2>7. Had(o.expected, o.base) /\ Op.content \in FromHere
      BY <1>1, <2>1 DEF OperationHolds, Op
    <2>8. o.content \in FromHere'
      BY <2>1, <2>6, <2>7 DEF Turned, Op
    <2>9. /\ o \in SaveOperation /\ o.step = "Replace"
          /\ During({"Replace"}) /\ o.content = Op.content
          /\ o.expected = Op.expected /\ o.digest = Op.digest
          /\ client'.told = None /\ client'.operation = o
      BY <1>1, <1>2, <2>1, <2>2 DEF During, Op
    <2> HIDE DEF o
    <2> QED
      BY <2>6, <2>7, <2>8, <2>9, ReplacementTurns
  <1> QED
    BY <1>3, <1>4, <1>5

LEMMA ApplyTimesOutKeeps ==
    ASSUME ClientInv, Client!ApplyTimesOut
    PROVE  ClientInv'
  <1> USE DEF ClientInv
  <1> DEFINE n == [client EXCEPT !.operation.step = "ReconcileProperties"]
             call == [kind |-> "ReconcileProperties", awaited |-> TRUE]
             a == [client EXCEPT !.operation.retry = TRUE]
  <1>1. During({"SavedApply"}) /\ During(Applies) /\ ~During(Saves)
    BY DEF Client!ApplyTimesOut, Client!Awaiting, During, Saves, Applies, Op
  <1>2. /\ client.operation \in ApplyOperation /\ client \in ClientType
        /\ client.told = None
        /\ Shows(client)
    BY <1>1, OperationIs, ShowsAsBefore DEF ClientTypes, Op, OperationHolds, During
  <1>3. \/ /\ Client!AppliedAsAsked(client.properties, client.operation)
           /\ Client!GiveUpAndRefresh(client, Client!Saved("Applied"))
        \/ Client!GiveUp(n, <<call>>)
        \/ Client!GiveUp(a, <<Client!Application(client.operation)>>)
    BY DEF Client!ApplyTimesOut
  <1>4. CASE /\ Client!AppliedAsAsked(client.properties, client.operation)
             /\ Client!GiveUpAndRefresh(client, Client!Saved("Applied"))
    <2>1. Op.content \in service.ran
      BY <1>1, <1>2, <1>4, AppliedAsAskedRan DEF Shows
    <2>2. /\ Client!Saved("Applied") \in ToldType
          /\ Client!Saved("Applied").outcome = "Applied"
          /\ Client!Saved("Applied").content = Op.content
      BY <1>1, SaveTold DEF SaveOutcomes, Client!Outcomes
    <2> QED
      BY <1>2, <1>4, <2>1, <2>2, GivenUpHolds
  <1>5. CASE Client!GiveUp(n, <<call>>)
    <2> DEFINE o == [client.operation EXCEPT !.step = "ReconcileProperties"]
               d == [client EXCEPT !.operation = o]
    <2>1. /\ o \in ApplyOperation /\ o.step = "ReconcileProperties"
          /\ o.content = client.operation.content
          /\ o.expected = client.operation.expected
      BY <1>2 DEF ApplyOperation, Applies
    <2>2. n = d
      BY <1>2 DEF ClientType
    <2>3. o \in OperationType
      BY <2>1 DEF OperationType
    <2>4. client' = n
      BY <1>5 DEF Client!GiveUp
    <2> HIDE DEF o, n
    <2>5. /\ d \in ClientType /\ d.operation = o /\ d.told = client.told
          /\ d.properties = client.properties /\ d.snapshot = client.snapshot
      BY <1>2, <2>3 DEF ClientType
    <2> HIDE DEF d
    <2>6. call \in PlainCall /\ call \in CallType /\ call.kind = "ReconcileProperties"
      BY PlainCalls DEF Verifies
    <2> HIDE DEF call
    <2>7. Shows(n)
      BY <1>2, <2>2, <2>5 DEF Shows
    <2>8. Turned(call)
      BY <1>5, <2>2, <2>5, <2>6, <2>7, GiveUpTurns
    <2> QED
      BY <1>1, <1>2, <2>1, <2>2, <2>3, <2>4, <2>5, <2>6, <2>8, VerifyTurns
         DEF Op, Verifies, Applies
  <1>6. CASE Client!GiveUp(a, <<Client!Application(client.operation)>>)
    <2>1. /\ a \in ClientType /\ a.operation \in ApplyOperation
          /\ a.operation.step = client.operation.step
          /\ a.operation.content = client.operation.content
          /\ a.operation.expected = client.operation.expected
          /\ a.operation.digest = client.operation.digest
          /\ a.told = client.told /\ a.properties = client.properties
          /\ a.snapshot = client.snapshot
      BY <1>2, RetriedIs
    <2>2. client' = a
      BY <1>6 DEF Client!GiveUp
    <2> HIDE DEF a
    <2> DEFINE o == a.operation
    <2>3. Client!Application(client.operation) = Client!Application(o)
      BY <2>1 DEF Client!Application
    <2>4. Client!Application(o) \in CallType
      BY <2>1, ApplicationIs
    <2>5. Shows(a)
      BY <1>2, <2>1 DEF Shows
    <2>6. Turned(Client!Application(o))
      BY <1>6, <2>1, <2>3, <2>4, <2>5, GiveUpTurns
    <2>7. Had(o.expected, o.content)
      BY <1>1, <2>1 DEF OperationHolds, Op
    <2>8. /\ o \in ApplyOperation /\ o.step = "SavedApply"
          /\ client'.told = None /\ client'.operation = o
      BY <1>1, <1>2, <2>1, <2>2 DEF During, Op
    <2> HIDE DEF o
    <2> QED
      BY <2>6, <2>7, <2>8, ApplicationTurns
  <1> QED
    BY <1>3, <1>4, <1>5, <1>6

LEMMA OperationTimesOutKeeps ==
    ASSUME ClientInv, Client!OperationTimesOut
    PROVE  ClientInv'
  <1> USE DEF ClientInv
  <1> DEFINE n == [client EXCEPT !.token = None]
  <1>1. client \in ClientType /\ Shows(client)
    BY ShowsAsBefore DEF ClientTypes
  <1>2. /\ n \in ClientType /\ n.properties = client.properties
        /\ n.snapshot = client.snapshot
    BY <1>1 DEF ClientType
  <1>3. \/ /\ During(Saves) \/ During(Applies)
           /\ \E outcome \in {"Unconfirmed", "ApplyUnconfirmed"} :
                  Client!GiveUpAndRefresh(client, Client!Saved(outcome))
        \/ Client!GiveUpAndRefresh(client, Client!Told("Failed"))
        \/ Client!GiveUpAndRefresh(n, Client!Told("Failed"))
    BY DEF Client!OperationTimesOut, Client!Awaiting, During, Saves, Applies, Op
  <1> HIDE DEF n
  <1>4. Shows(n)
    BY <1>1, <1>2 DEF Shows
  <1>5. CASE /\ During(Saves) \/ During(Applies)
             /\ \E outcome \in {"Unconfirmed", "ApplyUnconfirmed"} :
                    Client!GiveUpAndRefresh(client, Client!Saved(outcome))
    <2>1. PICK outcome \in {"Unconfirmed", "ApplyUnconfirmed"} :
                  Client!GiveUpAndRefresh(client, Client!Saved(outcome))
      BY <1>5
    <2>2. Client!Saved(outcome) \in ToldType /\ Client!Saved(outcome).outcome = outcome
      BY <1>5, SaveTold DEF SaveOutcomes, Client!Outcomes
    <2> QED
      BY <1>1, <2>1, <2>2, GivenUpHolds
  <1>6. CASE Client!GiveUpAndRefresh(client, Client!Told("Failed"))
    BY <1>1, <1>6, SimpleTold, GivenUpHolds
  <1>7. CASE Client!GiveUpAndRefresh(n, Client!Told("Failed"))
    BY <1>2, <1>4, <1>7, SimpleTold, GivenUpHolds
  <1> QED
    BY <1>3, <1>5, <1>6, <1>7

-----------------------------------------------------------------------------
(* Reads that fail, and the refresh the user asks for *)

LEMMA ReadFailsKeeps ==
    ASSUME ClientInv, Client!ReadFails
    PROVE  ClientInv'
  <1> USE DEF ClientInv
  <1>1. /\ service' = service /\ operations' = operations
        /\ disturbances < MaxDisturbance /\ disturbances' = disturbances + 1
    BY DEF Client!ReadFails
  <1>2. disturbances' \in 0..MaxDisturbance
    BY <1>1, ClientAssumption DEF ClientTypes
  <1>3. /\ requests \in Seq(CallType) /\ inbox \in Seq(MessageType)
        /\ LastWaits(requests) /\ OneReply(inbox)
    BY DEF ClientTypes, BusHolds
  <1>4. PICK kind \in Client!ReadCalls :
            /\ client' = [Client!Without(client, kind) EXCEPT !.unread = TRUE]
            /\ \/ /\ inbox' = inbox
                  /\ \E i \in DOMAIN requests :
                         requests' = Client!At(requests, DOMAIN requests \ {i})
               \/ /\ requests' = requests
                  /\ \E i \in DOMAIN inbox :
                         /\ inbox[i].kind = kind
                         /\ inbox' = Client!At(inbox, DOMAIN inbox \ {i})
    BY DEF Client!ReadFails, Client!IsRead
  <1>5. /\ client' \in ClientType /\ client'.operation = client.operation
        /\ client'.told = client.told /\ client'.snapshot = client.snapshot
        /\ client'.properties = client.properties
    <2> DEFINE w == Client!Without(client, kind)
    <2>1. /\ w \in ClientType /\ w.operation = client.operation /\ w.told = client.told
          /\ w.snapshot = client.snapshot /\ w.properties = client.properties
      BY WithoutIs DEF ClientTypes
    <2>2. client' = [w EXCEPT !.unread = TRUE]
      BY <1>4
    <2> HIDE DEF w
    <2> QED
      BY <2>1, <2>2 DEF ClientType
  <1>6. /\ requests' \in Seq(CallType) /\ LastWaits(requests)'
        /\ Els(requests)' \subseteq Els(requests)
        /\ inbox' \in Seq(MessageType) /\ OneReply(inbox)'
        /\ Els(inbox)' \subseteq Els(inbox)
        /\ \A m \in Els(inbox) : OwnerChanged(m) => m \in Els(inbox)'
    <2>1. CASE /\ inbox' = inbox
               /\ \E i \in DOMAIN requests :
                      requests' = Client!At(requests, DOMAIN requests \ {i})
      <3>1. PICK i \in DOMAIN requests :
                requests' = Client!At(requests, DOMAIN requests \ {i})
        BY <2>1
      <3> DEFINE r == Client!At(requests, DOMAIN requests \ {i})
      <3>2. r \in Seq(CallType) /\ LastWaits(r) /\ Els(r) \subseteq Els(requests)
        BY <1>3, RemovedIs
      <3> HIDE DEF r
      <3>3. requests' = r
        BY <3>1 DEF r
      <3> QED
        BY <1>3, <2>1, <3>2, <3>3 DEF Els, LastWaits, OneReply
    <2>2. CASE /\ requests' = requests
               /\ \E i \in DOMAIN inbox :
                      /\ inbox[i].kind = kind
                      /\ inbox' = Client!At(inbox, DOMAIN inbox \ {i})
      <3>1. PICK i \in DOMAIN inbox :
                inbox[i].kind = kind /\ inbox' = Client!At(inbox, DOMAIN inbox \ {i})
        BY <2>2
      <3> DEFINE r == Client!At(inbox, DOMAIN inbox \ {i})
      <3>2. /\ r \in Seq(MessageType) /\ OneReply(r) /\ Els(r) \subseteq Els(inbox)
            /\ \A m \in Els(inbox) : m = inbox[i] \/ m \in Els(r)
        BY <1>3, RemovedIs
      <3> HIDE DEF r
      <3>3. inbox' = r
        BY <3>1 DEF r
      <3>4. ~OwnerChanged(inbox[i])
        BY <3>1, NamesDiffer DEF StepNames
      <3>5. Els(inbox)' = Els(r) /\ Els(requests)' = Els(requests)
        BY <2>2, <3>3 DEF Els
      <3> QED
        BY <1>3, <2>2, <3>2, <3>3, <3>4, <3>5 DEF LastWaits, OneReply
    <2> QED
      BY <1>4, <2>1, <2>2
  <1>7. ClientTypes'
    BY <1>1, <1>2, <1>5, <1>6 DEF ClientTypes
  <1>8. Shows(client')
    BY <1>5, ShowsAsBefore DEF Shows
  <1>9. ServiceHolds' /\ \A r \in Nat, c \in Contents : Had(r, c) => Had(r, c)'
    BY <1>1, <1>6, <1>7, <1>8, ClientKeeps DEF Shows
  <1> QED
    BY <1>1, <1>5, <1>6, <1>7, <1>9, QuietHolds

LEMMA RefreshAskedKeeps ==
    ASSUME ClientInv, Client!RefreshAsked
    PROVE  ClientInv'
  <1> USE DEF ClientInv
  <1>1. /\ Op = None /\ client.operation = None /\ Client!Refreshed(client, inbox)
        /\ service' = service /\ disturbances' = disturbances
        /\ operations < MaxOperation /\ operations' = operations + 1
    BY DEF Client!RefreshAsked, Op
  <1>2. operations' \in {operations, operations + 1} \cap (0..MaxOperation)
    BY <1>1, ClientAssumption DEF ClientTypes
  <1>3. /\ \A m \in Els(requests) : ~Waiting(m)
        /\ \A m \in Els(inbox) : ~IsReply(m)
    BY <1>1, NothingWaits
  <1>4. client \in ClientType /\ inbox \in Seq(MessageType) /\ Shows(client)
    BY ShowsAsBefore DEF ClientTypes
  <1>5. client.told # None =>
            /\ client.told.outcome = "Refused" => Refused(client.told.content)
            /\ client.told.outcome = "Applied" => client.told.content \in service.ran
    BY DEF ToldHolds
  <1> QED
    BY <1>1, <1>2, <1>3, <1>4, <1>5, ReadsAgainHolds

-----------------------------------------------------------------------------
(* What the service and the others leave true *)

\* What a step of the service stores: nothing, something of another author, or
\* what a call asks that names the revision and the catalog it replaces.
StoredBy(next) ==
    \/ next.revision = service.revision /\ next.content = service.content
    \/ /\ next.revision = service.revision + 1
       /\ \/ next.content[1] # "mine"
          \/ \E m \in Els(requests) :
                 /\ m.kind = "Replace" /\ m.content = next.content
                 /\ m.revision = service.revision /\ m.digest = service.digest
                 /\ next.digest = service.digest

AppliedBy(next) ==
    /\ service.ran \subseteq next.ran
    /\ \/ next.applied = service.applied
       \/ next.applied = next.revision /\ next.content \in next.ran
    /\ next.activation = "none" => next.applied = next.revision

\* One that leaves is announced, and so is one of another release.
SettledBy(next) ==
    \/ \E m \in Els(inbox)' : OwnerChanged(m)
    \/ /\ next.up = service.up
       /\ next.available => service.available
       /\ next.digest = service.digest

LEMMA ServiceMoves ==
    ASSUME ClientInv, ClientTypes', client' = client, operations' = operations,
           StoredBy(service'), AppliedBy(service'), SettledBy(service'),
           Els(requests)' \subseteq Els(requests), LastWaits(requests)',
           Els(inbox) \subseteq Els(inbox)', OneReply(inbox)',
           \A m \in Els(inbox)' :
               \/ m \in Els(inbox)
               \/ /\ MessageHolds(m)'
                  /\ HasProperties(m) => m.properties.applied = service'.applied,
           \A m \in Els(requests)' : Waiting(m) => \A n \in Els(inbox)' : ~IsReply(n)
    PROVE  ClientInv'
  <1> USE DEF ClientInv
  <1>1. Op' = Op /\ FromHere' = FromHere /\ \A s : During(s)' <=> During(s)
    BY DEF Op, FromHere, During
  <1>2. Settles' => Settles
    BY DEF Settles, SettledBy
  <1>3. \A c \in FromHere : c[1] = "mine"
    BY DEF FromHere, Client!Mine
  <1>4. ASSUME NEW c \in FromHere, NotStored(c) PROVE NotStored(c)'
    <2>1. service'.content # c
      BY <1>3, <1>4 DEF NotStored, StoredBy
    <2> QED
      BY <1>4, <2>1 DEF NotStored
  <1>5. AppliedRevisions' \subseteq AppliedRevisions \cup {service'.applied}
    BY DEF AppliedRevisions
  <1>6. service.applied \in AppliedRevisions
    BY DEF AppliedRevisions
  <1>7. /\ \A r \in Nat, c \in Contents : Had(r, c) => Had(r, c)'
        /\ Had(service.revision, service.content)'
        /\ \A r \in AppliedRevisions' : r <= service'.revision
    BY <1>5, <1>6, HadStays DEF StoredBy, AppliedBy
  <1>8. Els(requests) \subseteq CallType /\ Els(inbox) \subseteq MessageType
    BY ElementsAre DEF ClientTypes
  <1>9. \A m \in Els(requests) : CallHolds(m)
    BY DEF BusHolds
  <1>10. ServiceHolds'
    <2>1. Had(client.snapshot.revision, client.snapshot.content)'
      <3>1. PICK r \in Nat : r = client.snapshot.revision
        BY DEF ClientTypes, ClientType, SnapshotType
      <3>2. PICK c \in Contents : c = client.snapshot.content
        BY DEF ClientTypes, ClientType, SnapshotType
      <3>3. Had(r, c)'
        BY <1>7, <3>1, <3>2 DEF ServiceHolds
      <3> QED
        BY <3>1, <3>2, <3>3 DEF Had
    <2>2. service'.content[1] = "mine" => service'.content \in FromHere
      BY <1>9 DEF StoredBy, ServiceHolds, CallHolds
    <2>3. HasRevision(client.properties)'
      BY DEF ServiceHolds, HasRevision
    <2>4. service'.activation = "none" => service'.applied = service'.revision
      BY DEF AppliedBy
    <2> QED
      BY <1>1, <1>7, <2>1, <2>2, <2>3, <2>4 DEF ServiceHolds
  <1>11. ASSUME During({"Replace"}), service'.content = Op.content
         PROVE  /\ service'.revision = Op.expected + 1
                /\ service'.digest = Op.digest \/ \E m \in Els(inbox)' : OwnerChanged(m)
    <2>1. Op.content \in FromHere /\ Op.content[1] = "mine"
      BY <1>3, <1>11 DEF OperationHolds, During, Saves
    <2>2. CASE service'.revision = service.revision /\ service'.content = service.content
      <3>1. /\ service.revision = Op.expected + 1
            /\ service.digest = Op.digest \/ \E m \in Els(inbox) : OwnerChanged(m)
        BY <1>11, <2>2 DEF OperationHolds
      <3> QED
        BY <2>2, <3>1 DEF SettledBy
    <2>3. CASE \E m \in Els(requests) :
                   /\ service'.revision = service.revision + 1
                   /\ m.kind = "Replace" /\ m.content = service'.content
                   /\ m.revision = service.revision /\ m.digest = service.digest
                   /\ service'.digest = service.digest
      <3>1. PICK m \in Els(requests) :
                   /\ service'.revision = service.revision + 1
                   /\ m.kind = "Replace" /\ m.content = service'.content
                   /\ m.revision = service.revision /\ m.digest = service.digest
                   /\ service'.digest = service.digest
        BY <2>3
      <3>2. m.revision = Op.expected /\ m.digest = Op.digest
        BY <1>9, <1>11, <3>1 DEF CallHolds
      <3> QED
        BY <3>1, <3>2
    <2> QED
      BY <1>11, <2>1, <2>2, <2>3 DEF StoredBy
  <1>12. OperationHolds'
    BY <1>1, <1>7, <1>11, OperationStays
  <1>13. ToldHolds'
    BY <1>1, <1>2, <1>4, ToldStays DEF AppliedBy
  <1>14. ASSUME NEW m \in Els(requests)' PROVE CallHolds(m)'
    <2>1. m \in CallType /\ CallHolds(m) /\ Same(m, m)
      BY <1>8, <1>9, CallIs
    <2>2. During({"Replace"})' => During({"Replace"})
      BY <1>1
    <2> QED
      BY <2>1, <2>2, <1>1, <1>7, CallStays
  <1>15. ASSUME NEW m \in Els(inbox)' PROVE MessageHolds(m)'
    <2>1. CASE m \in Els(inbox)
      <3>1. m \in MessageType /\ MessageHolds(m)
        BY <1>8, <2>1 DEF BusHolds
      <3> QED
        BY <3>1, <1>1, <1>2, <1>4, <1>7, MessageStays DEF AppliedBy
    <2> QED
      BY <2>1
  <1>16. BusHolds'
    BY <1>14, <1>15 DEF BusHolds
  <1> QED
    BY <1>10, <1>12, <1>13, <1>16

LEMMA PublishedIs ==
    ASSUME NEW s \in ServiceType,
           s.preview # None => s.preview.id \in 1..s.previews
    PROVE  /\ Client!Published(s) \in PropertiesType
           /\ Client!Published(s).applied = s.applied
           /\ HasRevision(Client!Published(s))
  <1>1. s.preview # None => s.preview.id \in Nat
    BY DEF ServiceType
  <1> QED
    BY <1>1 DEF ServiceType, Client!Published, PropertiesType, HasRevision

LEMMA AnnouncedIs ==
    ASSUME NEW next \in ServiceType,
           next.preview # None => next.preview.id \in 1..next.previews
    PROVE  /\ Client!Announced(next) \in Seq(MessageType)
           /\ OneReply(Client!Announced(next))
           /\ \A m \in Els(Client!Announced(next)) :
                  /\ m \in MessageType /\ m.kind = "PropertiesChanged"
                  /\ m.properties.applied = next.applied /\ HasRevision(m.properties)
  <1> DEFINE p == Client!Published(next)
             m == [kind |-> "PropertiesChanged", properties |-> p,
                   hydration |-> Client!Hydration(Client!Published(service))
                                 # Client!Hydration(p)]
  <1>1. p \in PropertiesType /\ p.applied = next.applied /\ HasRevision(p)
    BY PublishedIs
  <1>2. Client!Announced(next) = <<>> \/ Client!Announced(next) = <<m>>
    BY DEF Client!Announced
  <1> HIDE DEF p
  <1>3. /\ m \in MessageType /\ m.kind = "PropertiesChanged" /\ m.properties = p
    BY <1>1 DEF MessageType
  <1> HIDE DEF m
  <1>4. <<m>> \in Seq(MessageType) /\ Els(<<m>>) = {m} /\ OneReply(<<m>>)
    BY <1>3, SingleIs
  <1>5. <<>> \in Seq(MessageType) /\ Els(<<>>) = {} /\ OneReply(<<>>)
    BY EmptyIs
  <1>6. CASE Client!Announced(next) = <<>>
    BY <1>5, <1>6
  <1>7. CASE Client!Announced(next) = <<m>>
    BY <1>1, <1>3, <1>4, <1>7
  <1> QED
    BY <1>2, <1>6, <1>7

LEMMA TailWaits ==
    ASSUME NEW q \in Seq(CallType), q # <<>>, LastWaits(q)
    PROVE  /\ LastWaits(Tail(q))
           /\ Waiting(Head(q)) => \A m \in Els(Tail(q)) : Client!IsRead(m)
  <1> DEFINE t == Tail(q)
             n == Len(q)
  <1>1. /\ n \in Nat \ {0} /\ DOMAIN q = 1..n /\ DOMAIN t = 1..(n - 1)
        /\ \A i \in 1..(n - 1) : t[i] = q[i + 1]
        /\ Head(q) = q[1]
    BY TailIs
  <1>2. \A i \in 1..(n - 1) : i + 1 \in 1..n /\ 1 < i + 1
    BY <1>1
  <1>3. 1 \in 1..n
    BY <1>1
  <1> HIDE DEF t, n
  <1>4. \A i, j \in 1..(n - 1) : i < j => i + 1 < j + 1
    BY <1>1
  <1>5. LastWaits(t)
    BY <1>1, <1>2, <1>4 DEF LastWaits
  <1>6. Waiting(q[1]) => \A i \in 1..(n - 1) : Client!IsRead(t[i])
    BY <1>1, <1>2, <1>3 DEF LastWaits
  <1>7. Waiting(Head(q)) => \A m \in Els(t) : Client!IsRead(m)
    BY <1>1, <1>6 DEF Els
  <1> QED
    BY <1>5, <1>7 DEF t

\* A state that a step of the service may leave.
Possible(next) ==
    /\ next \in ServiceType
    /\ next.preview # None => next.preview.id \in 1..next.previews
    /\ StoredBy(next) /\ AppliedBy(next)
    /\ next.up = service.up /\ next.digest = service.digest
    /\ next.available => service.available

\* An answer that is true of it.
TrueOf(next, reply) ==
    /\ reply \in MessageType /\ reply.kind = Client!Call.kind
    /\ HasProperties(reply) =>
           HasRevision(reply.properties) /\ reply.properties.applied = next.applied
    /\ HasSnapshot(reply) =>
           next = service /\ Had(reply.snapshot.revision, reply.snapshot.content)
    /\ reply.kind = "Replace" /\ ~reply.ok =>
           /\ next = service
           /\ ~(/\ service.available /\ Client!Call.revision + 1 = service.revision
                /\ Client!Call.digest = service.digest
                /\ Client!Call.content = service.content)
    /\ reply.kind = "SavedApply" /\ reply.ok => Client!Call.shown \in next.ran

LEMMA AnswersHold ==
    ASSUME ClientInv, requests # <<>>, NEW next, NEW reply,
           Possible(next), TrueOf(next, reply), Client!Answers(next, reply)
    PROVE  ClientInv'
  <1> USE DEF ClientInv
  <1> DEFINE call == Client!Call
             a == Client!Announced(next)
             ia == inbox \o a
             s == <<reply>>
             t == Tail(requests)
  <1>1. /\ service' = next /\ requests' = t
        /\ inbox' = ia \o (IF call.awaited THEN s ELSE <<>>)
        /\ client' = client /\ operations' = operations
        /\ disturbances' = disturbances
    BY DEF Client!Answers, Client!begun
  <1>2. /\ next \in ServiceType
        /\ next.preview # None => next.preview.id \in 1..next.previews
        /\ StoredBy(next) /\ AppliedBy(next) /\ SettledBy(next)
        /\ next.digest = service.digest /\ next.up = service.up
        /\ next.available => service.available
    BY DEF Possible, SettledBy
  <1>3. /\ reply \in MessageType /\ reply.kind = call.kind
    BY DEF TrueOf
  <1>4. /\ a \in Seq(MessageType) /\ OneReply(a)
        /\ \A m \in Els(a) :
              /\ m \in MessageType /\ m.kind = "PropertiesChanged"
              /\ m.properties.applied = next.applied /\ HasRevision(m.properties)
    BY <1>2, AnnouncedIs
  <1> HIDE DEF a
  <1>5. \A m : m.kind = "PropertiesChanged" => ~IsReply(m) /\ ~OwnerChanged(m)
    BY DEF IsReply, OwnerChanged, Client!IsSignal
  <1>6. /\ ia \in Seq(MessageType) /\ Els(ia) = Els(inbox) \cup Els(a) /\ OneReply(ia)
    BY <1>4, <1>5, ConcatIs DEF ClientTypes, BusHolds
  <1> HIDE DEF ia
  <1>7. /\ t \in Seq(CallType) /\ Els(t) \subseteq Els(requests)
        /\ call \in Els(requests) /\ call \in CallType
        /\ \A m \in Els(requests) : m = call \/ m \in Els(t)
    BY TailIs DEF ClientTypes, Client!Call
  <1>8. /\ LastWaits(t)
        /\ Waiting(call) => \A m \in Els(t) : Client!IsRead(m)
    BY TailWaits DEF ClientTypes, BusHolds, Client!Call
  <1>9. CallHolds(call) /\ (Waiting(call) => \A n \in Els(inbox) : ~IsReply(n))
    BY <1>7 DEF BusHolds
  <1>10. /\ s \in Seq(MessageType) /\ Els(s) = {reply} /\ OneReply(s)
    BY <1>3, SingleIs
  <1>11. call.awaited /\ IsReply(reply) => Waiting(call)
    BY <1>3 DEF IsReply, Waiting, Client!IsRead
  <1>12. <<>> \in Seq(MessageType) /\ Els(<<>>) = {} /\ ia \o <<>> = ia
    BY <1>6, EmptyIs
  <1> HIDE DEF s, t
  <1>13. /\ inbox' \in Seq(MessageType) /\ OneReply(inbox)'
         /\ Els(inbox) \subseteq Els(inbox)'
         /\ \A m \in Els(inbox)' :
                m \in Els(inbox) \/ m \in Els(a) \/ (m = reply /\ call.awaited)
    <2>1. CASE call.awaited
      <3> DEFINE is == ia \o s
      <3>1. /\ is \in Seq(MessageType) /\ Els(is) = Els(ia) \cup Els(s)
            /\ OneReply(is)
        <4>1. (\A m \in Els(s) : ~IsReply(m)) \/ \A m \in Els(ia) : ~IsReply(m)
          BY <1>4, <1>5, <1>6, <1>9, <1>10, <1>11, <2>1
        <4> QED
          BY <1>6, <1>10, <4>1, ConcatIs
      <3> HIDE DEF is
      <3>2. inbox' = is
        BY <1>1, <2>1 DEF is
      <3>3. Els(inbox)' = Els(is) /\ (OneReply(inbox)' <=> OneReply(is))
        BY <3>2 DEF Els, OneReply
      <3>4. \A m \in Els(inbox)' : m \in Els(inbox) \/ m \in Els(a) \/ m = reply
        BY <1>6, <1>10, <3>1, <3>3
      <3>5. Els(inbox) \subseteq Els(inbox)'
        BY <1>6, <3>1, <3>3
      <3> QED
        BY <2>1, <3>1, <3>2, <3>3, <3>4, <3>5
    <2>2. CASE ~call.awaited
      <3>1. inbox' = ia
        BY <1>1, <1>12, <2>2
      <3> QED
        BY <1>6, <3>1 DEF Els, OneReply
    <2> QED
      BY <2>1, <2>2
  <1>14. ClientTypes'
    BY <1>1, <1>2, <1>7, <1>13 DEF ClientTypes
  <1>15. /\ Els(requests)' = Els(t) /\ LastWaits(requests)'
    BY <1>1, <1>8 DEF Els, LastWaits
  <1>16. \A m \in Els(requests)' : Waiting(m) => \A n \in Els(inbox)' : ~IsReply(n)
    <2> SUFFICES ASSUME NEW m \in Els(t), Waiting(m), NEW n \in Els(inbox)'
                 PROVE  ~IsReply(n)
      BY <1>15
    <2>1. ~Waiting(call)
      BY <1>8 DEF Waiting
    <2>2. \A x \in Els(inbox) : ~IsReply(x)
      BY <1>7 DEF BusHolds
    <2> QED
      BY <2>1, <2>2, <1>4, <1>5, <1>11, <1>13
  <1>17. ASSUME NEW m \in Els(a)
         PROVE  MessageHolds(m)' /\ m.properties.applied = service'.applied
    <2>1. m.kind = "PropertiesChanged" /\ ~IsReply(m) /\ HasRevision(m.properties)
          /\ m.properties.applied = next.applied
      BY <1>4, <1>5
    <2> QED
      BY <1>1, <2>1 DEF MessageHolds, HasSnapshot
  <1>18. ASSUME call.awaited
         PROVE  /\ MessageHolds(reply)'
                /\ HasProperties(reply) => reply.properties.applied = service'.applied
    <2>1. Op' = Op
      BY <1>1 DEF Op
    <2>2. IsReply(reply) => During({reply.kind})'
      BY <1>3, <1>9, <1>11, <1>18, <2>1 DEF CallHolds, During
    <2>3. HasSnapshot(reply) => Had(reply.snapshot.revision, reply.snapshot.content)'
      <3> HAVE HasSnapshot(reply)
      <3>1. service' = service /\ Had(reply.snapshot.revision, reply.snapshot.content)
        BY <1>1 DEF TrueOf
      <3>2. AppliedRevisions' \subseteq AppliedRevisions
        BY <1>1, <1>4, <1>13, <3>1 DEF AppliedRevisions, TrueOf
      <3> QED
        BY <3>1, <3>2 DEF Had
    <2>4. ASSUME reply.kind = "Replace", ~reply.ok, Settles' PROVE NotStored(Op.content)'
      <3>1. Waiting(call) /\ call.kind = "Replace"
        BY <1>3, <1>18, <2>4 DEF Waiting, Client!IsRead, Client!ReadCalls
      <3>2. /\ During({"Replace"}) /\ call.content = Op.content
            /\ call.revision = Op.expected /\ call.digest = Op.digest
        BY <1>9, <3>1 DEF CallHolds
      <3>3. /\ service' = service
            /\ ~(/\ service.available /\ call.revision + 1 = service.revision
                 /\ call.digest = service.digest /\ call.content = service.content)
        BY <1>1, <2>4 DEF TrueOf
      <3>4. service.available /\ \A m \in Els(inbox) : ~OwnerChanged(m)
        BY <1>13, <2>4, <3>3 DEF Settles
      <3>5. service.content # Op.content
        BY <3>2, <3>3, <3>4 DEF OperationHolds
      <3>6. \A m \in Els(requests)' : m.kind # "Replace"
        BY <1>8, <1>15, <3>1 DEF Client!IsRead, Client!ReadCalls
      <3> QED
        BY <2>1, <3>3, <3>5, <3>6 DEF NotStored
    <2>5. reply.kind = "SavedApply" /\ reply.ok => Op'.content \in service'.ran
      <3> HAVE reply.kind = "SavedApply" /\ reply.ok
      <3>1. Waiting(call) /\ call.kind = "SavedApply"
        BY <1>3, <1>18 DEF Waiting, Client!IsRead, Client!ReadCalls
      <3>2. call.shown = Op.content
        BY <1>9, <3>1 DEF CallHolds
      <3> QED
        BY <1>1, <2>1, <3>2 DEF TrueOf
    <2>6. HasProperties(reply) =>
              HasRevision(reply.properties) /\ reply.properties.applied = service'.applied
      BY <1>1 DEF TrueOf
    <2> QED
      BY <2>2, <2>3, <2>4, <2>5, <2>6 DEF MessageHolds
  <1>19. \A m \in Els(inbox)' :
               \/ m \in Els(inbox)
               \/ /\ MessageHolds(m)'
                  /\ HasProperties(m) => m.properties.applied = service'.applied
    <2> TAKE m \in Els(inbox)'
    <2>1. CASE m \in Els(a)
      BY <1>17, <2>1
    <2>2. CASE m = reply /\ call.awaited
      BY <1>18, <2>2
    <2> QED
      BY <1>13, <2>1, <2>2
  <1>20. StoredBy(service') /\ AppliedBy(service') /\ SettledBy(service')
    BY <1>1, <1>2
  <1> QED
    BY <1>1, <1>7, <1>13, <1>14, <1>15, <1>16, <1>19, <1>20, ServiceMoves

\* What the service becomes, piece by piece.
LEMMA StoresIs ==
    ASSUME ClientTypes, NEW content \in Contents
    PROVE  LET n == Client!Stores(content)
           IN  /\ n \in ServiceType /\ n.revision = service.revision + 1
               /\ n.content = content /\ n.up = service.up /\ n.digest = service.digest
               /\ n.available = service.available /\ n.ran = service.ran
               /\ n.preview = service.preview /\ n.previews = service.previews
               /\ n.applied = service.applied
  <1>1. service \in ServiceType /\ service.revision + 1 \in Nat \ {0}
    BY DEF ClientTypes, ServiceType
  <1> QED
    BY <1>1 DEF ServiceType, Client!Stores

LEMMA RunsIs ==
    ASSUME NEW s \in ServiceType
    PROVE  LET n == Client!Runs(s)
           IN  /\ n \in ServiceType /\ n.revision = s.revision
               /\ n.content = s.content /\ n.up = s.up /\ n.digest = s.digest
               /\ n.available = s.available /\ n.ran = s.ran \cup {s.content}
               /\ n.preview = s.preview /\ n.previews = s.previews
               /\ n.applied = s.revision
  BY DEF ServiceType, Client!Runs

LEMMA RetainsIs ==
    ASSUME NEW s \in ServiceType, NEW activation \in {"reload", "restart"}
    PROVE  LET n == Client!Retains(s, activation)
           IN  /\ n \in ServiceType /\ n.revision = s.revision
               /\ n.content = s.content /\ n.up = s.up /\ n.digest = s.digest
               /\ n.available = s.available /\ n.ran = s.ran
               /\ n.preview = s.preview /\ n.previews = s.previews
               /\ n.applied = s.applied /\ n.activation = activation
  BY DEF ServiceType, Client!Retains

LEMMA PreviewsIs ==
    ASSUME ClientTypes, NEW mine \in BOOLEAN
    PROVE  LET n == Client!Previews(mine)
           IN  /\ n \in ServiceType /\ n.revision = service.revision
               /\ n.content = service.content /\ n.up = service.up
               /\ n.digest = service.digest /\ n.available = service.available
               /\ n.ran = service.ran /\ n.applied = service.applied
               /\ n.activation = service.activation
               /\ n.preview # None => n.preview.id \in 1..n.previews
  <1> DEFINE p == [id |-> service.previews + 1, mine |-> mine]
             n == [service EXCEPT !.previews = @ + 1, !.preview = p]
  <1>1. /\ service \in ServiceType /\ service.previews + 1 \in Nat
        /\ service.previews + 1 \in 1..(service.previews + 1)
    BY DEF ClientTypes, ServiceType
  <1>2. p \in [id: Nat, mine: BOOLEAN] /\ p.id = service.previews + 1
    BY <1>1
  <1> HIDE DEF p
  <1>3. /\ n \in ServiceType /\ n.revision = service.revision
        /\ n.content = service.content /\ n.up = service.up
        /\ n.digest = service.digest /\ n.available = service.available
        /\ n.ran = service.ran /\ n.applied = service.applied
        /\ n.activation = service.activation
        /\ n.preview = p /\ n.previews = service.previews + 1
    BY <1>1, <1>2 DEF ServiceType
  <1>4. n.preview.id \in 1..n.previews
    BY <1>1, <1>2, <1>3
  <1>5. Client!Previews(mine) = n
    BY DEF Client!Previews, p
  <1> HIDE DEF n
  <1> QED
    BY <1>3, <1>4, <1>5

LEMMA EndsPreview ==
    ASSUME NEW s \in ServiceType
    PROVE  LET n == [s EXCEPT !.preview = None]
           IN  /\ n \in ServiceType /\ n.revision = s.revision
               /\ n.content = s.content /\ n.up = s.up
               /\ n.digest = s.digest /\ n.available = s.available
               /\ n.ran = s.ran /\ n.applied = s.applied
               /\ n.activation = s.activation /\ n.preview = None
  BY DEF ServiceType

LEMMA AnotherIs ==
    ASSUME ClientTypes, NEW author \in {"theirs", "recovered", "display"}
    PROVE  Client!Another(author) \in Contents /\ Client!Another(author)[1] # "mine"
  <1>1. \A n \in Nat : <<author, n>> \in Contents /\ <<author, n>>[1] = author
    BY DEF Contents, Client!Authors
  <1>2. service.revision + 1 \in Nat
    BY DEF ClientTypes, ServiceType
  <1> QED
    BY <1>1, <1>2 DEF Client!Another

\* The states that the steps of the service leave are possible.
LEMMA RestIsPossible ==
    ASSUME ClientInv
    PROVE  Possible(service)
  BY DEF ClientInv, ClientTypes, ServiceHolds, Possible, StoredBy, AppliedBy

LEMMA RunIsPossible ==
    ASSUME ClientInv
    PROVE  Possible(Client!Runs(service)) /\ service.content \in Client!Runs(service).ran
  <1> DEFINE n == Client!Runs(service)
  <1>1. service \in ServiceType
    BY DEF ClientInv, ClientTypes
  <1>2. /\ n \in ServiceType /\ n.revision = service.revision
        /\ n.content = service.content /\ n.up = service.up /\ n.digest = service.digest
        /\ n.available = service.available /\ n.ran = service.ran \cup {service.content}
        /\ n.preview = service.preview /\ n.previews = service.previews
        /\ n.applied = service.revision
    BY <1>1, RunsIs
  <1> HIDE DEF n
  <1>3. n.preview # None => n.preview.id \in 1..n.previews
    BY <1>2 DEF ClientInv, ClientTypes
  <1>4. Possible(n) /\ service.content \in n.ran
    BY <1>2, <1>3 DEF Possible, StoredBy, AppliedBy
  <1> QED
    BY <1>4 DEF n

LEMMA StoreAndRunIsPossible ==
    ASSUME ClientInv, NEW author \in {"recovered", "display"}
    PROVE  LET n == Client!Runs(Client!Stores(Client!Another(author)))
           IN  Possible(n) /\ n \in ServiceType
  <1> DEFINE c == Client!Another(author)
             s == Client!Stores(c)
             n == Client!Runs(s)
  <1> USE DEF ClientInv
  <1>1. c \in Contents /\ c[1] # "mine"
    BY AnotherIs
  <1> HIDE DEF c
  <1>2. /\ s \in ServiceType /\ s.revision = service.revision + 1
        /\ s.content = c /\ s.up = service.up /\ s.digest = service.digest
        /\ s.available = service.available /\ s.ran = service.ran
        /\ s.preview = service.preview /\ s.previews = service.previews
    BY <1>1, StoresIs
  <1> HIDE DEF s
  <1>3. /\ n \in ServiceType /\ n.revision = s.revision
        /\ n.content = s.content /\ n.up = s.up /\ n.digest = s.digest
        /\ n.available = s.available /\ n.ran = s.ran \cup {s.content}
        /\ n.preview = s.preview /\ n.previews = s.previews
        /\ n.applied = s.revision
    BY <1>2, RunsIs
  <1> HIDE DEF n
  <1>4. n.preview # None => n.preview.id \in 1..n.previews
    BY <1>2, <1>3 DEF ClientTypes
  <1>5. Possible(n)
    BY <1>1, <1>2, <1>3, <1>4 DEF Possible, StoredBy, AppliedBy
  <1> QED
    BY <1>3, <1>5 DEF n, s, c

LEMMA EndIsPossible ==
    ASSUME ClientInv, NEW s, Possible(s)
    PROVE  Possible([s EXCEPT !.preview = None])
  <1> DEFINE n == [s EXCEPT !.preview = None]
  <1>1. s \in ServiceType
    BY DEF Possible
  <1>2. /\ n \in ServiceType /\ n.revision = s.revision
        /\ n.content = s.content /\ n.up = s.up
        /\ n.digest = s.digest /\ n.available = s.available
        /\ n.ran = s.ran /\ n.applied = s.applied
        /\ n.activation = s.activation /\ n.preview = None
    BY <1>1, EndsPreview
  <1> HIDE DEF n
  <1>3. Possible(n)
    BY <1>2 DEF Possible, StoredBy, AppliedBy
  <1> QED
    BY <1>3 DEF n

LEMMA PreviewIsPossible ==
    ASSUME ClientInv, NEW mine \in BOOLEAN
    PROVE  Possible(Client!Previews(mine))
  <1> DEFINE n == Client!Previews(mine)
  <1>1. /\ n \in ServiceType /\ n.revision = service.revision
        /\ n.content = service.content /\ n.up = service.up
        /\ n.digest = service.digest /\ n.available = service.available
        /\ n.ran = service.ran /\ n.applied = service.applied
        /\ n.activation = service.activation
        /\ n.preview # None => n.preview.id \in 1..n.previews
    BY PreviewsIs DEF ClientInv
  <1> HIDE DEF n
  <1>2. Possible(n)
    BY <1>1 DEF Possible, StoredBy, AppliedBy, ClientInv, ServiceHolds
  <1> QED
    BY <1>2 DEF n

LEMMA CallAsked ==
    ASSUME ClientInv, NEW kinds, Client!Asked(kinds)
    PROVE  /\ requests # <<>> /\ Client!Call \in CallType /\ Client!Call.kind \in kinds
           /\ CallHolds(Client!Call)
  BY TailIs DEF ClientInv, ClientTypes, BusHolds, Client!Asked, Client!Call

\* An answer that carries nothing but whether the call succeeded.
LEMMA ShortAnswers ==
    ASSUME NEW kind \in Writes \cup Answered, NEW ok \in BOOLEAN,
           ok => kind \notin {"Replace", "Preview"}
    PROVE  LET reply == [kind |-> kind, ok |-> ok]
           IN  /\ reply \in MessageType
               /\ ~HasProperties(reply) /\ ~HasSnapshot(reply)
  <1> DEFINE reply == [kind |-> kind, ok |-> ok]
  <1>1. reply.kind = kind /\ reply \in MessageType
    BY DEF MessageType
  <1> HIDE DEF reply
  <1>2. ~HasProperties(reply) /\ ~HasSnapshot(reply)
    BY <1>1 DEF HasProperties, HasSnapshot, Writes, Mutations, Answered
  <1> QED
    BY <1>1, <1>2 DEF reply

LEMMA RefusesHold ==
    ASSUME ClientInv, NEW next, Possible(next), requests # <<>>,
           Client!Call.kind \in (Writes \cup Answered) \ {"Replace"},
           Client!Answers(next, [kind |-> Client!Call.kind, ok |-> FALSE])
    PROVE  ClientInv'
  <1>1. PICK reply : reply = [kind |-> Client!Call.kind, ok |-> FALSE]
    OBVIOUS
  <1>2. /\ reply \in MessageType /\ ~HasProperties(reply) /\ ~HasSnapshot(reply)
        /\ reply.kind = Client!Call.kind /\ reply.ok = FALSE
    BY <1>1, ShortAnswers
  <1>3. TrueOf(next, reply)
    BY <1>2 DEF TrueOf
  <1>4. Client!Answers(next, reply)
    BY <1>1
  <1> QED
    BY <1>3, <1>4, AnswersHold

LEMMA AcceptedHolds ==
    ASSUME ClientInv, NEW next, Possible(next), requests # <<>>,
           Client!Call.kind \in (Writes \cup Answered) \ {"Replace", "Preview"},
           Client!Call.kind = "SavedApply" => Client!Call.shown \in next.ran,
           Client!Accepted(next)
    PROVE  ClientInv'
  <1>1. PICK reply : reply = [kind |-> Client!Call.kind, ok |-> TRUE]
    OBVIOUS
  <1>2. /\ reply \in MessageType /\ ~HasProperties(reply) /\ ~HasSnapshot(reply)
        /\ reply.kind = Client!Call.kind /\ reply.ok = TRUE
    BY <1>1, ShortAnswers
  <1>3. TrueOf(next, reply)
    BY <1>2 DEF TrueOf
  <1>4. Client!Answers(next, reply)
    BY <1>1 DEF Client!Accepted
  <1> QED
    BY <1>3, <1>4, AnswersHold

LEMMA GetPropertiesKeeps ==
    ASSUME ClientInv, Client!GetProperties
    PROVE  ClientInv'
  <1>1. /\ requests # <<>>
        /\ Client!Call.kind \in {"GetAll", "VerifyProperties", "ReconcileProperties"}
    BY CallAsked DEF Client!GetProperties
  <1>2. PICK p : p = Client!Published(service)
    OBVIOUS
  <1>3. p \in PropertiesType /\ p.applied = service.applied /\ HasRevision(p)
    BY <1>2, PublishedIs DEF ClientInv, ClientTypes
  <1>4. PICK reply : reply = [kind |-> Client!Call.kind, properties |-> p]
    OBVIOUS
  <1>5. /\ reply \in MessageType /\ reply.kind = Client!Call.kind /\ reply.properties = p
    BY <1>1, <1>3, <1>4 DEF MessageType
  <1>6. TrueOf(service, reply)
    BY <1>1, <1>3, <1>5 DEF TrueOf, HasSnapshot
  <1>7. Client!Answers(service, reply)
    BY <1>2, <1>4 DEF Client!GetProperties
  <1>8. PICK next : next = service /\ Possible(next)
    BY RestIsPossible
  <1> QED
    BY <1>1, <1>6, <1>7, <1>8, AnswersHold

LEMMA GetSnapshotKeeps ==
    ASSUME ClientInv, Client!GetSnapshot
    PROVE  ClientInv'
  <1>1. requests # <<>> /\ Client!Call.kind \in {"GetSnapshot", "VerifySnapshot"}
    BY CallAsked DEF Client!GetSnapshot
  <1>2. PICK s : s = [revision |-> Client!Published(service).revision,
                      content |-> service.content, digest |-> service.digest]
    OBVIOUS
  <1>3. /\ service.content \in Contents /\ service.digest \in Nat
        /\ service.revision \in Nat \ {0}
    BY DEF ClientInv, ClientTypes, ServiceType
  <1>4. /\ s.revision = service.revision \/ s.revision = 0
        /\ s.content = service.content /\ s.digest = service.digest
    BY <1>2 DEF Client!Published
  <1>5. s \in SnapshotType
    BY <1>2, <1>3, <1>4 DEF SnapshotType
  <1>6. Had(s.revision, s.content)
    BY <1>3, <1>4 DEF ClientInv, ServiceHolds, Had
  <1>7. PICK reply : reply = [kind |-> Client!Call.kind, snapshot |-> s]
    OBVIOUS
  <1>8. /\ reply \in MessageType /\ reply.kind = Client!Call.kind /\ reply.snapshot = s
    BY <1>1, <1>5, <1>7 DEF MessageType
  <1>9. PICK next : next = service /\ Possible(next)
    BY RestIsPossible
  <1>10. TrueOf(next, reply)
    BY <1>1, <1>6, <1>8, <1>9 DEF TrueOf, HasProperties
  <1>11. Client!Answers(next, reply)
    BY <1>2, <1>7, <1>9 DEF Client!GetSnapshot
  <1> QED
    BY <1>1, <1>9, <1>10, <1>11, AnswersHold

LEMMA GetCatalogsKeep ==
    ASSUME ClientInv,
           \/ Client!GetCatalog \/ Client!GetConnectedDisplays
           \/ Client!GetPendingDisplayConfirmation
    PROVE  ClientInv'
  <1>1. PICK next : next = service /\ Possible(next)
    BY RestIsPossible
  <1>2. CASE Client!GetCatalog
    <2>1. requests # <<>> /\ Client!Call.kind \in {"GetOptionCatalog", "GetActionCatalog"}
      BY <1>2, CallAsked DEF Client!GetCatalog
    <2>2. PICK reply : reply = [kind |-> Client!Call.kind, digest |-> service.digest]
      OBVIOUS
    <2>3. reply \in MessageType /\ reply.kind = Client!Call.kind
      BY <2>1, <2>2 DEF MessageType, ClientInv, ClientTypes, ServiceType
    <2>4. TrueOf(next, reply)
      BY <2>1, <2>3 DEF TrueOf, HasProperties, HasSnapshot
    <2>5. Client!Answers(next, reply)
      BY <1>1, <1>2, <2>2 DEF Client!GetCatalog
    <2> QED
      BY <1>1, <2>1, <2>4, <2>5, AnswersHold
  <1>3. CASE Client!GetConnectedDisplays
    <2>1. requests # <<>> /\ Client!Call.kind = "GetConnectedDisplays"
      BY <1>3, CallAsked DEF Client!GetConnectedDisplays
    <2>2. PICK reply : reply = [kind |-> Client!Call.kind]
      OBVIOUS
    <2>3. reply \in MessageType /\ reply.kind = Client!Call.kind
      BY <2>1, <2>2 DEF MessageType
    <2>4. TrueOf(next, reply)
      BY <2>1, <2>3 DEF TrueOf, HasProperties, HasSnapshot
    <2>5. Client!Answers(next, reply)
      BY <1>1, <1>3, <2>2 DEF Client!GetConnectedDisplays
    <2> QED
      BY <1>1, <2>1, <2>4, <2>5, AnswersHold
  <1>4. CASE Client!GetPendingDisplayConfirmation
    <2>1. requests # <<>> /\ Client!Call.kind = "GetPendingDisplayConfirmation"
      BY <1>4, CallAsked DEF Client!GetPendingDisplayConfirmation
    <2>2. PICK token : token = IF service.preview # None /\ service.preview.mine
                               THEN service.preview.id ELSE None
      OBVIOUS
    <2>3. token \in Nat \cup {None}
      BY <2>2 DEF ClientInv, ClientTypes, ServiceType
    <2>4. PICK reply : reply = [kind |-> Client!Call.kind, token |-> token]
      OBVIOUS
    <2>5. reply \in MessageType /\ reply.kind = Client!Call.kind
      BY <2>1, <2>3, <2>4 DEF MessageType
    <2>6. TrueOf(next, reply)
      BY <2>1, <2>5 DEF TrueOf, HasProperties, HasSnapshot
    <2>7. Client!Answers(next, reply)
      BY <1>1, <1>4, <2>2, <2>4 DEF Client!GetPendingDisplayConfirmation
    <2> QED
      BY <1>1, <2>1, <2>6, <2>7, AnswersHold
  <1> QED
    BY <1>2, <1>3, <1>4

LEMMA RetainIsPossible ==
    ASSUME ClientInv, NEW content \in Contents, NEW activation \in {"reload", "restart"},
           \/ content[1] # "mine"
           \/ \E m \in Els(requests) :
                  /\ m.kind = "Replace" /\ m.content = content
                  /\ m.revision = service.revision /\ m.digest = service.digest
    PROVE  Possible(Client!Retains(Client!Stores(content), activation))
  <1> DEFINE s == Client!Stores(content)
             n == Client!Retains(s, activation)
  <1> USE DEF ClientInv
  <1>1. /\ s \in ServiceType /\ s.revision = service.revision + 1
        /\ s.content = content /\ s.up = service.up /\ s.digest = service.digest
        /\ s.available = service.available /\ s.ran = service.ran
        /\ s.preview = service.preview /\ s.previews = service.previews
        /\ s.applied = service.applied
    BY StoresIs
  <1> HIDE DEF s
  <1>2. /\ n \in ServiceType /\ n.revision = s.revision
        /\ n.content = s.content /\ n.up = s.up /\ n.digest = s.digest
        /\ n.available = s.available /\ n.ran = s.ran
        /\ n.preview = s.preview /\ n.previews = s.previews
        /\ n.applied = s.applied /\ n.activation = activation
    BY <1>1, RetainsIs
  <1> HIDE DEF n
  <1>3. n.preview # None => n.preview.id \in 1..n.previews
    BY <1>1, <1>2 DEF ClientTypes
  <1>4. Possible(n)
    BY <1>1, <1>2, <1>3 DEF Possible, StoredBy, AppliedBy
  <1> QED
    BY <1>4 DEF n, s

LEMMA ReplaceSnapshotKeeps ==
    ASSUME ClientInv, Client!ReplaceSnapshot
    PROVE  ClientInv'
  <1> DEFINE call == Client!Call
             Stored == /\ service.available /\ call.revision + 1 = service.revision
                       /\ call.digest = service.digest /\ call.content = service.content
  <1>1. requests # <<>> /\ call.kind = "Replace" /\ call \in CallType
        /\ call \in Els(requests)
    BY CallAsked, TailIs DEF Client!ReplaceSnapshot, Client!Call, ClientInv, ClientTypes
  <1>2. call.content \in Contents
    BY <1>1, CallIs
  <1>3. PICK next : next = service /\ Possible(next)
    BY RestIsPossible
  <1>4. /\ service.revision \in Nat /\ service.revision + 1 \in Nat
    BY DEF ClientInv, ClientTypes, ServiceType
  <1>5. CASE Stored
    <2>1. PICK reply : reply = [kind |-> call.kind, ok |-> TRUE,
                                revision |-> service.revision]
      OBVIOUS
    <2>2. /\ reply \in MessageType /\ reply.kind = call.kind /\ reply.ok = TRUE
      BY <1>1, <1>4, <2>1 DEF MessageType
    <2>3. Client!Answers(next, reply)
      BY <1>3, <1>5, <2>1 DEF Client!ReplaceSnapshot
    <2>4. TrueOf(next, reply)
      BY <1>1, <2>2 DEF TrueOf, HasProperties, HasSnapshot
    <2> QED
      BY <1>1, <1>3, <2>3, <2>4, AnswersHold
  <1>6. CASE ~Stored /\ Client!Refuses
    <2>1. PICK reply : reply = [kind |-> call.kind, ok |-> FALSE]
      OBVIOUS
    <2>2. /\ reply \in MessageType /\ reply.kind = call.kind /\ reply.ok = FALSE
      BY <1>1, <2>1 DEF MessageType, Writes
    <2>3. Client!Answers(next, reply)
      BY <1>3, <1>6, <2>1 DEF Client!Refuses
    <2>4. TrueOf(next, reply)
      BY <1>1, <1>3, <1>6, <2>2 DEF TrueOf, HasProperties, HasSnapshot
    <2> QED
      BY <1>1, <1>3, <2>3, <2>4, AnswersHold
  <1>7. CASE ~Stored /\ ~Client!Refuses
    <2>1. Client!Authorized /\ \E activation \in {"reload", "restart"} :
              Client!Answers(Client!Retains(Client!Stores(call.content), activation),
                             [kind |-> call.kind, ok |-> TRUE,
                              revision |-> service.revision + 1])
      BY <1>7 DEF Client!ReplaceSnapshot
    <2>2. PICK activation \in {"reload", "restart"} :
              Client!Answers(Client!Retains(Client!Stores(call.content), activation),
                             [kind |-> call.kind, ok |-> TRUE,
                              revision |-> service.revision + 1])
      BY <2>1
    <2>3. PICK n : n = Client!Retains(Client!Stores(call.content), activation)
      OBVIOUS
    <2>4. call.revision = service.revision /\ call.digest = service.digest
      BY <2>1 DEF Client!Authorized
    <2>5. Possible(n)
      BY <1>1, <1>2, <2>3, <2>4, RetainIsPossible
    <2>6. PICK reply : reply = [kind |-> call.kind, ok |-> TRUE,
                                revision |-> service.revision + 1]
      OBVIOUS
    <2>7. /\ reply \in MessageType /\ reply.kind = call.kind /\ reply.ok = TRUE
      BY <1>1, <1>4, <2>6 DEF MessageType
    <2>8. Client!Answers(n, reply)
      BY <2>2, <2>3, <2>6
    <2>9. TrueOf(n, reply)
      BY <1>1, <2>7 DEF TrueOf, HasProperties, HasSnapshot
    <2> QED
      BY <1>1, <2>5, <2>8, <2>9, AnswersHold
  <1> QED
    BY <1>5, <1>6, <1>7

\* What an authorized call showed is what the service stores.
LEMMA AuthorizedShows ==
    ASSUME ClientInv, requests # <<>>, Client!Authorized, Client!Call.kind \in Writes
    PROVE  Client!Call.shown = service.content
  <1>1. CallHolds(Client!Call)
    BY TailIs DEF ClientInv, ClientTypes, BusHolds, Client!Call
  <1>2. Client!Call.revision = service.revision
    BY DEF Client!Authorized
  <1> QED
    BY <1>1, <1>2 DEF CallHolds, Had

LEMMA ApplyCallKeeps ==
    ASSUME ClientInv, Client!Apply
    PROVE  ClientInv'
  <1>1. requests # <<>> /\ Client!Call.kind \in {"Apply", "SavedApply"}
    BY CallAsked DEF Client!Apply
  <1>2. /\ Client!Call.kind \in (Writes \cup Answered) \ {"Replace", "Preview"}
        /\ Client!Call.kind \in Writes
    BY <1>1 DEF Writes, Mutations
  <1>3. PICK rest : rest = service /\ Possible(rest)
    BY RestIsPossible
  <1>4. PICK run :
               run = Client!Runs(service) /\ Possible(run) /\ service.content \in run.ran
    BY RunIsPossible
  <1>5. PICK failed : failed = [service EXCEPT !.applyState = "failed"]
    OBVIOUS
  <1>6. Possible(failed)
    <2>1. service \in ServiceType
      BY DEF ClientInv, ClientTypes
    <2>2. /\ failed \in ServiceType /\ failed.revision = service.revision
          /\ failed.content = service.content /\ failed.up = service.up
          /\ failed.digest = service.digest /\ failed.available = service.available
          /\ failed.ran = service.ran /\ failed.applied = service.applied
          /\ failed.activation = service.activation
          /\ failed.preview = service.preview /\ failed.previews = service.previews
      BY <1>5, <2>1 DEF ServiceType
    <2> QED
      BY <2>2 DEF Possible, StoredBy, AppliedBy, ClientInv, ClientTypes, ServiceHolds
  <1>7. \/ Client!Refuses
        \/ Client!Authorized /\ service.activation = "none" /\ Client!Accepted(service)
        \/ Client!Authorized /\ Client!Accepted(run)
        \/ Client!Answers(failed, [kind |-> Client!Call.kind, ok |-> FALSE])
    BY <1>4, <1>5 DEF Client!Apply
  <1>8. CASE Client!Refuses
    BY <1>1, <1>2, <1>3, <1>8, RefusesHold DEF Client!Refuses
  <1>9. CASE Client!Authorized /\ service.activation = "none" /\ Client!Accepted(service)
    <2>1. service.content \in service.ran
      <3>1. service.applied = service.revision /\ service.revision \in Nat \ {0}
        BY <1>9 DEF ClientInv, ServiceHolds, ClientTypes, ServiceType
      <3>2. service.applied \in AppliedRevisions
        BY DEF AppliedRevisions
      <3> QED
        BY <3>1, <3>2 DEF ClientInv, ServiceHolds, Had
    <2>2. Client!Call.shown = service.content
      BY <1>1, <1>2, <1>9, AuthorizedShows
    <2> QED
      BY <1>1, <1>2, <1>3, <1>9, <2>1, <2>2, AcceptedHolds
  <1>10. CASE Client!Authorized /\ Client!Accepted(run)
    <2>1. Client!Call.shown = service.content
      BY <1>1, <1>2, <1>10, AuthorizedShows
    <2> QED
      BY <1>1, <1>2, <1>4, <1>10, <2>1, AcceptedHolds
  <1>11. CASE Client!Answers(failed, [kind |-> Client!Call.kind, ok |-> FALSE])
    BY <1>1, <1>2, <1>6, <1>11, RefusesHold
  <1> QED
    BY <1>7, <1>8, <1>9, <1>10, <1>11, Zenon

LEMMA AdoptAndRecoverKeep ==
    ASSUME ClientInv, Client!Adopt \/ Client!Recover
    PROVE  ClientInv'
  <1>1. requests # <<>> /\ Client!Call.kind \in {"Adopt", "Recover"}
    BY CallAsked DEF Client!Adopt, Client!Recover
  <1>2. /\ Client!Call.kind \in (Writes \cup Answered) \ {"Replace", "Preview"}
        /\ Client!Call.kind # "SavedApply"
    BY <1>1 DEF Writes, Mutations
  <1>3. PICK rest : rest = service /\ Possible(rest)
    BY RestIsPossible
  <1>4. PICK run : run = Client!Runs(service) /\ Possible(run)
    BY RunIsPossible
  <1>5. PICK store : store = Client!Runs(Client!Stores(Client!Another("recovered")))
                     /\ Possible(store)
    BY StoreAndRunIsPossible
  <1>6. Client!Refuses \/ Client!Accepted(run) \/ Client!Accepted(store)
    BY <1>4, <1>5 DEF Client!Adopt, Client!Recover
  <1>7. CASE Client!Refuses
    BY <1>1, <1>2, <1>3, <1>7, RefusesHold DEF Client!Refuses
  <1>8. CASE Client!Accepted(run)
    BY <1>1, <1>2, <1>4, <1>8, AcceptedHolds
  <1>9. CASE Client!Accepted(store)
    BY <1>1, <1>2, <1>5, <1>9, AcceptedHolds
  <1> QED
    BY <1>6, <1>7, <1>8, <1>9

LEMMA PreviewDisplaysKeeps ==
    ASSUME ClientInv, Client!PreviewDisplays
    PROVE  ClientInv'
  <1>1. requests # <<>> /\ Client!Call.kind = "Preview"
    BY CallAsked DEF Client!PreviewDisplays
  <1>2. Client!Call.kind \in (Writes \cup Answered) \ {"Replace"}
    BY <1>1 DEF Writes, Mutations
  <1>3. PICK rest : rest = service /\ Possible(rest)
    BY RestIsPossible
  <1>4. PICK next : next = Client!Previews(TRUE) /\ Possible(next)
    BY PreviewIsPossible
  <1>5. PICK reply : reply = [kind |-> Client!Call.kind, ok |-> TRUE,
                              token |-> service.previews + 1]
    OBVIOUS
  <1>6. service.previews + 1 \in Nat
    BY DEF ClientInv, ClientTypes, ServiceType
  <1>7. /\ reply \in MessageType /\ reply.kind = Client!Call.kind /\ reply.ok = TRUE
    BY <1>1, <1>5, <1>6 DEF MessageType
  <1>8. Client!Refuses \/ Client!Answers(next, reply)
    BY <1>4, <1>5 DEF Client!PreviewDisplays
  <1>9. CASE Client!Refuses
    BY <1>1, <1>2, <1>3, <1>9, RefusesHold DEF Client!Refuses
  <1>10. CASE Client!Answers(next, reply)
    <2>1. TrueOf(next, reply)
      BY <1>1, <1>7 DEF TrueOf, HasProperties, HasSnapshot
    <2> QED
      BY <1>1, <1>4, <1>10, <2>1, AnswersHold
  <1> QED
    BY <1>8, <1>9, <1>10

LEMMA ConfirmAndRevertKeep ==
    ASSUME ClientInv, Client!Confirm \/ Client!Revert
    PROVE  ClientInv'
  <1>1. requests # <<>> /\ Client!Call.kind \in {"Confirm", "Revert"}
    BY CallAsked DEF Client!Confirm, Client!Revert
  <1>2. /\ Client!Call.kind \in (Writes \cup Answered) \ {"Replace", "Preview"}
        /\ Client!Call.kind # "SavedApply"
    BY <1>1 DEF Answered, Writes, Mutations
  <1>3. PICK rest : rest = service /\ Possible(rest)
    BY RestIsPossible
  <1>4. PICK store : store = Client!Runs(Client!Stores(Client!Another("display")))
                     /\ Possible(store)
    BY StoreAndRunIsPossible
  <1>5. PICK kept : kept = [store EXCEPT !.preview = None] /\ Possible(kept)
    BY <1>4, EndIsPossible
  <1>6. PICK back : back = [rest EXCEPT !.preview = None] /\ Possible(back)
    BY <1>3, EndIsPossible
  <1>7. Client!Refuses \/ Client!Accepted(kept) \/ Client!Accepted(back)
    BY <1>3, <1>4, <1>5, <1>6 DEF Client!Confirm, Client!Revert
  <1>8. CASE Client!Refuses
    BY <1>1, <1>2, <1>3, <1>8, RefusesHold DEF Client!Refuses
  <1>9. CASE Client!Accepted(kept)
    BY <1>1, <1>2, <1>5, <1>9, AcceptedHolds
  <1>10. CASE Client!Accepted(back)
    BY <1>1, <1>2, <1>6, <1>10, AcceptedHolds
  <1> QED
    BY <1>7, <1>8, <1>9, <1>10

LEMMA BecomesHolds ==
    ASSUME ClientInv, NEW next, Possible(next), Client!Becomes(next)
    PROVE  ClientInv'
  <1> USE DEF ClientInv
  <1> DEFINE a == Client!Announced(next)
             ia == inbox \o a
  <1>1. /\ service' = next /\ requests' = requests /\ inbox' = ia
        /\ client' = client /\ operations' = operations
        /\ disturbances < MaxDisturbance /\ disturbances' = disturbances + 1
    BY DEF Client!Becomes, Client!Disturbed
  <1>2. /\ next \in ServiceType
        /\ next.preview # None => next.preview.id \in 1..next.previews
        /\ StoredBy(next) /\ AppliedBy(next) /\ SettledBy(next)
    BY DEF Possible, SettledBy
  <1>3. /\ a \in Seq(MessageType) /\ OneReply(a)
        /\ \A m \in Els(a) :
              /\ m \in MessageType /\ m.kind = "PropertiesChanged"
              /\ m.properties.applied = next.applied /\ HasRevision(m.properties)
    BY <1>2, AnnouncedIs
  <1> HIDE DEF a
  <1>4. \A m : m.kind = "PropertiesChanged" => ~IsReply(m)
    BY DEF IsReply, Client!IsSignal
  <1>5. /\ ia \in Seq(MessageType) /\ Els(ia) = Els(inbox) \cup Els(a) /\ OneReply(ia)
    BY <1>3, <1>4, ConcatIs DEF ClientTypes, BusHolds
  <1> HIDE DEF ia
  <1>6. disturbances' \in 0..MaxDisturbance
    BY <1>1, ClientAssumption DEF ClientTypes
  <1>7. ClientTypes'
    BY <1>1, <1>2, <1>5, <1>6 DEF ClientTypes
  <1>8. Els(inbox)' = Els(ia) /\ OneReply(inbox)' /\ Els(requests)' = Els(requests)
        /\ LastWaits(requests)'
    BY <1>1, <1>5 DEF Els, OneReply, LastWaits, BusHolds
  <1>9. ASSUME NEW m \in Els(a)
        PROVE  MessageHolds(m)' /\ m.properties.applied = service'.applied
    <2>1. m.kind = "PropertiesChanged" /\ ~IsReply(m) /\ HasRevision(m.properties)
          /\ m.properties.applied = next.applied
      BY <1>3, <1>4
    <2> QED
      BY <1>1, <2>1 DEF MessageHolds, HasSnapshot
  <1>10. \A m \in Els(inbox)' :
               \/ m \in Els(inbox)
               \/ /\ MessageHolds(m)'
                  /\ HasProperties(m) => m.properties.applied = service'.applied
    BY <1>5, <1>8, <1>9
  <1>11. \A m \in Els(requests)' : Waiting(m) => \A n \in Els(inbox)' : ~IsReply(n)
    BY <1>3, <1>4, <1>5, <1>8 DEF BusHolds
  <1>12. StoredBy(service') /\ AppliedBy(service') /\ SettledBy(service')
    BY <1>1, <1>2
  <1> QED
    BY <1>1, <1>5, <1>7, <1>8, <1>10, <1>11, <1>12, ServiceMoves

LEMMA OthersKeep ==
    ASSUME ClientInv,
           \/ Client!AnotherReplaces \/ Client!AnotherApplies \/ Client!AnotherPreviews
           \/ Client!PreviewLapses \/ Client!Withdraws
    PROVE  ClientInv'
  <1>1. CASE Client!AnotherReplaces
    <2>1. PICK content : content = Client!Another("theirs")
      OBVIOUS
    <2>2. content \in Contents /\ content[1] # "mine"
      BY <2>1, AnotherIs DEF ClientInv
    <2>3. PICK next :
                 next = Client!Retains(Client!Stores(content), "reload") /\ Possible(next)
      BY <2>2, RetainIsPossible
    <2>4. Client!Becomes(next)
      BY <1>1, <2>1, <2>3 DEF Client!AnotherReplaces
    <2> QED
      BY <2>3, <2>4, BecomesHolds
  <1>2. CASE Client!AnotherApplies
    <2>1. PICK next : next = Client!Runs(service) /\ Possible(next)
      BY RunIsPossible
    <2>2. Client!Becomes(next)
      BY <1>2, <2>1 DEF Client!AnotherApplies
    <2> QED
      BY <2>1, <2>2, BecomesHolds
  <1>3. CASE Client!AnotherPreviews
    <2>1. PICK next : next = Client!Previews(FALSE) /\ Possible(next)
      BY PreviewIsPossible
    <2>2. Client!Becomes(next)
      BY <1>3, <2>1 DEF Client!AnotherPreviews
    <2> QED
      BY <2>1, <2>2, BecomesHolds
  <1>4. CASE Client!PreviewLapses
    <2>1. PICK rest : rest = service /\ Possible(rest)
      BY RestIsPossible
    <2>2. PICK next : next = [rest EXCEPT !.preview = None] /\ Possible(next)
      BY <2>1, EndIsPossible
    <2>3. Client!Becomes(next)
      BY <1>4, <2>1, <2>2 DEF Client!PreviewLapses
    <2> QED
      BY <2>2, <2>3, BecomesHolds
  <1>5. CASE Client!Withdraws
    <2>1. PICK next : next = [service EXCEPT !.available = FALSE]
      OBVIOUS
    <2>2. service \in ServiceType
      BY DEF ClientInv, ClientTypes
    <2>3. /\ next \in ServiceType /\ next.revision = service.revision
          /\ next.content = service.content /\ next.up = service.up
          /\ next.digest = service.digest /\ next.available = FALSE
          /\ next.ran = service.ran /\ next.applied = service.applied
          /\ next.activation = service.activation
          /\ next.preview = service.preview /\ next.previews = service.previews
      BY <2>1, <2>2 DEF ServiceType
    <2>4. Possible(next)
      BY <2>3 DEF Possible, StoredBy, AppliedBy, ClientInv, ClientTypes, ServiceHolds
    <2>5. Client!Becomes(next)
      BY <1>5, <2>1 DEF Client!Withdraws
    <2> QED
      BY <2>4, <2>5, BecomesHolds
  <1> QED
    BY <1>1, <1>2, <1>3, <1>4, <1>5

\* The service leaves, or another takes its place.
LEMMA OwnerHolds ==
    ASSUME ClientInv, NEW up \in BOOLEAN,
           inbox' = Append(inbox, Client!OwnerChanges(up)),
           requests' \in {requests, <<>>}, client' = client, operations' = operations,
           disturbances' \in 0..MaxDisturbance,
           service' \in ServiceType,
           service'.preview # None => service'.preview.id \in 1..service'.previews,
           service'.revision = service.revision, service'.content = service.content,
           service'.ran = service.ran, service'.applied = service.applied,
           service'.activation = service.activation
    PROVE  ClientInv'
  <1> USE DEF ClientInv
  <1>1. PICK m : m = Client!OwnerChanges(up)
    OBVIOUS
  <1>2. m \in MessageType /\ m.kind = "NameOwnerChanged"
    BY <1>1 DEF Client!OwnerChanges, MessageType
  <1>3. OwnerChanged(m) /\ ~IsReply(m) /\ ~HasProperties(m) /\ ~HasSnapshot(m)
    BY <1>2 DEF OwnerChanged, IsReply, Client!IsSignal, HasProperties, HasSnapshot
  <1> DEFINE r == Append(inbox, m)
  <1>4. r \in Seq(MessageType) /\ Els(r) = Els(inbox) \cup {m}
    BY <1>2, AppendIs DEF ClientTypes
  <1>5. OneReply(r)
    BY <1>2, <1>3, AppendKeeps DEF ClientTypes, BusHolds
  <1> HIDE DEF r
  <1>6. inbox' = r
    BY <1>1 DEF r
  <1>7. Els(inbox)' = Els(inbox) \cup {m} /\ OneReply(inbox)'
    BY <1>4, <1>5, <1>6 DEF Els, OneReply
  <1>8. /\ requests' \in Seq(CallType) /\ Els(requests)' \subseteq Els(requests)
        /\ LastWaits(requests)'
    <2>1. CASE requests' = requests
      BY <2>1 DEF ClientTypes, BusHolds, Els, LastWaits
    <2>2. CASE requests' = <<>>
      BY <2>2 DEF Els, LastWaits
    <2> QED
      BY <2>1, <2>2
  <1>9. ClientTypes'
    BY <1>4, <1>6, <1>8 DEF ClientTypes
  <1>10. MessageHolds(m)'
    BY <1>2, <1>3 DEF MessageHolds
  <1>11. StoredBy(service') /\ AppliedBy(service') /\ SettledBy(service')
    BY <1>3, <1>7 DEF StoredBy, AppliedBy, SettledBy, ServiceHolds
  <1>12. \A n \in Els(requests)' : Waiting(n) => \A x \in Els(inbox)' : ~IsReply(x)
    BY <1>3, <1>7, <1>8 DEF BusHolds
  <1> QED
    BY <1>3, <1>7, <1>8, <1>9, <1>10, <1>11, <1>12, ServiceMoves

LEMMA ServiceCrashKeeps ==
    ASSUME ClientInv, Client!Crash
    PROVE  ClientInv'
  <1> USE DEF ClientInv
  <1>1. /\ service' = [service EXCEPT !.up = FALSE, !.preview = None]
        /\ requests' = <<>> /\ inbox' = Append(inbox, Client!OwnerChanges(FALSE))
        /\ client' = client /\ operations' = operations
        /\ disturbances < MaxDisturbance /\ disturbances' = disturbances + 1
    BY DEF Client!Crash, Client!Disturbed
  <1>2. disturbances' \in 0..MaxDisturbance
    BY <1>1, ClientAssumption DEF ClientTypes
  <1>3. /\ service' \in ServiceType /\ service'.preview = None
        /\ service'.revision = service.revision /\ service'.content = service.content
        /\ service'.ran = service.ran /\ service'.applied = service.applied
        /\ service'.activation = service.activation
    BY <1>1 DEF ClientTypes, ServiceType
  <1>4. requests' \in {requests, <<>>} /\ service'.preview # None =>
            service'.preview.id \in 1..service'.previews
    BY <1>1, <1>3
  <1> QED
    BY <1>1, <1>2, <1>3, <1>4, OwnerHolds

LEMMA ServiceRestartKeeps ==
    ASSUME ClientInv, Client!Restart
    PROVE  ClientInv'
  <1> USE DEF ClientInv
  <1>1. PICK digest \in {service.digest, service.digest + 1} :
            service' = [service EXCEPT !.up = TRUE, !.available = TRUE, !.digest = digest]
    BY DEF Client!Restart
  <1>2. /\ requests' = requests /\ inbox' = Append(inbox, Client!OwnerChanges(TRUE))
        /\ client' = client /\ operations' = operations /\ disturbances' = disturbances
    BY DEF Client!Restart, Client!begun
  <1>3. digest \in Nat
    BY DEF ClientTypes, ServiceType
  <1>4. /\ service' \in ServiceType /\ service'.preview = service.preview
        /\ service'.previews = service.previews
        /\ service'.revision = service.revision /\ service'.content = service.content
        /\ service'.ran = service.ran /\ service'.applied = service.applied
        /\ service'.activation = service.activation
    BY <1>1, <1>3 DEF ClientTypes, ServiceType
  <1>5. service'.preview # None => service'.preview.id \in 1..service'.previews
    BY <1>4 DEF ClientTypes
  <1>6. disturbances' \in 0..MaxDisturbance
    BY <1>2 DEF ClientTypes
  <1> QED
    BY <1>2, <1>4, <1>5, <1>6, OwnerHolds

-----------------------------------------------------------------------------
(* The theorems of the client *)

LEMMA ClientStarts ==
    ASSUME Client!Init
    PROVE  ClientInv
  <1> DEFINE Old == <<"initial", 0>>
             New == <<"initial", 1>>
             get == Client!Read("GetAll")
  <1>1. PICK managed \in BOOLEAN :
           service = [up |-> TRUE, available |-> TRUE, revision |-> 1,
                      content |-> New, digest |-> 1, managed |-> managed,
                      applied |-> IF managed THEN 1 ELSE 0,
                      applyState |-> IF managed THEN "current" ELSE "inactive",
                      activation |-> IF managed THEN "none" ELSE "reload",
                      preview |-> None, previews |-> 0,
                      ran |-> IF managed THEN {New} ELSE {}]
    BY DEF Client!Init
  <1>2. /\ requests = <<get>> /\ inbox = <<>>
        /\ client = [available |-> FALSE, optionReady |-> FALSE,
                     actionReady |-> FALSE, complete |-> FALSE,
                     displaysReady |-> FALSE, option |-> None, action |-> None,
                     properties |-> Client!Unread, digest |-> 0,
                     snapshot |-> [revision |-> 0, content |-> Old, digest |-> 0],
                     token |-> None, operation |-> None, told |-> None,
                     unread |-> FALSE]
        /\ operations = 0 /\ disturbances = 0
    BY DEF Client!Init
  <1>3. Old \in Contents /\ New \in Contents /\ New[1] # "mine"
    BY DEF Contents, Client!Authors
  <1> HIDE DEF Old, New
  <1>4. /\ service \in ServiceType /\ service.preview = None
        /\ service.revision = 1 /\ service.content = New
        /\ service.applied \in {0, 1}
        /\ service.applied = 1 => New \in service.ran
        /\ service.activation = "none" => service.applied = 1
    <2>1. CASE managed
      BY <1>1, <1>3, <2>1 DEF ServiceType
    <2>2. CASE ~managed
      BY <1>1, <1>3, <2>2 DEF ServiceType
    <2> QED
      BY <2>1, <2>2
  <1>5. Client!Unread \in PropertiesType /\ Client!Unread.available = FALSE
        /\ Client!Unread.applied = 0
    BY DEF Client!Unread, PropertiesType
  <1>6. /\ client \in ClientType /\ client.operation = None /\ client.told = None
        /\ client.snapshot.revision = 0 /\ client.properties = Client!Unread
        /\ client.snapshot.content = Old
    BY <1>2, <1>3, <1>5 DEF ClientType, SnapshotType
  <1>7. get \in CallType /\ Client!IsRead(get)
    BY ReadIs DEF Client!ReadCalls
  <1> HIDE DEF get
  <1>8. /\ requests \in Seq(CallType) /\ Els(requests) = {get} /\ LastWaits(requests)
    BY <1>2, <1>7, SingleIs
  <1>9. /\ inbox \in Seq(MessageType) /\ Els(inbox) = {} /\ OneReply(inbox)
    BY <1>2, EmptyIs
  <1>10. operations \in 0..MaxOperation /\ disturbances \in 0..MaxDisturbance
    BY <1>2, ClientAssumption
  <1>11. ClientTypes
    BY <1>4, <1>6, <1>8, <1>9, <1>10 DEF ClientTypes
  <1>12. AppliedRevisions \subseteq {0, service.applied}
    BY <1>5, <1>6, <1>9 DEF AppliedRevisions
  <1>13. ServiceHolds
    BY <1>3, <1>4, <1>5, <1>6, <1>12 DEF ServiceHolds, Had, HasRevision
  <1>14. OperationHolds /\ ToldHolds
    BY <1>6 DEF OperationHolds, ToldHolds, During, Op
  <1>15. CallHolds(get) /\ ~Waiting(get)
    BY <1>7 DEF CallHolds, Client!IsRead, Client!ReadCalls, Waiting, Writes, Mutations
  <1>16. BusHolds
    BY <1>8, <1>9, <1>15 DEF BusHolds
  <1> QED
    BY <1>11, <1>13, <1>14, <1>16 DEF ClientInv

LEMMA ClientStepKeeps == ASSUME ClientInv, Client!Next PROVE ClientInv'
  <1>1. CASE Client!Client
    BY <1>1, PropertiesChangedKeeps, ServiceOwnerChangedKeeps, HydratePropertiesKeeps,
       HydrateSnapshotKeeps, HydrateCatalogsKeep, HydrateDisplaysKeeps,
       HydratePendingKeeps, MutationReplyKeeps, AnswerReplyKeeps, ReplaceReplyKeeps,
       VerifyPropertiesReplyKeeps, VerifySnapshotReplyKeeps, ApplyReplyKeeps,
       ReconcileReplyKeeps
       DEF Client!Client
  <1>2. CASE Client!Service
    BY <1>2, GetPropertiesKeeps, GetSnapshotKeeps, GetCatalogsKeep,
       ReplaceSnapshotKeeps, ApplyCallKeeps, AdoptAndRecoverKeep,
       PreviewDisplaysKeeps, ConfirmAndRevertKeep
       DEF Client!Service
  <1>3. CASE Client!User
    <2>1. CASE \E kind \in Answered : Client!AnswerDisplayConfirmation(kind)
      BY <2>1, AnswerDisplayConfirmationKeeps
    <2> QED
      BY <1>3, <2>1, MutationsKeep, SaveOptionGroupKeeps, RetryApplyKeeps,
         RefreshAskedKeeps
         DEF Client!User, Answered
  <1>4. CASE Client!TimesOut
    BY <1>4, ReplaceTimesOutKeeps, ApplyTimesOutKeeps, OperationTimesOutKeeps,
       ReadFailsKeeps
       DEF Client!TimesOut
  <1>5. CASE Client!Others \/ Client!Restart
    BY <1>5, OthersKeep, ServiceCrashKeeps, ServiceRestartKeeps DEF Client!Others
  <1> QED
    BY <1>1, <1>2, <1>3, <1>4, <1>5 DEF Client!Next

LEMMA ClientRests ==
    ASSUME ClientInv, UNCHANGED compositorClient
    PROVE  ClientInv'
  <1>1. /\ service' = service /\ requests' = requests /\ inbox' = inbox
        /\ client' = client /\ operations' = operations
        /\ disturbances' = disturbances
    BY DEF compositorClient
  <1>2. ClientTypes'
    BY <1>1 DEF ClientInv, ClientTypes
  <1>3. /\ \A r, c : Had(r, c)' <=> Had(r, c)
        /\ AppliedRevisions' = AppliedRevisions
    BY <1>1 DEF Had, AppliedRevisions, Els
  <1>4. Els(requests)' = Els(requests) /\ Els(inbox)' = Els(inbox)
        /\ Op' = Op /\ FromHere' = FromHere
    BY <1>1 DEF Els, Op, FromHere
  <1>5. /\ \A s : During(s)' <=> During(s)
        /\ \A c : NotStored(c)' <=> NotStored(c)
        /\ Settles' <=> Settles
    BY <1>1, <1>4 DEF During, NotStored, Settles
  <1> QED
    BY ZenonT(60), <1>1, <1>2, <1>3, <1>4, <1>5
       DEF ClientInv, ServiceHolds, OperationHolds, ToldHolds, Refused, BusHolds,
           CallHolds, MessageHolds, LastWaits, OneReply, Els

LEMMA SessionKeepsClient == ASSUME ClientInv, [Next]_vars PROVE ClientInv'
  <1>1. CASE OnlyDisplay /\ Display!Next
    BY <1>1, ClientRests DEF OnlyDisplay
  <1>2. CASE OnlyClient /\ Client!Next
    BY <1>2, ClientStepKeeps
  <1>3. CASE UNCHANGED vars
    BY <1>3, ClientRests DEF vars
  <1> QED
    BY <1>1, <1>2, <1>3 DEF Next

\* The invariant is enough for what the run checks.
LEMMA ClientIsTrue == ASSUME ClientInv PROVE Client!ToldIsTrue
  <1> USE DEF ClientInv
  <1>1. Client!TypeOK
    <2>1. /\ {service.up, service.available, service.managed, client.available,
              client.optionReady, client.actionReady, client.complete,
              client.displaysReady, client.unread} \subseteq BOOLEAN
      BY DEF ClientTypes, ServiceType, ClientType
    <2>2. service.preview # None => service.preview.id \in 1..service.previews
      BY DEF ClientTypes
    <2>3. client.operation # None => client.operation.step \in Client!Steps
      BY OperationIs DEF Op
    <2>4. client.told # None => client.told.outcome \in Client!Outcomes
      BY DEF ClientTypes, ClientType, ToldType, SaveOutcomes, Client!Outcomes
    <2>5. \A i \in DOMAIN requests :
                 requests[i].kind \in Client!ReadCalls \cup Client!Steps
      <3>1. \A i \in DOMAIN requests : requests[i] \in CallType
        BY DEF ClientTypes
      <3>2. ASSUME NEW i \in DOMAIN requests
            PROVE  requests[i].kind \in Client!ReadCalls \cup Client!Steps
        <4> DEFINE call == requests[i]
        <4>1. call \in CallType
          BY <3>1, <3>2
        <4> HIDE DEF call
        <4>2. call.kind \in Client!ReadCalls \cup Client!Steps
          BY <4>1, CallIs
        <4> QED
          BY <4>2 DEF call
      <3> QED
        BY <3>2
    <2> QED
      BY <2>1, <2>2, <2>3, <2>4, <2>5 DEF ClientTypes, Client!TypeOK
  <1>2. ASSUME client.told # None, client.told.outcome = "Refused", Client!StillServes
        PROVE  service.content # client.told.content
    <2>1. Settles
      BY <1>2 DEF Client!StillServes, Settles, OwnerChanged, Els
    <2> QED
      BY <1>2, <2>1 DEF ToldHolds, Refused, NotStored
  <1>3. ASSUME client.told # None, client.told.outcome = "Applied"
        PROVE  client.told.content \in service.ran
    BY <1>3 DEF ToldHolds
  <1> QED
    BY <1>1, <1>2, <1>3 DEF Client!ToldIsTrue

\* What the user is told of a save is true, although calls time out, are made
\* again and are executed late: a save that is refused is not what a service
\* that still serves has stored, and one that is applied has run
\* (handleReplaceReply, handleApplyReply, retryReplace, reconcileApply).
THEOREM ToldAlwaysTrue == LiveSpec => []ToldIsTrue
  <1>1. Init => ClientInv
    BY ClientStarts DEF Init
  <1>2. ClientInv /\ [Next]_vars => ClientInv'
    BY SessionKeepsClient
  <1>3. ClientInv => ToldIsTrue
    BY ClientIsTrue DEF ToldIsTrue
  <1> QED
    BY <1>1, <1>2, <1>3, PTL DEF LiveSpec

\* Neither the client nor the user nor a timeout changes the service.
LEMMA OnlyTheServiceActs ==
    ASSUME Client!Client \/ Client!User \/ Client!TimesOut
    PROVE  service' = service
  <1>1. CASE Client!Client
    BY <1>1 DEF Client!Client, Client!PropertiesChanged, Client!ServiceOwnerChanged,
       Client!HydrateProperties, Client!HydrateSnapshot, Client!HydrateOptionCatalog,
       Client!HydrateActionCatalog, Client!HydrateDisplays, Client!HydratePending,
       Client!MutationReply, Client!AnswerReply, Client!ReplaceReply,
       Client!VerifyPropertiesReply, Client!VerifySnapshotReply, Client!ApplyReply,
       Client!ReconcileReply, Client!Ends, Client!Refresh, Client!Continue
  <1>2. CASE Client!User
    BY <1>2 DEF Client!User, Client!AdoptManagedConfiguration,
       Client!ApplyConfiguration, Client!RecoverConfiguration,
       Client!PreviewDisplayConfiguration, Client!AnswerDisplayConfirmation,
       Client!SaveOptionGroup, Client!RetryApply, Client!RefreshAsked,
       Client!Mutation, Client!Begin
  <1>3. CASE Client!TimesOut
    BY <1>3 DEF Client!TimesOut, Client!ReplaceTimesOut, Client!ApplyTimesOut,
       Client!OperationTimesOut, Client!ReadFails, Client!GiveUp,
       Client!GiveUpAndRefresh
  <1> QED
    BY <1>1, <1>2, <1>3

\* A call that writes changes the service only if it names what is stored.
LEMMA ChangesAreAuthorized ==
    ASSUME Client!Service, Client!Call.kind \in Writes, service' # service
    PROVE  Client!Authorized
  <1>1. ~(\/ Client!GetProperties \/ Client!GetSnapshot \/ Client!GetCatalog
          \/ Client!GetConnectedDisplays \/ Client!GetPendingDisplayConfirmation)
    BY DEF Client!GetProperties, Client!GetSnapshot, Client!GetCatalog,
           Client!GetConnectedDisplays, Client!GetPendingDisplayConfirmation,
           Client!Answers
  <1>2. ~(Client!Confirm \/ Client!Revert)
    BY DEF Client!Confirm, Client!Revert, Client!Asked, Writes, Mutations
  <1>3. CASE Client!ReplaceSnapshot
    BY <1>3 DEF Client!ReplaceSnapshot, Client!Refuses, Client!Answers
  <1>4. CASE Client!Apply
    BY <1>4 DEF Client!Apply, Client!Refuses, Client!Answers
  <1>5. CASE Client!Adopt \/ Client!Recover
    BY <1>5 DEF Client!Adopt, Client!Recover, Client!Refuses, Client!Answers
  <1>6. CASE Client!PreviewDisplays
    BY <1>6 DEF Client!PreviewDisplays, Client!Refuses, Client!Answers
  <1> QED
    BY <1>1, <1>2, <1>3, <1>4, <1>5, <1>6 DEF Client!Service

LEMMA ActsOnWhatItShowed ==
    ASSUME ClientInv, Client!Next, requests # <<>>, requests' = Tail(requests),
           Client!Call.kind \in Writes, service' # service, service'.up
    PROVE  Client!Call.shown = service.content
  <1>1. requests' # requests
    <2>1. requests \in Seq(CallType)
      BY DEF ClientInv, ClientTypes
    <2>2. Len(requests) \in Nat \ {0} /\ Len(Tail(requests)) = Len(requests) - 1
      BY <2>1
    <2>3. ASSUME NEW q, q = requests', requests' = requests  PROVE FALSE
      <3>1. q = Tail(requests) /\ q = requests
        BY <2>3
      <3>2. Len(q) = Len(requests) - 1 /\ Len(q) = Len(requests)
        BY <3>1, <2>2
      <3> QED
        BY <3>2, <2>2
    <2> QED
      BY <2>3
  <1>2. ~(Client!Client \/ Client!User \/ Client!TimesOut)
    BY OnlyTheServiceActs
  <1>3. ~Client!Restart
    BY <1>1 DEF Client!Restart
  <1>4. ~Client!Others
    <2>1. ~Client!Crash
      BY DEF Client!Crash, ClientInv, ClientTypes, ServiceType
    <2>2. ~(\/ Client!AnotherReplaces \/ Client!AnotherApplies \/ Client!AnotherPreviews
            \/ Client!PreviewLapses \/ Client!Withdraws)
      BY <1>1 DEF Client!AnotherReplaces, Client!AnotherApplies, Client!AnotherPreviews,
         Client!PreviewLapses, Client!Withdraws, Client!Becomes
    <2> QED
      BY <2>1, <2>2 DEF Client!Others
  <1>5. Client!Service
    BY <1>2, <1>3, <1>4 DEF Client!Next
  <1> QED
    BY <1>5, ChangesAreAuthorized, AuthorizedShows

\* Whatever the service stores, runs or previews for a client starts from
\* exactly what the client showed: no retry, verification or late execution
\* overwrites or activates a configuration the user has not seen
\* (checkMutationAuthority, beginMutation, retryReplace).
THEOREM ActsOnlyOnWhatWasShown == LiveSpec => ActsOnWhatWasShown
  <1>1. Init => ClientInv
    BY ClientStarts DEF Init
  <1>2. ClientInv /\ [Next]_vars => ClientInv'
    BY SessionKeepsClient
  <1>3. ClientInv /\ [Next]_vars =>
            [/\ requests # <<>> /\ requests' = Tail(requests)
             /\ Client!Call.kind \in {"Replace", "SavedApply", "Apply", "Adopt",
                                      "Recover", "Preview"}
             /\ service' # service /\ service'.up
             => Client!Call.shown = service.content]_(Client!vars)
    <2> SUFFICES ASSUME ClientInv, [Next]_vars, ~UNCHANGED Client!vars,
                        requests # <<>>, requests' = Tail(requests),
                        Client!Call.kind \in {"Replace", "SavedApply", "Apply", "Adopt",
                                              "Recover", "Preview"},
                        service' # service, service'.up
                 PROVE  Client!Call.shown = service.content
      OBVIOUS
    <2>1. Client!Next
      BY DEF Next, OnlyDisplay, vars, compositorClient, Client!vars, Client!bus,
             Client!begun
    <2>2. Client!Call.kind \in Writes
      BY DEF Writes, Mutations
    <2> QED
      BY <2>1, <2>2, ActsOnWhatItShowed
  <1> QED
    BY <1>1, <1>2, <1>3, PTL DEF LiveSpec, ActsOnWhatWasShown, Client!ActsOnWhatWasShown
=============================================================================
