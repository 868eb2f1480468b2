---------------------------- MODULE SharedVisual ----------------------------
(***************************************************************************)
(* The window borders and gaps that HyprShelld's own settings control:     *)
(* configd tells the compositor service (DbusSharedVisualSource), and the  *)
(* service writes them into the configuration it is the authority for,     *)
(* and applies them by itself (CompositorService::reconcileSharedVisual).  *)
(*                                                                         *)
(* A group of values is either controlled (sync) or left to the user.  A   *)
(* content has the value of each group, the protected workspace rule that  *)
(* goes with the spacing, and the rest of the configuration.  The          *)
(* authority's calls are those of ConfigurationTransaction in their        *)
(* outcomes: done, kept (refused or rolled back) and closed (given up).    *)
(***************************************************************************)
EXTENDS Naturals, Sequences

CONSTANTS
    None,
    MaxTurns        \* bound on what users, other programs and failures do

Groups == {"border", "spacing"}
Outcomes == {"done", "kept", "closed"}

VARIABLES
    config,         \* configd: the user's policy and its revision
    configdUp,
    asks,           \* GetAll calls under way to configd
    line,           \* signals and replies under way from configd and the bus
    source,         \* DbusSharedVisualSource
    service,        \* CompositorService
    live,           \* the compositor runs the applied generation
    turns,
    saved,          \* an edit that the user has stored and not applied
    unasked         \* such an edit was applied without the user

vars == <<config, configdUp, asks, line, source, service, live, turns, saved,
          unasked>>

Policy == [border: 0..1, spacing: 0..1, sync: [Groups -> BOOLEAN], revision: Nat]

Configured == [border: 0..1, spacing: 0..1, rule: BOOLEAN, other: 0..1]

SyncState == {"unavailable", "override", "pending", "saved", "current", "failed"}

TypeOK ==
    /\ config \in Policy
    /\ source.projection \in Policy \cup {None}
    /\ service.desired \in Configured /\ service.applied \in Configured
    /\ service.state \in [Groups -> SyncState]

Turn == turns < MaxTurns /\ turns' = turns + 1

-----------------------------------------------------------------------------
(* The service's state; s is the service, p a policy.                      *)

Schedule(s) == [s EXCEPT !.scheduled = TRUE]

\* authorityBoundManagement of what is on disk.
Management(s, disk) == IF s.available /\ disk THEN "managed" ELSE "conflict"

\* A failed attempt stands for the authority it failed with.
AcceptState(s, next) ==
    [next EXCEPT
        !.failed = [g \in Groups |-> IF next # s /\ @[g] # None
                                     THEN [@[g] EXCEPT !.fresh = FALSE] ELSE @[g]],
        !.scheduled = TRUE]

AcceptManagement(s, disk) ==
    IF Management(s, disk) = s.management THEN s
    ELSE AcceptState(s, [s EXCEPT !.management = Management(s, disk)])

\* markUnreconciled, or an authority that failed.
Closed(s) ==
    AcceptState(s, [s EXCEPT !.available = FALSE, !.management = "conflict"])

\* A new revision is not the applied one, nor the one that waits to be applied.
Stored(s, content) ==
    AcceptState(s, [s EXCEPT !.desired = content, !.revisionApplied = FALSE,
                             !.pending = [g \in Groups |-> FALSE]])

Applied(s) ==
    AcceptState(s, [s EXCEPT !.applied = s.desired, !.revisionApplied = TRUE,
                             !.management = "managed"])

RequiresActivation(s) == s.available /\ s.writable /\ s.desired # s.applied

\* All of the configuration is what the compositor runs.
ExactCurrent(s) ==
    /\ s.management = "managed"
    /\ s.writable /\ ~RequiresActivation(s)
    /\ s.revisionApplied

PolicyOf(g, p) == <<p[g], p.sync[g]>>

\* clearFailedSharedBorderAttempt, clearFailedSharedSpacingAttempt.
Clear(groups, s) ==
    IF groups = {} THEN s
    ELSE [s EXCEPT !.failed = [g \in Groups |-> IF g \in groups THEN None ELSE @[g]],
                   !.shared = FALSE]

Show(groups, state(_), s) ==
    [s EXCEPT !.state = [g \in Groups |-> IF g \in groups THEN state(g) ELSE @[g]]]

FailGroups(groups, p, s) ==
    IF groups = {} THEN s
    ELSE [s EXCEPT
        !.failed = [g \in Groups |-> IF g \in groups
                                     THEN [policy |-> PolicyOf(g, p), fresh |-> TRUE]
                                     ELSE @[g]],
        !.state = [g \in Groups |-> IF g \in groups THEN "failed" ELSE @[g]],
        !.shared = (groups = Groups)]

-----------------------------------------------------------------------------
(* The reconcilers.                                                        *)

BorderHolds(p, content) == p.sync.border => content.border = p.border
BorderEdited(p, content) == [content EXCEPT !.border = p.border]

\* The spacing has its protected rule whether the gaps are controlled or not.
SpacingHolds(p, content) ==
    /\ p.sync.spacing => content.spacing = p.spacing
    /\ content.rule
SpacingEdited(p, content) ==
    [content EXCEPT !.spacing = IF p.sync.spacing THEN p.spacing ELSE @,
                    !.rule = TRUE]

Holds(g, p, content) ==
    IF g = "border" THEN BorderHolds(p, content) ELSE SpacingHolds(p, content)

Edited(groups, p, content) ==
    LET edited == IF "border" \in groups THEN BorderEdited(p, content) ELSE content
    IN IF "spacing" \in groups THEN SpacingEdited(p, edited) ELSE edited

\* sharedVisualReplacementAllowed: without a policy nothing controlled moves.
ReplacementAllowed(content) ==
    /\ IF service.last # None
       THEN \A g \in Groups : Holds(g, service.last, content)
       ELSE \A g \in Groups : content[g] = service.desired[g]
    /\ content.rule

\* sharedVisualSourceChanged.
SourceChanged(src, s) ==
    LET p == src.projection
        turned == {g \in Groups : \/ s.last = None
                                  \/ PolicyOf(g, s.last) # PolicyOf(g, p)}
        told == [Clear(turned, s) EXCEPT
                    !.pending = [g \in Groups |-> @[g] /\ g \notin turned],
                    !.last = p]
    IN Schedule(IF src.available THEN told ELSE s)

-----------------------------------------------------------------------------
(* reconcileSharedVisual.                                                  *)

NoPolicy(s) == Show(Groups, LAMBDA g : "unavailable", s)

NoAuthority(p, s) ==
    Show(Groups, LAMBDA g : IF g = "border" /\ ~p.sync[g] THEN "override"
                            ELSE "unavailable", s)

DuringPreview(p, s) ==
    Show(Groups, LAMBDA g : IF g = "border" /\ ~p.sync[g] THEN "override"
                            ELSE "pending", s)

\* The groups whose last attempt failed and would be the same again.
Suppressed(force, p, s) ==
    {g \in Groups : /\ ~force[g]
                    /\ s.failed[g] = [policy |-> PolicyOf(g, p), fresh |-> TRUE]}

\* Faulty variant of OwnsApply: what is stored is applied, whatever else was
\* waiting to be applied.
OwnsAnyApply(base) == TRUE

\* Only a base that was applied as a whole is applied again by itself.
OwnsApply(base) == ExactCurrent(base)

\* The groups that are stored now, and the outcome of storing them.
Replace(changed, base, p, s, outcome) ==
    CASE changed = {} -> s
      [] changed # {} /\ ~s.writable -> FailGroups(changed, p, s)
      [] changed # {} /\ s.writable /\ outcome = "done" ->
             [Stored(s, Edited(changed, p, s.desired)) EXCEPT
                 !.pending = [g \in Groups |-> OwnsApply(base) /\ g \in changed]]
      [] changed # {} /\ s.writable /\ outcome = "kept" ->
             FailGroups(changed, p, Schedule(s))
      [] changed # {} /\ s.writable /\ outcome = "closed" ->
             NoAuthority(p, Closed(s))

\* What a group comes to when nothing of it is waiting.
StableState(g, p, before, s) ==
    LET applied == /\ s.management = "managed"
                   /\ Holds(g, p, s.applied)
                   /\ g = "spacing" => s.applied.rule
    IN CASE ~p.sync[g] -> IF g = "border" \/ applied THEN "override" ELSE "saved"
         [] p.sync[g] -> IF before[g] = "current" /\ applied THEN "current"
                         ELSE "saved"

SettledState(g, p) == IF p.sync[g] THEN "current" ELSE "override"

NothingPending(s) == [s EXCEPT !.pending = [g \in Groups |-> FALSE]]

\* The automatic apply, and the outcome of completePrepared.
ApplyPending(pending, p, s, outcome) ==
    LET tried == Show(pending, LAMBDA g : "pending", s)
    IN CASE outcome = "done" ->
              Show(pending, LAMBDA g : SettledState(g, p),
                   Clear(pending, NothingPending(Applied(tried))))
         [] outcome = "kept" -> FailGroups(pending, p, Schedule(tried))
         [] outcome = "closed" -> FailGroups(pending, p, Closed(tried))

\* Whether a reconciliation goes as far as an apply; gaps that failed do not
\* hold the borders back.
MayApply(failing, pending, p, s) ==
    /\ pending # {}
    /\ pending \cap failing = {}
    /\ p.sync.border => "border" \notin failing /\ Holds("border", p, s.desired)
    /\ s.desired.rule
    /\ "spacing" \notin failing => Holds("spacing", p, s.desired)
    /\ s.management = "managed"
    /\ RequiresActivation(s)

\* From the groups that failed and those still pending to the end; ends is the
\* service and whether it applied.
Finish(failing, p, before, s, outcome) ==
    LET pending == {g \in Groups : s.pending[g]}
        well == Groups \ failing
        current == NothingPending(Show(well, LAMBDA g : SettledState(g, p),
                                       Clear(well, s)))
        stable == Show(well \ pending, LAMBDA g : StableState(g, p, before, s),
                       Clear(well \ pending, s))
    IN CASE ExactCurrent(s) -> [service |-> current, applies |-> FALSE]
         [] ~ExactCurrent(s) /\ MayApply(failing, pending, p, s) ->
              [service |-> ApplyPending(pending, p, stable, outcome), applies |-> TRUE]
         [] ~ExactCurrent(s) /\ ~MayApply(failing, pending, p, s) ->
              [service |-> Show(pending \cap well, LAMBDA g : "saved", stable),
               applies |-> FALSE]

\* With an authority and no preview; force is what the user asked to retry.
ReconcileGroups(force, p, s, storing, applying) ==
    LET base == AcceptManagement(s, live)
        suppressed == Suppressed(force, p, base)
        kept == Clear({g \in Groups : g \notin suppressed \/ (g = "border" /\ ~p.sync[g])},
                      [base EXCEPT !.pending.border = @ /\ p.sync.border])
        needs == {g \in Groups : ~Holds(g, p, kept.desired)}
        waiting == {g \in Groups : kept.pending[g]}
        failing == suppressed \cap (needs \cup waiting)
        stored == Replace(needs \ failing, base, p,
                          Show(failing, LAMBDA g : "failed", kept), storing)
        unstored == {g \in needs : ~Holds(g, p, stored.desired)}
        checked == AcceptManagement(stored, live)
    IN IF ~stored.available THEN [service |-> stored, applies |-> FALSE]
       ELSE Finish(failing \cup unstored, p, s.state, checked, applying)

Reconcile ==
    /\ service.scheduled
    /\ \E storing, applying \in Outcomes :
           LET p == source.projection
               s == [service EXCEPT !.scheduled = FALSE,
                                    !.force = [g \in Groups |-> FALSE],
                                    !.last = IF source.available THEN p ELSE @]
               r == ReconcileGroups(service.force, p, s, storing, applying)
           IN IF ~source.available
              THEN service' = NoPolicy(s) /\ UNCHANGED <<live, saved, unasked>>
              ELSE IF ~s.available
              THEN service' = NoAuthority(p, s) /\ UNCHANGED <<live, saved, unasked>>
              ELSE IF s.preview
              THEN service' = DuringPreview(p, s) /\ UNCHANGED <<live, saved, unasked>>
              ELSE LET applied == r.applies /\ applying = "done"
                   IN /\ service' = r.service
                      /\ live' = (live \/ applied)
                      /\ saved' = (saved /\ ~applied)
                      /\ unasked' = (unasked \/ (saved /\ applied))
    /\ UNCHANGED <<config, configdUp, asks, line, source, turns>>

-----------------------------------------------------------------------------
(* The calls of clients and what happens outside.                          *)

Call(s) ==
    /\ service' = s
    /\ UNCHANGED <<config, configdUp, asks, line, source, unasked>>

\* ReplaceSnapshot with the current revision, of one value.
UserReplaces ==
    \E field \in {"border", "spacing", "other"}, outcome \in Outcomes :
        LET content == [service.desired EXCEPT ![field] = 1 - @]
        IN /\ service.available /\ service.writable /\ ~service.preview
           /\ ReplacementAllowed(content)
           /\ Turn
           /\ Call(CASE outcome = "done" -> AcceptManagement(Stored(service, content), live)
                  [] outcome = "kept" -> Schedule(AcceptManagement(service, live))
                  [] outcome = "closed" -> Closed(service))
        /\ saved' = (saved \/ outcome = "done")
        /\ UNCHANGED live

\* Apply: the policy must be known and the configuration in keeping with it.
UserApplies ==
    \E outcome \in Outcomes :
        LET s == AcceptManagement(service, live)
        IN /\ service.available /\ service.writable /\ ~service.preview
           /\ source.available /\ ReplacementAllowed(service.desired)
           /\ s.management = "managed" /\ RequiresActivation(s)
           /\ Turn
           /\ Call(CASE outcome = "done" -> Applied(s)
                     [] outcome = "kept" -> Schedule(s)
                     [] outcome = "closed" -> Closed(s))
           /\ saved' = (saved /\ outcome # "done")
           /\ UNCHANGED live

\* A preview of displays is of the rest of the configuration.
PreviewBegins ==
    /\ service.available /\ ~service.preview /\ ExactCurrent(service)
    /\ Turn
    /\ Call(Schedule([service EXCEPT !.preview = TRUE]))
    /\ UNCHANGED <<live, saved>>

PreviewEnds ==
    /\ service.preview
    /\ LET s == [service EXCEPT !.preview = FALSE]
       IN \/ Call(Schedule(s))
          \/ Call(Applied(Stored(s, [s.desired EXCEPT !.other = 1 - @])))
    /\ UNCHANGED <<live, turns, saved>>

\* Someone edits the entrypoint, or puts it back.
EntrypointChanges ==
    /\ Turn
    /\ ~service.preview
    /\ live' = ~live
    /\ Call(service)
    /\ UNCHANGED saved

\* managementPollTimer_, or the watch of the entrypoint.
RefreshManagement ==
    /\ ~service.preview
    /\ Management(service, live) # service.management
    /\ Call(AcceptManagement(service, live))
    /\ UNCHANGED <<live, turns, saved>>

-----------------------------------------------------------------------------
(* configd and DbusSharedVisualSource.                                     *)

Tell(message) == Append(line, message)

\* PropertiesChanged has a whole group, or only the revision.
PolicyChanges ==
    /\ configdUp
    /\ Turn
    /\ \E groups \in {{}, {"border"}, {"spacing"}}, value \in 0..1, sync \in BOOLEAN :
           LET next == [border |-> IF "border" \in groups THEN value ELSE config.border,
                        spacing |-> IF "spacing" \in groups THEN value ELSE config.spacing,
                        sync |-> [g \in Groups |-> IF g \in groups THEN sync
                                                   ELSE config.sync[g]],
                        revision |-> config.revision + 1]
           IN /\ \A g \in groups : PolicyOf(g, next) # PolicyOf(g, config)
              /\ config' = next
              /\ line' = Tell([kind |-> "changed", groups |-> groups, policy |-> next])
    /\ UNCHANGED <<configdUp, asks, source, service, live, saved, unasked>>

Answer ==
    /\ asks # <<>>
    /\ asks' = Tail(asks)
    /\ \E policy \in {config, None} :       \* None: the call timed out
           line' = Tell([kind |-> "all", awaited |-> Head(asks), policy |-> policy])
    /\ UNCHANGED <<config, configdUp, source, service, live, turns, saved, unasked>>

Failures(s) ==
    [i \in DOMAIN s |-> [kind |-> "all", awaited |-> s[i], policy |-> None]]

ConfigdStops ==
    /\ configdUp
    /\ Turn
    /\ configdUp' = FALSE
    /\ asks' = <<>>
    /\ line' = line \o Failures(asks) \o <<[kind |-> "owner", present |-> FALSE]>>
    /\ UNCHANGED <<config, source, service, live, saved, unasked>>

ConfigdStarts ==
    /\ ~configdUp
    /\ configdUp' = TRUE
    /\ line' = Tell([kind |-> "owner", present |-> TRUE])
    /\ UNCHANGED <<config, asks, source, service, live, turns, saved, unasked>>

\* The source, whether a reply under way is of an older generation from now
\* on, and whether it asks for everything again.
Became(src, newer, refreshes) ==
    [source |-> src, newer |-> newer, refreshes |-> refreshes]

Publish(p, src) ==
    [src EXCEPT !.available = TRUE, !.projection = p, !.established = TRUE]
Unpublish(src) == [src EXCEPT !.available = FALSE]
MarkStale(src) == Became(Unpublish(src), TRUE, TRUE)

\* A revision that went back, or that stands for two contents.
Contradicts(p, src) ==
    /\ src.established
    /\ \/ p.revision < src.projection.revision
       \/ p.revision = src.projection.revision /\ p # src.projection

Merged(message, src) ==
    [g \in {"border", "spacing", "sync", "revision"} |->
        CASE g \in Groups -> IF g \in message.groups THEN message.policy[g]
                             ELSE src.projection[g]
          [] g = "sync" -> [h \in Groups |-> IF h \in message.groups
                                             THEN message.policy.sync[h]
                                             ELSE src.projection.sync[h]]
          [] g = "revision" -> message.policy.revision]

\* One group alone, or a revision alone, continues what is known.
PropertiesChanged(message, src) ==
    IF ~src.available \/ Contradicts(Merged(message, src), src) THEN MarkStale(src)
    ELSE Became(Publish(Merged(message, src), src), TRUE, FALSE)

OwnerChanged(message, src) == Became(Unpublish(src), TRUE, message.present)

Refreshed(message, src) ==
    IF ~message.awaited THEN Became(src, FALSE, FALSE)
    ELSE IF message.policy = None \/ Contradicts(message.policy, src)
    THEN Became(Unpublish(src), FALSE, FALSE)
    ELSE Became(Publish(message.policy, src), FALSE, FALSE)

\* generation_ goes on: no reply under way is awaited any more.
Outdated(messages) ==
    [i \in DOMAIN messages |->
        IF messages[i].kind = "all" THEN [messages[i] EXCEPT !.awaited = FALSE]
        ELSE messages[i]]

\* The call of GetAll; without configd the bus answers.
Ask(r, rest) ==
    LET under == IF r.newer THEN [i \in DOMAIN asks |-> FALSE] ELSE asks
        heard == IF r.newer THEN Outdated(rest) ELSE rest
        ask == IF r.refreshes THEN <<TRUE>> ELSE <<>>
    IN IF configdUp THEN asks' = under \o ask /\ line' = heard
       ELSE asks' = under /\ line' = heard \o Failures(ask)

SourceBecomes(r, rest) ==
    /\ Ask(r, rest)
    /\ source' = r.source
    /\ service' = IF <<r.source.available, r.source.projection>>
                         = <<source.available, source.projection>>
                  THEN service ELSE SourceChanged(r.source, service)

SourceHears ==
    /\ line # <<>>
    /\ LET message == Head(line)
           r == CASE message.kind = "changed" -> PropertiesChanged(message, source)
                  [] message.kind = "owner" -> OwnerChanged(message, source)
                  [] message.kind = "all" -> Refreshed(message, source)
       IN SourceBecomes(r, Tail(line))
    /\ UNCHANGED <<config, configdUp, live, turns, saved, unasked>>

\* RetrySharedBorderSync, RetrySharedSpacingSync.
Retry ==
    \E g \in Groups :
        LET groups == IF service.shared THEN Groups ELSE {g}
        IN /\ Turn
           /\ Ask(Became(source, TRUE, TRUE), line)
           /\ service' = Schedule([Clear(groups, service) EXCEPT
                              !.force = [h \in Groups |-> @[h] \/ h \in groups]])
           /\ UNCHANGED <<config, configdUp, source, live, saved, unasked>>

-----------------------------------------------------------------------------

\* initializeAuthority: the configuration of before may lack the rule, and
\* may be saved and not applied, or read-only.
Init ==
    /\ config \in [border: {0}, spacing: {0}, revision: {1},
                   sync: {[g \in Groups |-> TRUE], [g \in Groups |-> FALSE]}]
    /\ configdUp = TRUE
    /\ asks = <<TRUE>>
    /\ line = <<>>
    /\ source = [available |-> FALSE, established |-> FALSE,
                 projection |-> None]
    /\ \E rule, writable \in BOOLEAN, other \in 0..1 :
           LET content == [border |-> 0, spacing |-> 0, rule |-> rule, other |-> 0]
           IN service = [desired |-> [content EXCEPT !.other = other],
                         applied |-> content, revisionApplied |-> (other = 0),
                         available |-> TRUE, writable |-> writable,
                         management |-> "managed", preview |-> FALSE,
                         pending |-> [g \in Groups |-> FALSE],
                         failed |-> [g \in Groups |-> None], shared |-> FALSE,
                         force |-> [g \in Groups |-> FALSE],
                         last |-> None, scheduled |-> TRUE,
                         state |-> [g \in Groups |-> "unavailable"]]
    /\ live = TRUE
    /\ turns = 0
    /\ saved = (service.desired # service.applied)
    /\ unasked = FALSE

Next ==
    \/ Reconcile \/ UserReplaces \/ UserApplies \/ PreviewBegins \/ PreviewEnds
    \/ Retry \/ EntrypointChanges \/ RefreshManagement \/ PolicyChanges \/ Answer
    \/ ConfigdStops \/ ConfigdStarts \/ SourceHears

Spec == Init /\ [][Next]_vars

-----------------------------------------------------------------------------

\* compositor_service.cpp: what the service applies by itself is the change
\* of the controlled values, never an edit of the user that was only saved.
OnlySharedIsAutomatic == ~unasked

\* shared_visual_source.cpp: when all is heard, a policy that is said to be
\* available is the one of configd.
PolicyIsKnown ==
    line = <<>> /\ asks = <<>> /\ source.available => source.projection = config

\* What the service says of a group, once it has reconciled: current is
\* applied, saved and current are stored, and nothing stays pending.
StateIsTrue ==
    ~service.scheduled /\ source.available /\ service.available /\ ~service.preview =>
        \A g \in Groups :
            LET p == source.projection
            IN /\ service.state[g] \in {"override", "saved", "current", "failed"}
               /\ service.state[g] # "failed" => Holds(g, p, service.desired)
               /\ service.state[g] = "current" =>
                      p.sync[g] /\ Holds(g, p, service.applied)

SharedVisualHolds ==
    /\ TypeOK
    /\ OnlySharedIsAutomatic
    /\ PolicyIsKnown
    /\ StateIsTrue

=============================================================================
