---------------------- MODULE UserPackageStore_proofs ---------------------
(***************************************************************************)
(* Type correctness of the package store, and the commit rule of its two   *)
(* directories: whatever fails and wherever the manager is killed, a       *)
(* receipt names a tree that is there and holds exactly its files.         *)
(***************************************************************************)
EXTENDS UserPackageStore, TLAPS, FiniteSetTheorems

InstallSteps == {"admitting", "publishing", "repairing", "committing",
                 "unpublishing", "reinstating", "pruning"}
RemoveSteps == {"retiring", "emptying", "restoring"}
Entry == [Component -> Package \cup {None}]

\* A request under way has its package and the catalog that load() found.
RequestIsHeld ==
    step \in InstallSteps \cup RemoveSteps \cup {"accepting", "failed"}
        => request \in Request /\ loaded \in Entry

\* Type correctness is inductive together with the request that is held.
TypeInv == TypeOK /\ RequestIsHeld

LEMMA PackageFields ==
    ASSUME NEW p \in Package
    PROVE  p.id \in Component /\ p.version \in Version
           /\ p # None /\ p # Unreadable /\ p # Partial
BY PackageAssumption

\* load() returns an entry or nothing for every component.
LEMMA InstalledType == Installed \in Entry
BY DEF Installed, Entry

\* A deletion leaves versions, damaged ones included.
LEMMA SweptType ==
    ASSUME NEW versions \in [Version -> Package \cup {None, Partial}],
           NEW kept, NEW left \in Swept(versions, kept)
    PROVE  left \in [Version -> Package \cup {None, Partial}]
BY DEF Swept

\* One tree is replaced by another.
Tree == Package \cup {None, Partial}

LEMMA PlacedType ==
    ASSUME NEW disk0 \in [Component -> [Version -> Tree]],
           NEW c \in Component, NEW v \in Version, NEW left \in Tree
    PROVE  [disk0 EXCEPT ![c][v] = left] \in [Component -> [Version -> Tree]]
OBVIOUS

LEMMA TypeInit == Init => TypeInv
<1>1. Init => TypeOK
    BY DEF Init, TypeOK, Request
<1>2. Init => RequestIsHeld
    BY DEF Init, RequestIsHeld, InstallSteps, RemoveSteps
<1> QED BY <1>1, <1>2 DEF TypeInv

LEMMA TypeStep == TypeInv /\ [DamagedNext]_vars => TypeInv'
<1> SUFFICES ASSUME TypeInv, [DamagedNext]_vars PROVE TypeInv'
    OBVIOUS
<1> USE DEF TypeInv, TypeOK, RequestIsHeld, InstallSteps, RemoveSteps, disk,
        transaction, Goto
<1>1. CASE Start
    BY <1>1 DEF Start
<1>2. ASSUME NEW c \in Component, RecoverComponent(c) PROVE TypeInv'
    <2>1. PICK left \in IF receipts[c] = None THEN Swept(trees[c], {})
                        ELSE IF receipts[c] = Unreadable THEN {trees[c]}
                        ELSE Pruned(c, receipts[c].version) :
              trees' = [trees EXCEPT ![c] = left]
        BY <1>2 DEF RecoverComponent
    <2>2. left \in [Version -> Package \cup {None, Partial}]
        BY <2>1, SweptType DEF Pruned
    <2> QED BY <1>2, <2>1, <2>2 DEF RecoverComponent
<1>3. CASE Initialize
    BY <1>3, InstalledType DEF Initialize, Reloaded, Entry
<1>4. ASSUME NEW p \in Package, InstallInspectedPackage(p) PROVE TypeInv'
    BY <1>4, InstalledType DEF InstallInspectedPackage, Begin, Request, Entry
<1>5. CASE Admit
    BY <1>5 DEF Admit
<1>6. CASE Publish
    <2> DEFINE p == request.package
               Placed(left) == trees' = [trees EXCEPT ![p.id][p.version] = left]
    <2>1. step = "publishing" /\ p \in Package /\ p.id \in Component
          /\ p.version \in Version
        BY <1>6, PackageFields DEF Publish, Request
    <2>2. trees[p.id][p.version] \in Package \cup {None, Partial}
        BY <2>1
    <2>3. UNCHANGED <<receipts, catalog, request, loaded, todo, answer>>
        BY <1>6 DEF Publish
    <2>4. step' \in {"failed", "committing", "repairing"}
          /\ published' \in BOOLEAN
          /\ retired' \in Package \cup {None, Partial}
        BY <1>6, <2>2 DEF Publish
    <2>5. UNCHANGED trees \/ Placed(p) \/ Placed(None)
        BY <1>6 DEF Publish
    <2>6. trees' \in [Component -> [Version -> Package \cup {None, Partial}]]
        BY <2>1, <2>5
    <2> HIDE DEF Placed
    <2> QED BY <2>1, <2>3, <2>4, <2>6
<1>7. CASE Repair
    <2> DEFINE p == request.package
    <2>1. step = "repairing" /\ p \in Package /\ p.id \in Component
          /\ p.version \in Version
        BY <1>7, PackageFields DEF Repair, Request
    <2>2. UNCHANGED trees
          \/ trees' = [trees EXCEPT ![p.id][p.version] = p]
        BY <1>7 DEF Repair
    <2>3. trees \in [Component -> [Version -> Tree]] /\ p \in Tree
        BY <2>1 DEF Tree
    <2>4. trees' \in [Component -> [Version -> Tree]]
        <3> HIDE DEF TypeInv, p
        <3> QED BY <2>1, <2>2, <2>3, PlacedType
    <2> QED BY <1>7, <2>1, <2>4 DEF Repair, Tree
<1>8. CASE WriteReceipt
    BY <1>8, PackageFields DEF WriteReceipt, Request
<1>9. CASE Unpublish
    BY <1>9, PackageFields DEF Unpublish, Request
<1>10. CASE Reinstate
    BY <1>10, PackageFields DEF Reinstate, Request
<1>11. CASE Prune
    <2>1. request.package.id \in Component
        BY <1>11, PackageFields DEF Prune, Request
    <2>2. PICK left \in Pruned(request.package.id, request.package.version) :
              trees' = [trees EXCEPT ![request.package.id] = left]
        BY <1>11 DEF Prune
    <2>3. left \in [Version -> Package \cup {None, Partial}]
        BY <2>1, <2>2, SweptType DEF Pruned
    <2> QED BY <1>11, <2>1, <2>2, <2>3 DEF Prune
<1>12. ASSUME NEW c \in Component, RemovePackage(c) PROVE TypeInv'
    BY <1>12, InstalledType DEF RemovePackage, Begin, Request, Entry
<1>13. CASE RetireReceipt
    BY <1>13, PackageFields DEF RetireReceipt, Request
<1>14. CASE RetireTrees
    BY <1>14, PackageFields DEF RetireTrees, Request
<1>15. CASE RestoreReceipt
    BY <1>15, PackageFields DEF RestoreReceipt, Request
<1>16. CASE Accept
    BY <1>16, PackageFields DEF Accept, Finish, Entries, Wanted, Request, Entry
<1>17. CASE AnswerFailure
    BY <1>17 DEF AnswerFailure, Finish
<1>18. CASE Crash
    BY <1>18 DEF Crash
<1>19. ASSUME NEW c \in Component, Damage(c) PROVE TypeInv'
    <2>1. CASE UNCHANGED trees
        BY <1>19, <2>1 DEF Damage
    <2>2. ASSUME NEW v \in Version, NEW left \in {None, Partial},
                 trees' = [trees EXCEPT ![c][v] = left]
          PROVE  trees' \in [Component -> [Version -> Tree]]
        BY <2>2, PlacedType DEF Tree
    <2>3. CASE UNCHANGED receipts
        BY <1>19, <2>1, <2>2, <2>3 DEF Damage, Tree
    <2> QED BY <1>19, <2>1, <2>3 DEF Damage
<1>20. CASE UNCHANGED vars
    BY <1>20 DEF vars
<1> HIDE DEF TypeInv, TypeOK, RequestIsHeld, Goto
<1> QED
    BY <1>1, <1>2, <1>3, <1>4, <1>5, <1>6, <1>7, <1>8, <1>9, <1>10, <1>11,
       <1>12, <1>13, <1>14, <1>15, <1>16, <1>17, <1>18, <1>19, <1>20
       DEF DamagedNext, Next, Install, Removal

\* The store's variables keep their types: receipts are packages or absent or
\* unreadable, whatever fails while they are written and whoever else edits them.
THEOREM TypeCorrect == DamagedSpec => []TypeOK
<1>1. TypeInv => TypeOK
    BY DEF TypeInv
<1> QED BY TypeInit, TypeStep, <1>1, PTL DEF DamagedSpec

-----------------------------------------------------------------------------
(* Every receipt has its tree *)

\* The receipt is written for a version no other receipt names: the one that
\* is there is for another version, so the old tree stays until it is
\* replaced; and a removal takes the receipt away before the tree.
Backed(c) ==
    receipts[c] # None =>
        receipts[c] \in Package /\ trees[c][receipts[c].version] = receipts[c]
EveryBacked == \A c \in Component : Backed(c)
ReadIsCurrent == step \in {"admitting", "retiring"} => loaded = Installed
DestinationIsFree ==
    step \in {"publishing", "repairing", "committing", "unpublishing",
              "reinstating"} =>
        LET p == request.package IN
        receipts[p.id] # None => receipts[p.id].version # p.version
CommittedIsPublished ==
    step = "committing" =>
        LET p == request.package IN trees[p.id][p.version] = p
PrunedIsCommitted ==
    step = "pruning" => receipts[request.package.id] = request.package
RetiredIsKept ==
    step \in {"emptying", "restoring"} =>
        LET p == request.package IN
        receipts[p.id] = None /\ trees[p.id][p.version] = p
BackedInv ==
    /\ TypeInv
    /\ EveryBacked
    /\ ReadIsCurrent
    /\ DestinationIsFree
    /\ CommittedIsPublished
    /\ PrunedIsCommitted
    /\ RetiredIsKept

\* Versions that are kept survive a deletion.
LEMMA SweptKeeps ==
    ASSUME NEW versions, NEW kept, NEW v \in kept, v \in Version,
           NEW left \in Swept(versions, kept)
    PROVE  left[v] = versions[v]
BY DEF Swept

LEMMA BackedInit == Init => BackedInv
<1> SUFFICES ASSUME Init PROVE BackedInv
    OBVIOUS
<1>1. TypeInv
    BY TypeInit
<1> QED
    BY <1>1 DEF Init, BackedInv, EveryBacked, Backed, ReadIsCurrent,
       DestinationIsFree, CommittedIsPublished, PrunedIsCommitted,
       RetiredIsKept

\* A change of a tree no receipt names leaves every receipt with its tree.
LEMMA OtherTreeKeepsBacked ==
    ASSUME BackedInv, NEW c \in Component, NEW v \in Version, NEW left,
           receipts[c] # None => receipts[c].version # v,
           UNCHANGED receipts,
           trees' = [trees EXCEPT ![c][v] = left]
    PROVE  EveryBacked'
<1> SUFFICES ASSUME NEW d \in Component PROVE Backed(d)'
    BY DEF EveryBacked
<1>1. Backed(d) /\ trees \in [Component -> [Version -> Tree]]
    BY DEF BackedInv, EveryBacked, TypeInv, TypeOK, Tree
<1>2. ASSUME receipts[d] \in Package
      PROVE  trees'[d][receipts[d].version] = trees[d][receipts[d].version]
    <2>1. receipts[d].version \in Version
        BY <1>2, PackageFields
    <2> QED BY <1>1, <1>2, <2>1, PackageFields
<1> QED BY <1>1, <1>2 DEF Backed

\* A deletion that keeps the committed version leaves the receipt its tree.
LEMMA PrunedKeepsBacked ==
    ASSUME BackedInv, NEW c \in Component, NEW left,
           UNCHANGED receipts,
           receipts[c] # None => left[receipts[c].version] =
                                 trees[c][receipts[c].version],
           trees' = [trees EXCEPT ![c] = left]
    PROVE  EveryBacked'
<1> SUFFICES ASSUME NEW d \in Component PROVE Backed(d)'
    BY DEF EveryBacked
<1>1. Backed(d) /\ trees \in [Component -> [Version -> Tree]]
    BY DEF BackedInv, EveryBacked, TypeInv, TypeOK, Tree
<1>2. trees'[d] = IF d = c THEN left ELSE trees[d]
    BY <1>1
<1> QED BY <1>1, <1>2 DEF Backed

LEMMA SameDisk ==
    ASSUME BackedInv, UNCHANGED disk
    PROVE  EveryBacked' /\ Installed' = Installed
BY DEF BackedInv, EveryBacked, Backed, disk, Installed

\* What the request names, at every step of its handling.
LEMMA RequestFields ==
    ASSUME BackedInv, step \in InstallSteps \cup RemoveSteps
    PROVE  /\ request.package \in Package
           /\ request.package.id \in Component
           /\ request.package.version \in Version
BY PackageFields DEF BackedInv, TypeInv, RequestIsHeld, Request

LEMMA BackedStep == BackedInv /\ [Next]_vars => BackedInv'
<1> SUFFICES ASSUME BackedInv, [Next]_vars PROVE BackedInv'
    OBVIOUS
<1> DEFINE p == request.package
           Held == /\ ReadIsCurrent /\ DestinationIsFree
                   /\ CommittedIsPublished /\ PrunedIsCommitted
                   /\ RetiredIsKept
<1>t. TypeInv'
    BY TypeStep DEF BackedInv, DamagedNext
<1>q. ASSUME EveryBacked', Held' PROVE BackedInv'
    BY <1>t, <1>q DEF BackedInv
<1> USE DEF InstallSteps, RemoveSteps
\* Steps that leave no request under way.
<1>v. ASSUME step' \in {"down", "recovering", "unavailable", "idle",
                        "accepting", "failed"}
      PROVE  Held'
    BY <1>v DEF ReadIsCurrent, DestinationIsFree, CommittedIsPublished,
                PrunedIsCommitted, RetiredIsKept
<1>1. CASE Start
    BY <1>1, <1>q, <1>v, SameDisk DEF Start
<1>2. ASSUME NEW c \in Component, RecoverComponent(c) PROVE BackedInv'
    <2>1. PICK left \in IF receipts[c] = None THEN Swept(trees[c], {})
                        ELSE IF receipts[c] = Unreadable THEN {trees[c]}
                        ELSE Pruned(c, receipts[c].version) :
              trees' = [trees EXCEPT ![c] = left]
        BY <1>2 DEF RecoverComponent
    <2>2. receipts[c] # None => left[receipts[c].version] =
                                trees[c][receipts[c].version]
        <3> SUFFICES ASSUME receipts[c] # None
                     PROVE  left[receipts[c].version] =
                            trees[c][receipts[c].version]
            OBVIOUS
        <3>1. receipts[c] \in Package /\ receipts[c].version \in Version
              /\ receipts[c] # Unreadable
            BY PackageFields DEF BackedInv, EveryBacked, Backed
        <3> QED BY <2>1, <3>1, SweptKeeps DEF Pruned
    <2>3. EveryBacked'
        BY <1>2, <2>1, <2>2, PrunedKeepsBacked DEF RecoverComponent
    <2>4. Held'
        BY <1>2, <1>v DEF RecoverComponent
    <2> QED BY <1>q, <2>3, <2>4
<1>3. CASE Initialize
    BY <1>3, <1>q, <1>v, SameDisk DEF Initialize
<1>4. ASSUME NEW package \in Package, InstallInspectedPackage(package)
      PROVE  BackedInv'
    <2>1. EveryBacked' /\ Installed' = Installed
        BY <1>4, SameDisk DEF InstallInspectedPackage, Begin
    <2>2. Held'
        BY <1>4, <2>1 DEF InstallInspectedPackage, Begin, ReadIsCurrent,
           DestinationIsFree, CommittedIsPublished, PrunedIsCommitted,
           RetiredIsKept
    <2> QED BY <1>q, <2>1, <2>2
<1>5. CASE Admit
    <2>1. step = "admitting" /\ UNCHANGED disk /\ request' = request
          /\ step' \in {"failed", "pruning", "publishing"}
        BY <1>5 DEF Admit, Goto, transaction
    <2>2. EveryBacked' /\ loaded = Installed
        BY <2>1, SameDisk DEF BackedInv, ReadIsCurrent
    <2>3. p \in Package /\ p.id \in Component
        BY <2>1, RequestFields
    <2>4. CASE step' = "failed"
        BY <1>q, <1>v, <2>2, <2>4
    <2>5. CASE step' = "pruning"
        <3>1. loaded[p.id] = p
            BY <1>5, <2>5 DEF Admit, Goto
        <3>2. receipts[p.id] = p
            BY <2>2, <2>3, <3>1, PackageFields DEF Installed
        <3>3. Held'
            BY <2>1, <2>5, <3>2 DEF ReadIsCurrent, DestinationIsFree,
               CommittedIsPublished, PrunedIsCommitted, RetiredIsKept, disk
        <3> QED BY <1>q, <2>2, <3>3
    <2>6. CASE step' = "publishing"
        <3>1. loaded[p.id] # p /\ ~SameVersionOtherBytes(p)
            BY <1>5, <2>6 DEF Admit, Goto
        <3>2. receipts[p.id] # None => receipts[p.id].version # p.version
            BY <2>2, <2>3, <3>1 DEF SameVersionOtherBytes, Installed,
               BackedInv, EveryBacked, Backed
        <3>3. Held'
            BY <2>1, <2>6, <3>2 DEF ReadIsCurrent, DestinationIsFree,
               CommittedIsPublished, PrunedIsCommitted, RetiredIsKept, disk
        <3> QED BY <1>q, <2>2, <3>3
    <2> QED BY <2>1, <2>4, <2>5, <2>6
\* The steps that change the tree at the destination.
<1>d. ASSUME step \in {"publishing", "repairing", "committing",
                       "unpublishing", "reinstating"},
             UNCHANGED receipts, request' = request,
             \/ UNCHANGED trees
             \/ \E left : trees' = [trees EXCEPT ![p.id][p.version] = left],
             step' \in {"failed", "committing", "repairing", "unpublishing",
                        "reinstating"},
             step' = "committing" => trees'[p.id][p.version] = p
      PROVE  BackedInv'
    <2>1. p \in Package /\ p.id \in Component /\ p.version \in Version
        BY <1>d, RequestFields
    <2>2. receipts[p.id] # None => receipts[p.id].version # p.version
        BY <1>d DEF BackedInv, DestinationIsFree
    <2>3. EveryBacked'
        <3>1. CASE UNCHANGED trees
            BY <1>d, <3>1, SameDisk DEF disk
        <3>2. ASSUME NEW left,
                     trees' = [trees EXCEPT ![p.id][p.version] = left]
              PROVE  EveryBacked'
            <4> HIDE DEF p
            <4> QED BY <1>d, <2>1, <2>2, <3>2, OtherTreeKeepsBacked
        <3> QED BY <1>d, <3>1, <3>2
    <2>4. Held'
        BY <1>d, <2>2 DEF ReadIsCurrent, DestinationIsFree,
           CommittedIsPublished, PrunedIsCommitted, RetiredIsKept
    <2> QED BY <1>q, <2>3, <2>4
<1>p. ASSUME step \in InstallSteps
      PROVE  /\ trees \in [Component -> [Version -> Tree]]
             /\ p.id \in Component /\ p.version \in Version
    BY <1>p, RequestFields DEF BackedInv, TypeInv, TypeOK, Tree
<1>6. CASE Publish
    BY ZenonT(60), <1>6, <1>d, <1>p DEF Publish, Goto, disk, transaction
<1>7. CASE Repair
    <2>1. step = "repairing" /\ UNCHANGED receipts /\ request' = request
        BY <1>7 DEF Repair, Goto, disk, transaction
    <2>2. CASE UNCHANGED trees /\ step' = "reinstating"
        BY <1>d, <2>1, <2>2
    <2>3. CASE trees' = [trees EXCEPT ![p.id][p.version] = p]
               /\ step' = "committing"
        <3>1. trees'[p.id][p.version] = p
            BY <1>p, <2>1, <2>3
        <3> QED BY <1>d, <2>1, <2>3, <3>1
    <2> QED BY <1>7, <2>2, <2>3 DEF Repair, Goto, disk
<1>8. CASE WriteReceipt
    <2>1. CASE UNCHANGED receipts
        <3>1. /\ step = "committing" /\ request' = request /\ UNCHANGED trees
              /\ step' \in {"pruning", "unpublishing", "failed"}
            BY <1>8 DEF WriteReceipt, Goto, disk, transaction
        <3>2. CASE step' = "pruning"
            <4>1. receipts' = [receipts EXCEPT ![p.id] = p]
                BY <1>8, <3>2 DEF WriteReceipt, Goto
            <4>2. receipts'[p.id] = p
                BY <3>1, <4>1, RequestFields DEF BackedInv, TypeInv, TypeOK
            <4>3. Held'
                BY <3>1, <3>2, <4>2 DEF ReadIsCurrent, DestinationIsFree,
                   CommittedIsPublished, PrunedIsCommitted, RetiredIsKept
            <4> QED BY <1>q, <2>1, <3>1, <4>3, SameDisk DEF disk
        <3> QED BY <1>d, <2>1, <3>1, <3>2
    <2>2. CASE receipts' # receipts
        <3>1. /\ step = "committing" /\ step' = "pruning"
              /\ receipts' = [receipts EXCEPT ![p.id] = p]
              /\ request' = request /\ UNCHANGED trees
            BY <1>8, <2>2 DEF WriteReceipt, Goto, disk, transaction
        <3>2. /\ p \in Package /\ p.id \in Component
              /\ trees[p.id][p.version] = p
              /\ receipts \in [Component -> Package \cup {None, Unreadable}]
            BY <3>1, RequestFields DEF BackedInv, CommittedIsPublished,
               TypeInv, TypeOK
        <3>3. ASSUME NEW c \in Component PROVE Backed(c)'
            BY <3>1, <3>2 DEF BackedInv, EveryBacked, Backed
        <3>4. Held'
            BY <3>1, <3>2 DEF ReadIsCurrent, DestinationIsFree,
               CommittedIsPublished, PrunedIsCommitted, RetiredIsKept
        <3> QED BY <1>q, <3>3, <3>4 DEF EveryBacked
    <2> QED BY <2>1, <2>2
<1>9. CASE Unpublish
    BY <1>9, <1>d, <1>p DEF Unpublish, Goto, disk, transaction
<1>10. CASE Reinstate
    BY <1>10, <1>d, <1>p DEF Reinstate, Goto, disk, transaction
<1>11. CASE Prune
    <2>1. PICK left \in Pruned(p.id, p.version) :
              trees' = [trees EXCEPT ![p.id] = left]
        BY <1>11 DEF Prune
    <2>2. /\ receipts[p.id] = p /\ p.id \in Component /\ p.version \in Version
          /\ UNCHANGED receipts /\ step' = "accepting"
        BY <1>11, RequestFields DEF Prune, Goto, BackedInv, PrunedIsCommitted
    <2>3. left[p.version] = trees[p.id][p.version]
        BY <2>1, <2>2, SweptKeeps DEF Pruned
    <2>4. EveryBacked'
        BY <2>1, <2>2, <2>3, PrunedKeepsBacked
    <2> QED BY <1>q, <1>v, <2>2, <2>4
<1>12. ASSUME NEW c \in Component, RemovePackage(c) PROVE BackedInv'
    <2>1. EveryBacked' /\ Installed' = Installed
        BY <1>12, SameDisk DEF RemovePackage, Begin
    <2>2. Held'
        BY <1>12, <2>1 DEF RemovePackage, Begin, ReadIsCurrent,
           DestinationIsFree, CommittedIsPublished, PrunedIsCommitted,
           RetiredIsKept
    <2> QED BY <1>q, <2>1, <2>2
<1>13. CASE RetireReceipt
    <2>1. CASE UNCHANGED disk /\ step' = "failed"
        BY <1>q, <1>v, <2>1, SameDisk
    <2>2. CASE step' = "emptying"
        <3>1. /\ step = "retiring" /\ loaded[p.id] = p
              /\ receipts' = [receipts EXCEPT ![p.id] = None]
              /\ request' = request /\ UNCHANGED trees
            BY <1>13, <2>2 DEF RetireReceipt, Goto, disk, transaction
        <3>2. p \in Package /\ p.id \in Component /\ loaded = Installed
            BY <3>1, RequestFields DEF BackedInv, ReadIsCurrent
        <3>3. trees[p.id][p.version] = p
            BY <3>1, <3>2, PackageFields DEF Installed
        <3>4. receipts \in [Component -> Package \cup {None, Unreadable}]
            BY DEF BackedInv, TypeInv, TypeOK
        <3>5. ASSUME NEW c \in Component PROVE Backed(c)'
            BY <3>1, <3>2, <3>4 DEF BackedInv, EveryBacked, Backed
        <3>6. Held'
            BY <2>2, <3>1, <3>2, <3>3, <3>4 DEF ReadIsCurrent,
               DestinationIsFree, CommittedIsPublished, PrunedIsCommitted,
               RetiredIsKept
        <3> QED BY <1>q, <3>5, <3>6 DEF EveryBacked
    <2> QED BY <1>13, <2>1, <2>2 DEF RetireReceipt, Goto
<1>14. CASE RetireTrees
    <2>1. /\ step = "emptying" /\ UNCHANGED receipts /\ request' = request
          /\ p \in Package /\ p.id \in Component /\ receipts[p.id] = None
          /\ trees[p.id][p.version] = p
        BY <1>14, RequestFields DEF RetireTrees, Goto, transaction, BackedInv,
           RetiredIsKept
    <2>2. CASE step' = "accepting"
        <3>1. trees' = [trees EXCEPT ![p.id] = [v \in Version |-> None]]
            BY <1>14, <2>2 DEF RetireTrees, Goto
        <3>2. EveryBacked'
            BY <2>1, <3>1, PrunedKeepsBacked
        <3> QED BY <1>q, <1>v, <2>2, <3>2
    <2>3. CASE step' = "restoring"
        <3>1. UNCHANGED disk
            BY <1>14, <2>3 DEF RetireTrees, Goto, disk
        <3>2. Held'
            BY <2>1, <2>3, <3>1 DEF ReadIsCurrent, DestinationIsFree,
               CommittedIsPublished, PrunedIsCommitted, RetiredIsKept, disk
        <3> QED BY <1>q, <3>1, <3>2, SameDisk
    <2> QED BY <1>14, <2>2, <2>3 DEF RetireTrees, Goto
<1>15. CASE RestoreReceipt
    <2>1. /\ p \in Package /\ p.id \in Component
          /\ trees[p.id][p.version] = p
          /\ step' = "failed" /\ UNCHANGED trees
          /\ receipts \in [Component -> Package \cup {None, Unreadable}]
        BY <1>15, RequestFields DEF RestoreReceipt, Goto, BackedInv,
           RetiredIsKept, TypeInv, TypeOK
    <2>2. UNCHANGED receipts \/ receipts' = [receipts EXCEPT ![p.id] = p]
        BY <1>15 DEF RestoreReceipt
    <2>3. ASSUME NEW c \in Component PROVE Backed(c)'
        BY <2>1, <2>2 DEF BackedInv, EveryBacked, Backed
    <2> QED BY <1>q, <1>v, <2>1, <2>3 DEF EveryBacked
<1>16. CASE Accept
    BY <1>16, <1>q, <1>v, SameDisk DEF Accept, Finish
<1>17. CASE AnswerFailure
    BY <1>17, <1>q, <1>v, SameDisk DEF AnswerFailure, Finish
<1>18. CASE Crash
    BY <1>18, <1>q, <1>v, SameDisk DEF Crash
<1>19. CASE UNCHANGED vars
    <2>1. EveryBacked' /\ Installed' = Installed
        BY <1>19, SameDisk DEF vars
    <2>2. Held'
        BY <1>19, <2>1 DEF vars, disk, transaction, BackedInv, ReadIsCurrent,
           DestinationIsFree, CommittedIsPublished, PrunedIsCommitted,
           RetiredIsKept
    <2> QED BY <1>q, <2>1, <2>2
<1> QED
    BY <1>1, <1>2, <1>3, <1>4, <1>5, <1>6, <1>7, <1>8, <1>9, <1>10, <1>11,
       <1>12, <1>13, <1>14, <1>15, <1>16, <1>17, <1>18, <1>19
       DEF Next, Install, Removal

\* As long as nobody else edits the store, a receipt names a tree that is
\* there and is intact, after any crash and any failed file operation.
THEOREM ReceiptsAreBacked == Spec => []ReceiptHasItsTree
<1>1. BackedInv => ReceiptHasItsTree
    BY DEF BackedInv, EveryBacked, Backed, ReceiptHasItsTree, Installed
<1> QED BY BackedInit, BackedStep, <1>1, PTL DEF Spec

-----------------------------------------------------------------------------
(***************************************************************************)
(* What the component manager serves and answers.  As long as nobody else  *)
(* edits the store and a receipt that was set aside can be put back, the   *)
(* catalog it serves between requests is what a restart would serve, and   *)
(* the store implements the atomic catalog of PackageCatalog: a receipt    *)
(* always has its tree (BackedInv), so what is installed is what the       *)
(* receipts say, and CatalogInv follows the receipts through a request.    *)
(* With any damage and any failure, a step changes what is installed of    *)
(* its own component only, and a success is what is stored; RequestInv     *)
(* follows receipt and tree of that component.                             *)
(***************************************************************************)

RequestSteps == InstallSteps \cup RemoveSteps \cup {"accepting", "failed"}
\* Steps of a request that has not changed the receipts, or has undone it.
Before == {"admitting", "publishing", "repairing", "committing",
           "unpublishing", "reinstating", "retiring", "failed"}
\* Steps of a request whose change of the receipts is in effect.
After == {"pruning", "emptying", "restoring", "accepting"}

\* Receipts, or entries of load(), that the combined catalog has room for.
Fits(entries) ==
    /\ IsFiniteSet({c \in Component : entries[c] # None})
    /\ Count(entries) <= CatalogRoom

\* Between requests the manager is done with the last one.
NothingPending == step \notin RequestSteps => request = None /\ loaded = None
KindOfStep ==
    /\ step \in InstallSteps => request.kind = "install"
    /\ step \in RemoveSteps => request.kind = "remove"
    /\ step \in {"emptying", "restoring"} =>
           loaded[request.package.id] = request.package
\* The catalog is what load() found when the request began.
ServedDuring ==
    step \in RequestSteps =>
        /\ catalog = loaded
        /\ Fits(loaded)
        /\ request.kind = "install" =>
               loaded[request.package.id] # None \/ Count(loaded) < CatalogRoom
\* The receipts have not changed yet, or the request's way.
EffectOfStep ==
    /\ step \in Before => receipts = loaded
    /\ step \in After => receipts = Entries
ServedBetween == step = "idle" => catalog = receipts

CatalogInv ==
    /\ BackedInv
    /\ NothingPending
    /\ KindOfStep
    /\ ServedDuring
    /\ EffectOfStep
    /\ ServedBetween
    /\ Fits(receipts)

-----------------------------------------------------------------------------
(* Lemmas *)

\* With every receipt backed, load() finds what the receipts say.
LEMMA InstalledIsReceipts ==
    ASSUME TypeOK, EveryBacked
    PROVE  Installed = receipts /\ receipts \in Entry
<1>1. receipts \in Entry
    BY PackageAssumption DEF TypeOK, EveryBacked, Backed, Entry
<1>2. ASSUME NEW c \in Component PROVE Installed[c] = receipts[c]
    BY <1>1 DEF EveryBacked, Backed, Installed, Entry
<1> QED BY <1>1, <1>2, InstalledType DEF Entry

\* Nothing fits in a catalog that is empty but nothing.
LEMMA EmptyFits ==
    ASSUME NEW entries, \A c \in Component : entries[c] = None
    PROVE  Fits(entries)
<1>1. {c \in Component : entries[c] # None} = {}
    OBVIOUS
<1> QED BY <1>1, FS_EmptySet, LimitAssumption DEF Fits, Count

\* An entry that replaces another, or one more where there is room, fits.
LEMMA AddedFits ==
    ASSUME NEW entries \in Entry, NEW c \in Component, NEW p \in Package,
           Fits(entries),
           entries[c] # None \/ Count(entries) < CatalogRoom
    PROVE  Fits([entries EXCEPT ![c] = p])
<1> DEFINE S == {d \in Component : entries[d] # None}
           T == {d \in Component : [entries EXCEPT ![c] = p][d] # None}
<1>1. T = S \cup {c}
    BY PackageAssumption DEF Entry
<1>2. /\ IsFiniteSet(S \cup {c})
      /\ Cardinality(S \cup {c}) =
             IF c \in S THEN Cardinality(S) ELSE Cardinality(S) + 1
    BY FS_AddElement DEF Fits
<1>3. Cardinality(S) \in Nat /\ CatalogRoom \in Nat
    BY FS_CardinalityType, LimitAssumption DEF Fits
<1>4. Cardinality(T) <= CatalogRoom
    BY <1>1, <1>2, <1>3 DEF Fits, Count
<1> QED BY <1>1, <1>2, <1>4 DEF Fits, Count

\* What is left after a removal fits.
LEMMA RemovedFits ==
    ASSUME NEW entries \in Entry, NEW c \in Component, Fits(entries)
    PROVE  Fits([entries EXCEPT ![c] = None])
<1> DEFINE S == {d \in Component : entries[d] # None}
           T == {d \in Component : [entries EXCEPT ![c] = None][d] # None}
<1>1. T \in SUBSET S
    BY DEF Entry
<1>2. IsFiniteSet(T) /\ Cardinality(T) <= Cardinality(S)
    BY <1>1, FS_Subset DEF Fits
<1>3. Cardinality(S) \in Nat /\ Cardinality(T) \in Nat /\ CatalogRoom \in Nat
    BY <1>2, FS_CardinalityType, LimitAssumption DEF Fits
<1> QED BY <1>2, <1>3 DEF Fits, Count

\* With the receipts in the catalog's room, a start serves all of them.
LEMMA ReloadedIsReceipts ==
    ASSUME TypeOK, EveryBacked, Fits(receipts)
    PROVE  Reloaded = receipts
BY InstalledIsReceipts DEF Reloaded, Fits

LEMMA CatalogInit == Init => CatalogInv
<1> SUFFICES ASSUME Init PROVE CatalogInv
    OBVIOUS
<1>1. BackedInv
    BY BackedInit
<1>2. Fits(receipts)
    BY EmptyFits DEF Init
<1> QED
    BY <1>1, <1>2 DEF Init, CatalogInv, NothingPending, KindOfStep,
       ServedDuring, EffectOfStep, ServedBetween, RequestSteps, InstallSteps,
       RemoveSteps, Before, After

\* The facts about a request that is under way.
LEMMA RequestFacts ==
    ASSUME CatalogInv, step \in RequestSteps
    PROVE  /\ request \in Request /\ loaded \in Entry
           /\ request.package \in Package
           /\ request.package.id \in Component
           /\ Fits(loaded) /\ catalog = loaded
<1>1. request \in Request /\ loaded \in Entry
    BY DEF CatalogInv, BackedInv, TypeInv, RequestIsHeld, RequestSteps
<1> QED BY <1>1, PackageFields DEF Request, CatalogInv, ServedDuring

\* A step that goes on with a request and leaves the receipts as they are.
LEMMA RequestGoesOn ==
    ASSUME CatalogInv, BackedInv', step \in RequestSteps, step' \in RequestSteps,
           UNCHANGED <<receipts, catalog, request, loaded>>,
           step' \in InstallSteps => step \in InstallSteps,
           step' \in RemoveSteps => step \in RemoveSteps,
           step' \in {"emptying", "restoring"} =>
               step \in {"emptying", "restoring"},
           step' \in Before => step \in Before,
           step' \in After => step \in After
    PROVE  CatalogInv'
<1>1. NothingPending' /\ ServedBetween'
    BY DEF NothingPending, ServedBetween, RequestSteps, InstallSteps,
       RemoveSteps
<1>2. KindOfStep'
    BY DEF CatalogInv, KindOfStep
<1>3. ServedDuring'
    BY DEF CatalogInv, ServedDuring, Fits, Count
<1>4. EffectOfStep'
    BY DEF CatalogInv, EffectOfStep, Entries, Wanted
<1>5. Fits(receipts)'
    BY DEF CatalogInv, Fits, Count
<1> QED BY <1>1, <1>2, <1>3, <1>4, <1>5 DEF CatalogInv

\* A step outside a request: nothing is pending, and an idle manager serves
\* what the receipts say.
LEMMA RestGoesOn ==
    ASSUME CatalogInv, BackedInv', step' \notin RequestSteps,
           UNCHANGED receipts, request' = None, loaded' = None,
           step' = "idle" => catalog' = receipts
    PROVE  CatalogInv'
<1>1. Fits(receipts)'
    BY DEF CatalogInv, Fits, Count
<1> QED
    BY <1>1 DEF CatalogInv, NothingPending, KindOfStep, ServedDuring,
       EffectOfStep, ServedBetween, RequestSteps, InstallSteps, RemoveSteps,
       Before, After

\* A request begins with what the manager serves.
LEMMA RequestBegins ==
    ASSUME CatalogInv, BackedInv', step = "idle", NEW kind, NEW p \in Package,
           \/ kind = "install" /\ step' = "admitting"
              /\ (catalog[p.id] = None => Count(catalog) < CatalogRoom)
           \/ kind = "remove" /\ step' = "retiring",
           Begin(kind, p, step')
    PROVE  CatalogInv'
<1>1. /\ UNCHANGED <<receipts, catalog>>
      /\ request' = [kind |-> kind, package |-> p]
      /\ loaded' = Installed
    BY DEF Begin, disk
<1>2. catalog = receipts /\ loaded' = receipts /\ Fits(receipts)
    BY <1>1, InstalledIsReceipts
       DEF CatalogInv, ServedBetween, BackedInv, TypeInv
<1>3. Fits(receipts)' /\ Fits(loaded)' /\ Count(loaded)' = Count(catalog)
    BY <1>1, <1>2 DEF Fits, Count
<1>4. ServedDuring'
    BY <1>1, <1>2, <1>3 DEF ServedDuring
<1> QED
    BY <1>1, <1>2, <1>3, <1>4 DEF CatalogInv, NothingPending, KindOfStep,
       EffectOfStep, ServedBetween, RequestSteps, InstallSteps, RemoveSteps,
       Before, After

\* The step of a request that changes the receipts, or undoes its change.
LEMMA ReceiptsChange ==
    ASSUME CatalogInv, BackedInv', step \in RequestSteps, step' \in RequestSteps,
           UNCHANGED <<catalog, request, loaded>>, Fits(receipts'),
           step' \in {"pruning", "emptying", "failed"},
           step' = "pruning" => step \in InstallSteps,
           step' = "emptying" =>
               step \in RemoveSteps
               /\ loaded[request.package.id] = request.package,
           step' = "failed" => receipts' = loaded,
           step' # "failed" => receipts' = Entries
    PROVE  CatalogInv'
<1>1. NothingPending' /\ ServedBetween'
    BY DEF NothingPending, ServedBetween, RequestSteps, InstallSteps,
       RemoveSteps
<1>2. KindOfStep'
    BY DEF CatalogInv, KindOfStep, InstallSteps, RemoveSteps
<1>3. ServedDuring'
    BY DEF CatalogInv, ServedDuring, Fits, Count
<1>4. Entries' = Entries
    BY DEF Entries, Wanted
<1>5. EffectOfStep'
    BY <1>4 DEF EffectOfStep, Before, After
<1>6. Fits(receipts)'
    BY DEF Fits, Count
<1> QED BY <1>1, <1>2, <1>3, <1>5, <1>6 DEF CatalogInv

\* What a request asks for fits in the catalog.
LEMMA EntriesFit ==
    ASSUME CatalogInv, step \in RequestSteps
    PROVE  Entries \in Entry /\ Fits(Entries)
<1> DEFINE p == request.package
<1>1. /\ loaded \in Entry /\ p \in Package /\ p.id \in Component
      /\ Fits(loaded) /\ request \in Request
    BY RequestFacts
<1>2. CASE request.kind = "install"
    <2>1. loaded[p.id] # None \/ Count(loaded) < CatalogRoom
        BY <1>2 DEF CatalogInv, ServedDuring
    <2>2. Entries = [loaded EXCEPT ![p.id] = p]
        BY <1>2 DEF Entries, Wanted
    <2>3. Fits([loaded EXCEPT ![p.id] = p])
        <3> HIDE DEF p
        <3> QED BY <1>1, <2>1, AddedFits
    <2> QED BY <1>1, <2>2, <2>3 DEF Entry
<1>3. CASE request.kind # "install"
    <2>1. Entries = [loaded EXCEPT ![p.id] = None]
        BY <1>3 DEF Entries, Wanted
    <2>2. Fits([loaded EXCEPT ![p.id] = None])
        <3> HIDE DEF p
        <3> QED BY <1>1, RemovedFits
    <2> QED BY <1>1, <2>1, <2>2 DEF Entry
<1> QED BY <1>2, <1>3

LEMMA CatalogStep ==
    ASSUME ~UndoMayFail, CatalogInv, [Next]_vars
    PROVE  CatalogInv'
<1> DEFINE p == request.package
<1>b. BackedInv /\ BackedInv' /\ TypeOK /\ EveryBacked
    BY BackedStep DEF CatalogInv, BackedInv, TypeInv
<1>t. receipts \in Entry
    BY <1>b, InstalledIsReceipts
<1>s. ASSUME step \in RequestSteps, Goto(step'), step' \in RequestSteps
      PROVE  UNCHANGED <<catalog, request, loaded>>
    BY <1>s DEF Goto, transaction
<1> USE DEF RequestSteps, InstallSteps, RemoveSteps, Before, After
<1>1. CASE Start
    <2>1. /\ step' \notin RequestSteps \cup {"idle"} /\ UNCHANGED receipts
          /\ request' = request /\ loaded' = loaded /\ step = "down"
        BY <1>1 DEF Start, disk, transaction
    <2>2. request' = None /\ loaded' = None
        BY <2>1 DEF CatalogInv, NothingPending
    <2> QED BY <1>b, <2>1, <2>2, RestGoesOn
<1>2. ASSUME NEW c \in Component, RecoverComponent(c) PROVE CatalogInv'
    <2>1. /\ step = "recovering" /\ step' = step /\ UNCHANGED receipts
          /\ request' = request /\ loaded' = loaded
        BY <1>2 DEF RecoverComponent, transaction
    <2>2. request' = None /\ loaded' = None
        BY <2>1 DEF CatalogInv, NothingPending
    <2> QED BY <1>b, <2>1, <2>2, RestGoesOn
<1>3. CASE Initialize
    <2>1. /\ step = "recovering" /\ step' = "idle" /\ UNCHANGED receipts
          /\ request' = request /\ loaded' = loaded /\ catalog' = Reloaded
        BY <1>3 DEF Initialize, disk, transaction
    <2>2. request' = None /\ loaded' = None
        BY <2>1 DEF CatalogInv, NothingPending
    <2>3. catalog' = receipts
        BY <1>b, <2>1, ReloadedIsReceipts DEF CatalogInv
    <2> QED BY <1>b, <2>1, <2>2, <2>3, RestGoesOn
<1>4. ASSUME NEW q \in Package, InstallInspectedPackage(q)
      PROVE  CatalogInv'
    BY <1>b, <1>4, RequestBegins DEF InstallInspectedPackage, Begin
<1>5. CASE Admit
    <2>1. /\ step = "admitting" /\ UNCHANGED receipts /\ Goto(step')
          /\ step' \in {"failed", "pruning", "publishing"}
          /\ step' = "pruning" => loaded[p.id] = p
        BY <1>5 DEF Admit, Goto, disk
    <2>2. CASE step' = "pruning"
        <3>1. /\ receipts = loaded /\ request.kind = "install"
              /\ Fits(receipts)
            BY <2>1 DEF CatalogInv, EffectOfStep, KindOfStep
        <3>2. loaded[p.id] = p /\ p.id \in Component /\ loaded \in Entry
            BY <2>1, <2>2, RequestFacts
        <3>3. receipts' = Entries
            BY <2>1, <3>1, <3>2 DEF Entries, Wanted, Entry
        <3>4. Fits(receipts')
            BY <2>1, <3>1 DEF Fits, Count
        <3> QED BY <1>b, <1>s, <2>1, <2>2, <3>3, <3>4, ReceiptsChange
    <2> QED BY <1>b, <1>s, <2>1, <2>2, RequestGoesOn
<1>6. CASE Publish
    <2>1. /\ step = "publishing" /\ step' \in {"failed", "committing", "repairing"}
          /\ UNCHANGED <<receipts, catalog, request, loaded>>
        BY <1>6 DEF Publish, Goto, disk, transaction
    <2> QED BY <1>b, <2>1, RequestGoesOn
<1>7. CASE Repair
    <2>1. /\ step = "repairing" /\ step' \in {"committing", "reinstating"}
          /\ UNCHANGED <<receipts, catalog, request, loaded>>
        BY <1>7 DEF Repair, Goto, disk, transaction
    <2> QED BY <1>b, <2>1, RequestGoesOn
<1>8. CASE WriteReceipt
    <2>1. /\ step = "committing" /\ Goto(step')
          /\ step' \in {"pruning", "unpublishing", "failed"}
          /\ step' # "pruning" => UNCHANGED receipts
          /\ step' = "pruning" => receipts' = [receipts EXCEPT ![p.id] = p]
        BY <1>8 DEF WriteReceipt, Goto, disk
    <2>2. CASE step' = "pruning"
        <3>1. receipts = loaded /\ request.kind = "install"
            BY <2>1 DEF CatalogInv, EffectOfStep, KindOfStep
        <3>2. receipts' = Entries
            BY <2>1, <2>2, <3>1 DEF Entries, Wanted
        <3>3. Fits(receipts')
            BY <2>1, <3>2, EntriesFit
        <3> QED BY <1>b, <1>s, <2>1, <2>2, <3>2, <3>3, ReceiptsChange
    <2> QED BY <1>b, <1>s, <2>1, <2>2, RequestGoesOn
<1>9. CASE Unpublish
    <2>1. /\ step = "unpublishing" /\ step' \in {"reinstating", "failed"}
          /\ UNCHANGED <<receipts, catalog, request, loaded>>
        BY <1>9 DEF Unpublish, Goto, transaction
    <2> QED BY <1>b, <2>1, RequestGoesOn
<1>10. CASE Reinstate
    <2>1. /\ step = "reinstating" /\ step' = "failed"
          /\ UNCHANGED <<receipts, catalog, request, loaded>>
        BY <1>10 DEF Reinstate, Goto, transaction
    <2> QED BY <1>b, <2>1, RequestGoesOn
<1>11. CASE Prune
    <2>1. /\ step = "pruning" /\ step' = "accepting"
          /\ UNCHANGED <<receipts, catalog, request, loaded>>
        BY <1>11 DEF Prune, Goto, transaction
    <2> QED BY <1>b, <2>1, RequestGoesOn
<1>12. ASSUME NEW c \in Component, RemovePackage(c) PROVE CatalogInv'
    <2>1. catalog[c] \in Package
        BY <1>12, <1>b DEF RemovePackage, TypeOK
    <2> QED BY <1>b, <1>12, <2>1, RequestBegins DEF RemovePackage, Begin
<1>13. CASE RetireReceipt
    <2>1. /\ step = "retiring" /\ Goto(step') /\ step' \in {"failed", "emptying"}
          /\ step' = "failed" => UNCHANGED receipts
          /\ step' = "emptying" =>
                 loaded[p.id] = p /\ receipts' = [receipts EXCEPT ![p.id] = None]
        BY <1>13 DEF RetireReceipt, Goto, disk
    <2>2. CASE step' = "emptying"
        <3>1. receipts = loaded /\ request.kind = "remove"
            BY <2>1 DEF CatalogInv, EffectOfStep, KindOfStep
        <3>2. receipts' = Entries
            BY <2>1, <2>2, <3>1 DEF Entries, Wanted
        <3>3. Fits(receipts')
            BY <2>1, <3>2, EntriesFit
        <3> QED BY <1>b, <1>s, <2>1, <2>2, <3>2, <3>3, ReceiptsChange
    <2> QED BY <1>b, <1>s, <2>1, <2>2, RequestGoesOn
<1>14. CASE RetireTrees
    <2>1. /\ step = "emptying" /\ step' \in {"accepting", "restoring"}
          /\ UNCHANGED <<receipts, catalog, request, loaded>>
        BY <1>14 DEF RetireTrees, Goto, transaction
    <2> QED BY <1>b, <2>1, RequestGoesOn
<1>15. CASE RestoreReceipt
    <2>1. /\ step = "restoring" /\ step' = "failed" /\ Goto(step')
          /\ receipts' = [receipts EXCEPT ![p.id] = p]
        BY <1>15 DEF RestoreReceipt, Goto
    <2>2. /\ receipts = Entries /\ request.kind = "remove"
          /\ loaded[p.id] = p
        BY <2>1 DEF CatalogInv, EffectOfStep, KindOfStep
    <2>3. p.id \in Component /\ loaded \in Entry /\ Fits(loaded)
        BY <2>1, RequestFacts
    <2>4. receipts' = loaded
        BY <2>1, <2>2, <2>3 DEF Entries, Wanted, Entry
    <2> QED BY <1>b, <1>s, <2>1, <2>3, <2>4, ReceiptsChange
<1>16. CASE Accept
    <2>1. Count(Entries) <= CatalogRoom /\ step = "accepting"
        BY <1>16, EntriesFit DEF Accept, Fits
    <2>2. /\ step' = "idle" /\ UNCHANGED receipts /\ catalog' = Entries
          /\ request' = None /\ loaded' = None
        BY <1>16, <2>1 DEF Accept, Finish, disk
    <2>3. catalog' = receipts
        BY <2>1, <2>2 DEF CatalogInv, EffectOfStep
    <2> QED BY <1>b, <2>2, <2>3, RestGoesOn
<1>17. CASE AnswerFailure
    <2>1. /\ step = "failed" /\ step' = "idle" /\ UNCHANGED <<receipts, catalog>>
          /\ request' = None /\ loaded' = None
        BY <1>17 DEF AnswerFailure, Finish, disk
    <2>2. catalog' = receipts
        BY <2>1, RequestFacts DEF CatalogInv, EffectOfStep
    <2> QED BY <1>b, <2>1, <2>2, RestGoesOn
<1>18. CASE Crash
    <2>1. /\ step' = "down" /\ UNCHANGED receipts
          /\ request' = None /\ loaded' = None
        BY <1>18 DEF Crash, disk
    <2> QED BY <1>b, <2>1, RestGoesOn
<1>19. CASE UNCHANGED vars
    <2>1. UNCHANGED <<receipts, step, catalog, request, loaded>>
        BY <1>19 DEF vars, disk, transaction
    <2>2. CASE step \in RequestSteps
        BY <1>b, <2>1, <2>2, RequestGoesOn
    <2>3. CASE step \notin RequestSteps
        BY <1>b, <2>1, <2>3, RestGoesOn
           DEF CatalogInv, NothingPending, ServedBetween
    <2> QED BY <2>2, <2>3
<1> HIDE DEF CatalogInv, Goto
<1> QED
    BY <1>1, <1>2, <1>3, <1>4, <1>5, <1>6, <1>7, <1>8, <1>9, <1>10, <1>11,
       <1>12, <1>13, <1>14, <1>15, <1>16, <1>17, <1>18, <1>19
       DEF Next, Install, Removal

LEMMA AlwaysCatalog == ASSUME ~UndoMayFail PROVE Spec => []CatalogInv
BY CatalogInit, CatalogStep, PTL DEF Spec

\* Between requests the manager serves what a restart would serve: the
\* catalog of the last request that succeeded, with every package of it in
\* the room the combined catalog has (acceptUserCatalog, reloadUserCatalog).
THEOREM ServedIsAlwaysStored ==
    ASSUME ~UndoMayFail
    PROVE  Spec => []ServedIsStored
<1>1. CatalogInv => ServedIsStored
    BY ReloadedIsReceipts
       DEF CatalogInv, BackedInv, TypeInv, ServedBetween, ServedIsStored
<1> QED BY AlwaysCatalog, <1>1, PTL

-----------------------------------------------------------------------------
(* The store implements the atomic catalog *)

LEMMA CatalogInitRefines == Init => Atomic!Init
BY DEF Init, Atomic!Init, Installed

\* A step that neither begins nor ends a request and leaves the receipts alone
\* is not seen in the atomic catalog.
LEMMA Unseen ==
    ASSUME CatalogInv, CatalogInv', UNCHANGED <<receipts, request, loaded, answer>>
    PROVE  UNCHANGED Atomic!vars
<1>1. Installed = receipts /\ Installed' = receipts'
    <2>1. TypeOK /\ EveryBacked /\ TypeOK' /\ EveryBacked'
        BY DEF CatalogInv, BackedInv, TypeInv
    <2>2. Installed = receipts
        BY <2>1, InstalledIsReceipts
    <2>3. ASSUME NEW c \in Component PROVE Installed'[c] = receipts'[c]
        BY <2>1 DEF EveryBacked, Backed, Installed
    <2>4. receipts' = [c \in Component |-> receipts'[c]]
        BY <2>1 DEF TypeOK
    <2> QED BY <2>2, <2>3, <2>4 DEF Installed
<1> QED BY <1>1 DEF Atomic!vars

\* A receipt is about the component it is filed under: load() refuses one that
\* names another, and a request writes its own.
Owned == \A c \in Component : receipts[c] # None => receipts[c].id = c

LEMMA OwnedInit == Init => Owned
BY DEF Init, Owned

LEMMA OwnedStep == ASSUME BackedInv, Owned, [Next]_vars PROVE Owned'
<1>1. CASE UNCHANGED receipts
    BY <1>1 DEF Owned
<1>2. ASSUME step \in InstallSteps \cup RemoveSteps, NEW r,
             r \in {request.package, None},
             receipts' = [receipts EXCEPT ![request.package.id] = r]
      PROVE  Owned'
    <2>1. receipts \in [Component -> Package \cup {None, Unreadable}]
        BY DEF BackedInv, TypeInv, TypeOK
    <2> QED BY <1>2, <2>1, RequestFields DEF Owned
<1>3. \/ UNCHANGED receipts
      \/ WriteReceipt \/ RetireReceipt \/ RestoreReceipt
    BY DEF Next, Start, RecoverComponent, Initialize, InstallInspectedPackage,
       Begin, Install, Admit, Publish, Repair, Unpublish, Reinstate, Prune,
       RemovePackage, Removal, RetireTrees, Accept, AnswerFailure, Crash,
       vars, disk
<1> USE DEF InstallSteps, RemoveSteps
<1>4. CASE WriteReceipt
    BY <1>1, <1>2, <1>4 DEF WriteReceipt, disk
<1>5. CASE RetireReceipt
    BY <1>1, <1>2, <1>5 DEF RetireReceipt, disk
<1>6. CASE RestoreReceipt
    BY <1>1, <1>2, <1>6 DEF RestoreReceipt
<1> QED BY <1>1, <1>3, <1>4, <1>5, <1>6

LEMMA CatalogRefines ==
    ASSUME ~UndoMayFail, CatalogInv, CatalogInv', Owned, [Next]_vars
    PROVE  [Atomic!Next]_Atomic!vars
<1> DEFINE p == request.package
<1>b. TypeOK /\ EveryBacked /\ TypeOK' /\ EveryBacked'
    BY DEF CatalogInv, BackedInv, TypeInv
<1>t. Installed = receipts /\ receipts \in Entry
    BY <1>b, InstalledIsReceipts
<1>u. Installed' = receipts'
    <2>1. ASSUME NEW c \in Component PROVE Installed'[c] = receipts'[c]
        BY <1>b DEF EveryBacked, Backed, Installed
    <2>2. receipts' = [c \in Component |-> receipts'[c]]
        BY <1>b DEF TypeOK
    <2> QED BY <2>1, <2>2 DEF Installed
<1>r. ASSUME step \in RequestSteps
      PROVE  /\ request # None /\ request \in Request /\ loaded \in Entry
             /\ p \in Package /\ p.id \in Component
    <2>1. request \in Request /\ loaded \in Entry /\ p \in Package
          /\ p.id \in Component
        BY <1>r, RequestFacts
    <2>2. request # None
        BY <2>1, RequestAssumption
    <2> QED BY <2>1, <2>2
<1> USE DEF RequestSteps, InstallSteps, RemoveSteps, Before, After
<1>1. CASE Start
    BY <1>1, Unseen DEF Start, disk, transaction
<1>2. ASSUME NEW c \in Component, RecoverComponent(c)
      PROVE  UNCHANGED Atomic!vars
    BY <1>2, Unseen DEF RecoverComponent, transaction
<1>3. CASE Initialize
    BY <1>3, Unseen DEF Initialize, disk, transaction
<1> DEFINE Asked(kind, q) ==
        Atomic!Ask([kind |-> kind, package |-> q])
<1>4. ASSUME NEW q \in Package, InstallInspectedPackage(q)
      PROVE  Atomic!Next
    <2>1. /\ step = "idle" /\ request' = [kind |-> "install", package |-> q]
          /\ loaded' = Installed /\ answer' = "none" /\ UNCHANGED receipts
        BY <1>4 DEF InstallInspectedPackage, Begin, disk
    <2>2. request = None
        BY <2>1 DEF CatalogInv, NothingPending
    <2>3. [kind |-> "install", package |-> q] \in Atomic!Request
        BY DEF Atomic!Request
    <2>4. Asked("install", q)
        BY <1>t, <1>u, <2>1, <2>2 DEF Atomic!Ask
    <2> QED BY <2>3, <2>4 DEF Atomic!Next
<1>5. CASE Admit
    BY <1>5, Unseen DEF Admit, Goto, disk, transaction
<1>6. CASE Publish
    BY <1>6, Unseen DEF Publish, Goto, disk, transaction
<1>7. CASE Repair
    BY <1>7, Unseen DEF Repair, Goto, disk, transaction
<1>8. CASE WriteReceipt
    <2>1. CASE UNCHANGED receipts
        BY <1>8, <2>1, Unseen DEF WriteReceipt, Goto, disk, transaction
    <2>2. CASE receipts' # receipts
        <3>1. /\ step = "committing"
              /\ receipts' = [receipts EXCEPT ![p.id] = p]
              /\ UNCHANGED <<request, loaded, answer>>
            BY <1>8, <2>2 DEF WriteReceipt, Goto, disk, transaction
        <3>2. request.kind = "install" /\ request # None
            BY <1>r, <3>1 DEF CatalogInv, KindOfStep
        <3>3. Atomic!Apply
            BY <1>t, <1>u, <3>1, <3>2 DEF Atomic!Apply, Atomic!Wanted
        <3> QED BY <3>3 DEF Atomic!Next
    <2> QED BY <2>1, <2>2
<1>9. CASE Unpublish
    BY <1>9, Unseen DEF Unpublish, Goto, transaction
<1>10. CASE Reinstate
    BY <1>10, Unseen DEF Reinstate, Goto, transaction
<1>11. CASE Prune
    BY <1>11, Unseen DEF Prune, Goto, transaction
<1>12. ASSUME NEW c \in Component, RemovePackage(c) PROVE Atomic!Next
    <2>1. /\ step = "idle" /\ catalog[c] # None
          /\ request' = [kind |-> "remove", package |-> catalog[c]]
          /\ loaded' = Installed /\ answer' = "none" /\ UNCHANGED receipts
        BY <1>12 DEF RemovePackage, Begin, disk
    <2>2. request = None /\ catalog = receipts
        BY <2>1 DEF CatalogInv, NothingPending, ServedBetween
    <2>3. catalog[c] \in Package
        BY <1>t, <2>1, <2>2 DEF Entry
    <2>4. catalog[c].id = c
        BY <2>1, <2>2 DEF Owned
    <2>5. [kind |-> "remove", package |-> catalog[c]] \in Atomic!Request
        BY <2>3 DEF Atomic!Request
    <2>6. Installed[catalog[c].id] = catalog[c]
        BY <1>t, <2>1, <2>2, <2>3, <2>4
    <2>7. Asked("remove", catalog[c])
        BY <1>t, <1>u, <2>1, <2>2, <2>6 DEF Atomic!Ask
    <2> QED BY <2>5, <2>7 DEF Atomic!Next
<1>13. CASE RetireReceipt
    <2>1. CASE UNCHANGED receipts
        BY <1>13, <2>1, Unseen DEF RetireReceipt, Goto, disk, transaction
    <2>2. CASE receipts' # receipts
        <3>1. /\ step = "retiring" /\ DependentsOf(p.id, loaded) = {}
              /\ receipts' = [receipts EXCEPT ![p.id] = None]
              /\ UNCHANGED <<request, loaded, answer>>
            BY <1>13, <2>2 DEF RetireReceipt, Goto, disk, transaction
        <3>2. request.kind # "install" /\ request # None /\ receipts = loaded
            BY <1>r, <3>1 DEF CatalogInv, KindOfStep, EffectOfStep
        <3>3. Atomic!Unneeded(p.id)
            BY <1>t, <3>1, <3>2 DEF Atomic!Unneeded, DependentsOf
        <3>4. Atomic!Apply
            BY <1>t, <1>u, <3>1, <3>2, <3>3 DEF Atomic!Apply, Atomic!Wanted
        <3> QED BY <3>4 DEF Atomic!Next
    <2> QED BY <2>1, <2>2
<1>14. CASE RetireTrees
    BY <1>14, Unseen DEF RetireTrees, Goto, transaction
<1>15. CASE RestoreReceipt
    <2>1. /\ step = "restoring" /\ step' = "failed" /\ request' = request
          /\ UNCHANGED <<loaded, answer>>
        BY <1>15 DEF RestoreReceipt, Goto, transaction
    <2>2. request.kind = "remove" /\ request # None
        BY <1>r, <2>1 DEF CatalogInv, KindOfStep
    <2>3. receipts' = loaded
        BY <2>1 DEF CatalogInv, EffectOfStep
    <2>4. Atomic!TakeBack
        BY <1>u, <2>1, <2>2, <2>3 DEF Atomic!TakeBack
    <2> QED BY <2>4 DEF Atomic!Next
<1>16. CASE Accept
    <2>1. /\ step = "accepting" /\ request # None /\ request \in Request
          /\ p.id \in Component /\ loaded \in Entry
        BY <1>16, <1>r DEF Accept
    <2>2. receipts = Entries /\ Count(Entries) <= CatalogRoom
        BY <2>1, EntriesFit DEF CatalogInv, EffectOfStep, Fits
    <2>3. /\ request' = None /\ loaded' = None /\ answer' = "success"
          /\ UNCHANGED receipts
        BY <1>16, <2>2 DEF Accept, Finish, disk
    <2>4. receipts[p.id] = Atomic!Wanted(request)
        BY <2>1, <2>2 DEF Entries, Wanted, Atomic!Wanted, Entry
    <2>5. Atomic!Succeed
        BY <1>t, <1>u, <2>1, <2>3, <2>4 DEF Atomic!Succeed, Atomic!End
    <2> QED BY <2>5 DEF Atomic!Next
<1>17. CASE AnswerFailure
    <2>1. /\ step = "failed" /\ request' = None /\ loaded' = None
          /\ answer' = "failure" /\ UNCHANGED receipts
        BY <1>17 DEF AnswerFailure, Finish, disk
    <2>2. receipts = loaded /\ request # None
        BY <1>r, <2>1 DEF CatalogInv, EffectOfStep
    <2>3. Atomic!Fail
        BY <1>t, <1>u, <2>1, <2>2 DEF Atomic!Fail, Atomic!End
    <2> QED BY <2>3 DEF Atomic!Next
<1>18. CASE Crash
    <2>1. Atomic!Crash
        BY <1>18, <1>t, <1>u DEF Crash, Atomic!Crash, Atomic!End, disk
    <2> QED BY <2>1 DEF Atomic!Next
<1>19. CASE UNCHANGED vars
    BY <1>19, Unseen DEF vars, disk, transaction
<1> HIDE DEF CatalogInv, RequestSteps, InstallSteps, RemoveSteps, Before, After
<1> QED
    BY <1>1, <1>2, <1>3, <1>4, <1>5, <1>6, <1>7, <1>8, <1>9, <1>10, <1>11,
       <1>12, <1>13, <1>14, <1>15, <1>16, <1>17, <1>18, <1>19
       DEF Next, Install, Removal

\* Whatever step of an installation or a removal fails and wherever the
\* manager is killed, a client sees an atomic request: success means that the
\* change is stored, failure that nothing has changed, a lost answer one of
\* the two; and nothing another package depends on is ever removed.
THEOREM CatalogImplemented ==
    ASSUME ~UndoMayFail
    PROVE  Spec => ImplementsPackageCatalog
<1>1. CatalogInv => BackedInv
    BY DEF CatalogInv
<1> QED
    BY <1>1, AlwaysCatalog, OwnedInit, OwnedStep, CatalogInitRefines,
       CatalogRefines, PTL
       DEF Spec, ImplementsPackageCatalog, Atomic!Spec
-----------------------------------------------------------------------------
(* With damage from outside, and receipts that cannot be put back *)

\* The requested change of the component's own entry, step by step.
OwnEntry ==
    LET p == request.package IN
    /\ step = "committing" => trees[p.id][p.version] = p
    /\ step = "pruning" =>
           receipts[p.id] = p /\ trees[p.id][p.version] = p
    /\ step \in {"emptying", "restoring"} => receipts[p.id] = None
    /\ step = "accepting" => Installed[p.id] = Wanted(request)
KindIsKept ==
    /\ step \in InstallSteps => request.kind = "install"
    /\ step \in RemoveSteps => request.kind = "remove"
\* No request touches the entry of another component.
OthersAsLoaded ==
    step \in InstallSteps \cup RemoveSteps \cup {"accepting", "failed"} =>
        \A d \in Component \ {request.package.id} : Installed[d] = loaded[d]
\* The receipts stay readable for load(), with room for one that is written.
RoomForReceipts ==
    /\ IsFiniteSet(HasReceipt)
    /\ Cardinality(HasReceipt) <= MaxReceipts
    /\ step \in {"publishing", "repairing", "committing", "unpublishing",
                 "emptying", "restoring"} =>
           \/ request.package.id \in HasReceipt
           \/ Cardinality(HasReceipt) < MaxReceipts

RequestInv ==
    /\ TypeInv
    /\ ReadIsCurrent
    /\ KindIsKept
    /\ OwnEntry
    /\ OthersAsLoaded
    /\ RoomForReceipts

\* What load() finds of a component depends on its receipt and its versions.
LEMMA SameEntry ==
    ASSUME NEW d \in Component,
           receipts'[d] = receipts[d], trees'[d] = trees[d]
    PROVE  Installed'[d] = Installed[d]
BY DEF Installed

\* Steps that touch one component only.
Touches(c) ==
    \A d \in Component \ {c} :
        receipts'[d] = receipts[d] /\ trees'[d] = trees[d]

LEMMA TreeTouches ==
    ASSUME TypeOK, NEW c \in Component, NEW v \in Version, NEW left,
           UNCHANGED receipts,
           \/ trees' = [trees EXCEPT ![c][v] = left]
           \/ trees' = [trees EXCEPT ![c] = left]
    PROVE  Touches(c)
BY DEF TypeOK, Touches

LEMMA ReceiptTouches ==
    ASSUME TypeOK, NEW c \in Component, NEW left,
           UNCHANGED trees, receipts' = [receipts EXCEPT ![c] = left]
    PROVE  Touches(c)
BY DEF TypeOK, Touches

LEMMA RequestStepTouches ==
    ASSUME TypeInv, Install \/ Removal
    PROVE  Touches(request.package.id)
<1> DEFINE p == request.package
<1>1. ASSUME step \in InstallSteps \cup RemoveSteps
      PROVE  TypeOK /\ p.id \in Component /\ p.version \in Version
    BY <1>1, PackageFields DEF TypeInv, RequestIsHeld, Request
<1>2. CASE UNCHANGED disk
    BY <1>2 DEF disk, Touches
<1> HIDE DEF p
<1>3. ASSUME step \in InstallSteps \cup RemoveSteps, NEW left,
             UNCHANGED receipts,
             \/ trees' = [trees EXCEPT ![p.id][p.version] = left]
             \/ trees' = [trees EXCEPT ![p.id] = left]
      PROVE  Touches(p.id)
    BY <1>1, <1>3, TreeTouches
<1>4. ASSUME step \in InstallSteps \cup RemoveSteps, NEW left,
             UNCHANGED trees, receipts' = [receipts EXCEPT ![p.id] = left]
      PROVE  Touches(p.id)
    BY <1>1, <1>4, ReceiptTouches
<1> USE DEF InstallSteps, RemoveSteps
<1>5. CASE Admit
    BY <1>2, <1>5 DEF Admit
<1>6. CASE Publish
    BY <1>2, <1>3, <1>6 DEF Publish, p
<1>7. CASE Repair
    BY <1>2, <1>3, <1>7 DEF Repair, p
<1>8. CASE WriteReceipt
    BY <1>2, <1>4, <1>8 DEF WriteReceipt, p, disk
<1>9. CASE Unpublish
    BY <1>3, <1>9 DEF Unpublish, p
<1>10. CASE Reinstate
    BY <1>3, <1>10 DEF Reinstate, p
<1>11. CASE Prune
    BY <1>3, <1>11 DEF Prune, p
<1>12. CASE RetireReceipt
    BY <1>2, <1>4, <1>12 DEF RetireReceipt, p, disk
<1>13. CASE RetireTrees
    BY <1>2, <1>3, <1>13 DEF RetireTrees, p, disk
<1>14. CASE RestoreReceipt
    BY <1>2, <1>4, <1>14 DEF RestoreReceipt, p, disk
<1> QED
    BY <1>5, <1>6, <1>7, <1>8, <1>9, <1>10, <1>11, <1>12, <1>13, <1>14
       DEF Install, Removal, p

\* recover() deletes only what no readable receipt names.
LEMMA RecoveryKeeps ==
    ASSUME TypeOK, NEW c \in Component, RecoverComponent(c)
    PROVE  Installed' = Installed
<1>1. PICK left \in IF receipts[c] = None THEN Swept(trees[c], {})
                    ELSE IF receipts[c] = Unreadable THEN {trees[c]}
                    ELSE Pruned(c, receipts[c].version) :
          trees' = [trees EXCEPT ![c] = left]
    BY DEF RecoverComponent
<1>2. UNCHANGED receipts /\ Touches(c)
    BY <1>1, TreeTouches DEF RecoverComponent, TypeOK, Touches
<1>3. ASSUME receipts[c] \in Package
      PROVE  trees'[c][receipts[c].version] = trees[c][receipts[c].version]
    <2>1. /\ receipts[c].version \in Version
          /\ receipts[c] # None /\ receipts[c] # Unreadable
        BY <1>3, PackageFields
    <2>2. trees'[c] = left
        BY <1>1 DEF TypeOK
    <2> QED BY <1>1, <2>1, <2>2, SweptKeeps DEF Pruned
<1>4. ASSUME NEW d \in Component PROVE Installed'[d] = Installed[d]
    BY <1>2, <1>3, SameEntry DEF Touches, Installed
<1> QED BY <1>4 DEF Installed

\* Whatever is damaged and whatever fails: recovery changes what is installed
\* of no component, an installation or a removal that of its own only.
THEOREM OthersAreLeftAlone == DamagedSpec => OnlyTheRequestedChanges
<1> DEFINE Keeps ==
        \A c \in Component :
            step \notin {"down", "idle", "unavailable"}
                /\ Installed'[c] # Installed[c]
            => request # None /\ request.package.id = c
<1>1. ASSUME TypeInv, [DamagedNext]_vars PROVE Keeps
    <2>1. CASE Installed' = Installed
        BY <2>1
    <2>2. CASE UNCHANGED disk
        BY <2>1, <2>2 DEF disk, Installed
    <2>3. ASSUME NEW c \in Component, RecoverComponent(c) PROVE Keeps
        BY <1>1, <2>1, <2>3, RecoveryKeeps DEF TypeInv
    <2>4. CASE Install \/ Removal
        <3>1. request \in Request
            BY <1>1, <2>4 DEF Install, Removal, Admit, Publish, Repair,
               WriteReceipt, Unpublish, Reinstate, Prune, RetireReceipt,
               RetireTrees, RestoreReceipt, TypeInv, RequestIsHeld,
               InstallSteps, RemoveSteps
        <3> QED
            BY <1>1, <2>4, <3>1, RequestStepTouches, SameEntry,
               RequestAssumption DEF Touches
    <2>5. ASSUME NEW c \in Component, Damage(c) PROVE Keeps
        BY <2>5 DEF Damage
    <2>6. \/ UNCHANGED disk
          \/ \E c \in Component : RecoverComponent(c) \/ Damage(c)
          \/ Install \/ Removal
        BY <1>1 DEF DamagedNext, Next, Start, Initialize,
           InstallInspectedPackage, Begin, RemovePackage, Accept,
           AnswerFailure, Crash, vars
    <2> QED BY <2>2, <2>3, <2>4, <2>5, <2>6
<1>2. TypeInv /\ [DamagedNext]_vars => [Keeps]_vars
    BY <1>1
<1> QED
    BY TypeInit, TypeStep, <1>2, PTL DEF DamagedSpec, OnlyTheRequestedChanges

LEMMA RequestInit == Init => RequestInv
<1> SUFFICES ASSUME Init PROVE RequestInv
    OBVIOUS
<1>1. TypeInv
    BY TypeInit
<1>2. HasReceipt = {}
    BY DEF Init, HasReceipt
<1>3. RoomForReceipts
    BY <1>2, FS_EmptySet, LimitAssumption DEF RoomForReceipts, Init
<1> QED
    BY <1>1, <1>3 DEF Init, RequestInv, ReadIsCurrent, KindIsKept, OwnEntry,
       OthersAsLoaded, InstallSteps, RemoveSteps

\* A step outside a request that writes no receipt and takes none away.
LEMMA RestIsSound ==
    ASSUME RequestInv, TypeInv', HasReceipt' = HasReceipt,
           step' \in {"down", "recovering", "unavailable", "idle"}
    PROVE  RequestInv'
BY DEF RequestInv, ReadIsCurrent, KindIsKept, OwnEntry, OthersAsLoaded,
   RoomForReceipts, InstallSteps, RemoveSteps

\* A request begins with what load() finds.
LEMMA BeginIsSound ==
    ASSUME RequestInv, TypeInv', NEW kind, NEW p \in Package,
           \/ kind = "install" /\ Begin(kind, p, "admitting")
           \/ kind = "remove" /\ Begin(kind, p, "retiring")
    PROVE  RequestInv'
<1>1. /\ request' = [kind |-> kind, package |-> p] /\ loaded' = Installed
      /\ UNCHANGED <<receipts, trees>> /\ step' \in {"admitting", "retiring"}
      /\ step' = "admitting" => kind = "install"
      /\ step' = "retiring" => kind = "remove"
    BY DEF Begin, disk
<1>2. Installed' = Installed /\ HasReceipt' = HasReceipt
    BY <1>1 DEF Installed, HasReceipt
<1> QED
    BY <1>1, <1>2 DEF RequestInv, ReadIsCurrent, KindIsKept, OwnEntry,
       OthersAsLoaded, RoomForReceipts, InstallSteps, RemoveSteps

\* Every step of a request leaves the other components as they were found.
LEMMA OthersStay ==
    ASSUME RequestInv, Install \/ Removal
    PROVE  OthersAsLoaded' /\ request' = request
           /\ step \in InstallSteps \cup RemoveSteps
<1>1. /\ step \in InstallSteps \cup RemoveSteps
      /\ request' = request /\ loaded' = loaded
    BY DEF Install, Removal, Admit, Publish, Repair, WriteReceipt, Unpublish,
       Reinstate, Prune, RetireReceipt, RetireTrees, RestoreReceipt, Goto,
       transaction, InstallSteps, RemoveSteps
<1>2. \A d \in Component \ {request.package.id} : Installed[d] = loaded[d]
    BY <1>1 DEF RequestInv, OthersAsLoaded
<1>3. Touches(request.package.id)
    BY RequestStepTouches DEF RequestInv
<1>4. ASSUME NEW d \in Component \ {request.package.id}
      PROVE  Installed'[d] = loaded[d]
    BY <1>2, <1>3, <1>4, SameEntry DEF Touches
<1> QED BY <1>1, <1>4 DEF OthersAsLoaded

\* A step of a request that leaves the receipts as they are.
LEMMA TreeStepIsSound ==
    ASSUME RequestInv, TypeInv', OthersAsLoaded', OwnEntry',
           step \in InstallSteps \cup RemoveSteps,
           request' = request, UNCHANGED receipts,
           step' \notin {"admitting", "retiring"},
           step' \in InstallSteps => step \in InstallSteps,
           step' \in RemoveSteps => step \in RemoveSteps,
           step' \in {"publishing", "repairing", "committing", "unpublishing",
                      "emptying", "restoring"} =>
               \/ step \in {"publishing", "repairing", "committing",
                            "unpublishing", "emptying", "restoring"}
               \/ request.package.id \in HasReceipt
               \/ Cardinality(HasReceipt) < MaxReceipts
    PROVE  RequestInv'
<1>1. HasReceipt' = HasReceipt
    BY DEF HasReceipt
<1>2. RoomForReceipts'
    BY <1>1 DEF RequestInv, RoomForReceipts
<1>3. KindIsKept' /\ ReadIsCurrent'
    BY DEF RequestInv, KindIsKept, ReadIsCurrent
<1> QED BY <1>2, <1>3 DEF RequestInv

\* One receipt more, where there is room.
LEMMA ReceiptAdded ==
    ASSUME RequestInv, NEW c \in Component, NEW p \in Package,
           c \in HasReceipt \/ Cardinality(HasReceipt) < MaxReceipts,
           receipts' = [receipts EXCEPT ![c] = p]
    PROVE  /\ IsFiniteSet(HasReceipt') /\ Cardinality(HasReceipt') <= MaxReceipts
           /\ receipts'[c] = p /\ c \in HasReceipt'
<1>1. receipts'[c] = p /\ HasReceipt' = HasReceipt \cup {c}
    BY PackageFields DEF RequestInv, TypeInv, TypeOK, HasReceipt
<1>2. /\ IsFiniteSet(HasReceipt \cup {c})
      /\ Cardinality(HasReceipt \cup {c}) =
             IF c \in HasReceipt THEN Cardinality(HasReceipt)
             ELSE Cardinality(HasReceipt) + 1
    BY FS_AddElement DEF RequestInv, RoomForReceipts
<1>3. Cardinality(HasReceipt) \in Nat /\ MaxReceipts \in Nat
      /\ Cardinality(HasReceipt) <= MaxReceipts
    BY FS_CardinalityType, LimitAssumption DEF RequestInv, RoomForReceipts
<1> QED BY <1>1, <1>2, <1>3

\* One receipt less: there is room to put it back.
LEMMA ReceiptRetired ==
    ASSUME RequestInv, NEW c \in HasReceipt,
           receipts' = [receipts EXCEPT ![c] = None]
    PROVE  /\ IsFiniteSet(HasReceipt') /\ Cardinality(HasReceipt') < MaxReceipts
           /\ receipts'[c] = None
<1>1. receipts'[c] = None /\ HasReceipt' = HasReceipt \ {c}
    BY DEF RequestInv, TypeInv, TypeOK, HasReceipt
<1>2. /\ IsFiniteSet(HasReceipt \ {c})
      /\ Cardinality(HasReceipt \ {c}) = Cardinality(HasReceipt) - 1
    BY FS_RemoveElement DEF RequestInv, RoomForReceipts
<1>3. Cardinality(HasReceipt) \in Nat /\ MaxReceipts \in Nat
      /\ Cardinality(HasReceipt) <= MaxReceipts
    BY FS_CardinalityType, LimitAssumption DEF RequestInv, RoomForReceipts
<1> QED BY <1>1, <1>2, <1>3

LEMMA RequestStep == RequestInv /\ [DamagedNext]_vars => RequestInv'
<1> SUFFICES ASSUME RequestInv, [DamagedNext]_vars PROVE RequestInv'
    OBVIOUS
<1> DEFINE p == request.package
<1>t. TypeInv /\ TypeInv' /\ TypeOK
    BY TypeStep DEF RequestInv, TypeInv
<1>h. ASSUME UNCHANGED receipts PROVE HasReceipt' = HasReceipt
    BY <1>h DEF HasReceipt
<1>p. ASSUME step \in InstallSteps \cup RemoveSteps
      PROVE  /\ request \in Request /\ p \in Package /\ p.id \in Component
             /\ p.version \in Version
             /\ trees \in [Component -> [Version -> Tree]]
             /\ receipts \in [Component -> Package \cup {None, Unreadable}]
    BY <1>t, <1>p, PackageFields DEF TypeInv, TypeOK, Tree, RequestIsHeld,
       Request
<1>o. Install \/ Removal => /\ OthersAsLoaded' /\ request' = request
                            /\ step \in InstallSteps \cup RemoveSteps
    BY OthersStay
<1>1. CASE Start
    BY <1>1, <1>t, <1>h, RestIsSound DEF Start, disk
<1>2. ASSUME NEW c \in Component, RecoverComponent(c) PROVE RequestInv'
    BY <1>2, <1>t, <1>h, RestIsSound DEF RecoverComponent
<1>3. CASE Initialize
    BY <1>3, <1>t, <1>h, RestIsSound DEF Initialize, disk
<1>4. ASSUME NEW q \in Package, InstallInspectedPackage(q)
      PROVE  RequestInv'
    BY <1>4, <1>t, BeginIsSound DEF InstallInspectedPackage
<1> USE DEF InstallSteps, RemoveSteps
<1>5. CASE Admit
    <2>1. /\ step = "admitting" /\ UNCHANGED <<receipts, trees>>
          /\ step' \in {"failed", "pruning", "publishing"}
          /\ step' = "publishing" => ~StoreFull(p)
          /\ step' = "pruning" => loaded[p.id] = p
        BY <1>5 DEF Admit, Goto, disk
    <2>2. loaded = Installed
        BY <2>1 DEF RequestInv, ReadIsCurrent
    <2>3. p \in Package /\ p.id \in Component /\ p # None
        BY <1>p, <2>1, PackageFields
    <2>4. step' = "pruning" => receipts[p.id] = p /\ trees[p.id][p.version] = p
        BY <2>1, <2>2, <2>3 DEF Installed
    <2>5. OwnEntry'
        BY <1>5, <1>o, <2>1, <2>4 DEF OwnEntry, Install
    <2>6. /\ Cardinality(HasReceipt) \in Nat /\ MaxReceipts \in Nat
        BY FS_CardinalityType, LimitAssumption DEF RequestInv, RoomForReceipts
    <2>7. step' = "publishing" =>
              p.id \in HasReceipt \/ Cardinality(HasReceipt) < MaxReceipts
        BY <2>1, <2>6 DEF StoreFull
    <2> QED BY <1>5, <1>t, <1>o, <2>1, <2>5, <2>7, TreeStepIsSound DEF Install
<1>6. CASE Publish
    <2>1. /\ step = "publishing" /\ UNCHANGED receipts
          /\ step' \in {"failed", "committing", "repairing"}
          /\ step' = "committing" =>
                 \/ UNCHANGED trees /\ trees[p.id][p.version] = p
                 \/ trees' = [trees EXCEPT ![p.id][p.version] = p]
        BY <1>6 DEF Publish, Goto, disk
    <2>2. step' = "committing" => trees'[p.id][p.version] = p
        BY <1>p, <2>1
    <2>3. OwnEntry'
        BY <1>6, <1>o, <2>1, <2>2 DEF OwnEntry, Install
    <2> QED BY <1>6, <1>t, <1>o, <2>1, <2>3, TreeStepIsSound DEF Install
<1>7. CASE Repair
    <2>1. /\ step = "repairing" /\ UNCHANGED receipts
          /\ step' \in {"committing", "reinstating"}
          /\ step' = "committing" =>
                 trees' = [trees EXCEPT ![p.id][p.version] = p]
        BY <1>7 DEF Repair, Goto, disk
    <2>2. step' = "committing" => trees'[p.id][p.version] = p
        BY <1>p, <2>1
    <2>3. OwnEntry'
        BY <1>7, <1>o, <2>1, <2>2 DEF OwnEntry, Install
    <2> QED BY <1>7, <1>t, <1>o, <2>1, <2>3, TreeStepIsSound DEF Install
<1>8. CASE WriteReceipt
    <2>1. /\ step = "committing" /\ UNCHANGED trees
          /\ step' \in {"pruning", "unpublishing", "failed"}
          /\ step' # "pruning" => UNCHANGED receipts
          /\ step' = "pruning" => receipts' = [receipts EXCEPT ![p.id] = p]
        BY <1>8 DEF WriteReceipt, Goto, disk
    <2>2. CASE step' # "pruning"
        <3>1. OwnEntry'
            BY <2>1, <2>2 DEF OwnEntry
        <3> QED
            BY <1>8, <1>t, <1>o, <2>1, <2>2, <3>1, TreeStepIsSound DEF Install
    <2>3. CASE step' = "pruning"
        <3>1. /\ trees[p.id][p.version] = p
              /\ p.id \in HasReceipt \/ Cardinality(HasReceipt) < MaxReceipts
            BY <2>1 DEF RequestInv, OwnEntry, RoomForReceipts
        <3>2. p \in Package /\ p.id \in Component
            BY <1>p, <2>1
        <3>3. /\ IsFiniteSet(HasReceipt')
              /\ Cardinality(HasReceipt') <= MaxReceipts
              /\ receipts'[p.id] = p
            <4> HIDE DEF p
            <4> QED BY <2>1, <2>3, <3>1, <3>2, ReceiptAdded
        <3>4. OwnEntry' /\ RoomForReceipts'
            BY <1>8, <1>o, <2>1, <2>3, <3>1, <3>3
               DEF OwnEntry, RoomForReceipts, Install
        <3>5. KindIsKept' /\ ReadIsCurrent'
            BY <1>8, <1>o, <2>1, <2>3
               DEF RequestInv, KindIsKept, ReadIsCurrent, Install
        <3> QED BY <1>8, <1>t, <1>o, <3>4, <3>5 DEF RequestInv, Install
    <2> QED BY <2>2, <2>3
<1>9. CASE Unpublish
    <2>1. /\ step = "unpublishing" /\ UNCHANGED receipts
          /\ step' \in {"reinstating", "failed"}
        BY <1>9 DEF Unpublish, Goto
    <2>2. OwnEntry'
        BY <2>1 DEF OwnEntry
    <2> QED BY <1>9, <1>t, <1>o, <2>1, <2>2, TreeStepIsSound DEF Install
<1>10. CASE Reinstate
    <2>1. step = "reinstating" /\ UNCHANGED receipts /\ step' = "failed"
        BY <1>10 DEF Reinstate, Goto
    <2>2. OwnEntry'
        BY <2>1 DEF OwnEntry
    <2> QED BY <1>10, <1>t, <1>o, <2>1, <2>2, TreeStepIsSound DEF Install
<1>11. CASE Prune
    <2>1. /\ step = "pruning" /\ UNCHANGED receipts /\ step' = "accepting"
          /\ request' = request
        BY <1>11, <1>o DEF Prune, Goto, Install
    <2>2. PICK left \in Pruned(p.id, p.version) :
              trees' = [trees EXCEPT ![p.id] = left]
        BY <1>11 DEF Prune
    <2>3. /\ receipts[p.id] = p /\ trees[p.id][p.version] = p
          /\ request.kind = "install"
        BY <2>1 DEF RequestInv, OwnEntry, KindIsKept
    <2>4. p \in Package /\ p.id \in Component /\ p.version \in Version /\ p # None
        BY <1>p, <2>1, PackageFields
    <2>5. left[p.version] = p
        BY <2>2, <2>3, <2>4, SweptKeeps DEF Pruned
    <2>6. trees'[p.id] = left
        BY <1>p, <2>1, <2>2
    <2>7. Installed'[p.id] = p
        BY <2>1, <2>3, <2>4, <2>5, <2>6 DEF Installed
    <2>8. OwnEntry'
        BY <2>1, <2>3, <2>7 DEF OwnEntry, Wanted
    <2> QED BY <1>11, <1>t, <1>o, <2>1, <2>8, TreeStepIsSound DEF Install
<1>12. ASSUME NEW c \in Component, RemovePackage(c) PROVE RequestInv'
    <2>1. catalog[c] \in Package
        BY <1>12, <1>t DEF RemovePackage, TypeOK
    <2> QED BY <1>12, <1>t, <2>1, BeginIsSound DEF RemovePackage
<1>13. CASE RetireReceipt
    <2>1. /\ step = "retiring" /\ UNCHANGED trees
          /\ step' \in {"failed", "emptying"}
          /\ step' = "failed" => UNCHANGED receipts
          /\ step' = "emptying" =>
                 loaded[p.id] = p /\ receipts' = [receipts EXCEPT ![p.id] = None]
        BY <1>13 DEF RetireReceipt, Goto, disk
    <2>2. CASE step' = "failed"
        <3>1. OwnEntry'
            BY <2>2 DEF OwnEntry
        <3> QED
            BY <1>13, <1>t, <1>o, <2>1, <2>2, <3>1, TreeStepIsSound DEF Removal
    <2>3. CASE step' = "emptying"
        <3>1. loaded = Installed
            BY <2>1 DEF RequestInv, ReadIsCurrent
        <3>2. p.id \in HasReceipt
            BY <1>p, <2>1, <2>3, <3>1, PackageFields DEF Installed, HasReceipt
        <3>3. /\ IsFiniteSet(HasReceipt')
              /\ Cardinality(HasReceipt') < MaxReceipts
              /\ receipts'[p.id] = None
            <4> HIDE DEF p
            <4> QED BY <2>1, <2>3, <3>2, ReceiptRetired
        <3>4. Cardinality(HasReceipt') <= MaxReceipts
            BY <3>3, FS_CardinalityType, LimitAssumption
        <3>5. OwnEntry' /\ RoomForReceipts'
            BY <1>13, <1>o, <2>3, <3>3, <3>4
               DEF OwnEntry, RoomForReceipts, Removal
        <3>6. KindIsKept' /\ ReadIsCurrent'
            BY <1>13, <1>o, <2>1, <2>3
               DEF RequestInv, KindIsKept, ReadIsCurrent, Removal
        <3> QED BY <1>13, <1>t, <1>o, <3>5, <3>6 DEF RequestInv, Removal
    <2> QED BY <2>1, <2>2, <2>3
<1>14. CASE RetireTrees
    <2>1. /\ step = "emptying" /\ UNCHANGED receipts
          /\ step' \in {"accepting", "restoring"} /\ request' = request
        BY <1>14, <1>o DEF RetireTrees, Goto, Removal
    <2>2. receipts[p.id] = None /\ request.kind = "remove"
        BY <2>1 DEF RequestInv, OwnEntry, KindIsKept
    <2>3. None \notin Package
        BY PackageAssumption
    <2>4. Installed'[p.id] = None
        BY <1>p, <2>1, <2>2, <2>3 DEF Installed
    <2>5. OwnEntry'
        BY <2>1, <2>2, <2>4 DEF OwnEntry, Wanted
    <2> QED BY <1>14, <1>t, <1>o, <2>1, <2>5, TreeStepIsSound DEF Removal
<1>15. CASE RestoreReceipt
    <2>1. /\ step = "restoring" /\ step' = "failed"
          /\ \/ UNCHANGED receipts
             \/ receipts' = [receipts EXCEPT ![p.id] = p]
        BY <1>15 DEF RestoreReceipt, Goto
    <2>2. OwnEntry' /\ KindIsKept' /\ ReadIsCurrent'
        BY <2>1 DEF OwnEntry, KindIsKept, ReadIsCurrent
    <2>3. CASE UNCHANGED receipts
        BY <1>15, <1>t, <1>o, <2>1, <2>2, <2>3, TreeStepIsSound DEF Removal
    <2>4. CASE receipts' = [receipts EXCEPT ![p.id] = p]
        <3>1. /\ p.id \in HasReceipt \/ Cardinality(HasReceipt) < MaxReceipts
              /\ p \in Package /\ p.id \in Component
            BY <1>p, <2>1 DEF RequestInv, RoomForReceipts
        <3>2. /\ IsFiniteSet(HasReceipt')
              /\ Cardinality(HasReceipt') <= MaxReceipts
            <4> HIDE DEF p
            <4> QED BY <2>4, <3>1, ReceiptAdded
        <3>3. RoomForReceipts'
            BY <2>1, <3>2 DEF RoomForReceipts
        <3> QED BY <1>15, <1>t, <1>o, <2>2, <3>3 DEF RequestInv, Removal
    <2> QED BY <2>1, <2>3, <2>4
<1>16. CASE Accept
    BY <1>16, <1>t, <1>h, RestIsSound DEF Accept, Finish, disk
<1>17. CASE AnswerFailure
    BY <1>17, <1>t, <1>h, RestIsSound DEF AnswerFailure, Finish, disk
<1>18. CASE Crash
    BY <1>18, <1>t, <1>h, RestIsSound DEF Crash, disk
<1>19. ASSUME NEW c \in Component, Damage(c) PROVE RequestInv'
    <2>1. HasReceipt' = HasReceipt
        BY <1>19, <1>t, PackageAssumption DEF Damage, HasReceipt, TypeOK
    <2> QED BY <1>19, <1>t, <2>1, RestIsSound DEF Damage
<1>20. CASE UNCHANGED vars
    <2>1. /\ UNCHANGED <<receipts, trees, step, request, loaded>>
        BY <1>20 DEF vars, disk, transaction
    <2>2. Installed' = Installed /\ HasReceipt' = HasReceipt
        BY <2>1 DEF Installed, HasReceipt
    <2> QED
        BY <1>t, <2>1, <2>2 DEF RequestInv, ReadIsCurrent, KindIsKept, OwnEntry,
           OthersAsLoaded, RoomForReceipts, Wanted
<1> HIDE DEF InstallSteps, RemoveSteps
<1> QED
    BY <1>1, <1>2, <1>3, <1>4, <1>5, <1>6, <1>7, <1>8, <1>9, <1>10, <1>11,
       <1>12, <1>13, <1>14, <1>15, <1>16, <1>17, <1>18, <1>19, <1>20
       DEF DamagedNext, Next, Install, Removal

\* What a successful request hands to acceptUserCatalog is what load() finds
\* at that moment, also when the store was damaged before the request or an
\* earlier one could not undo its own change; and the receipts are never more
\* than load() accepts.
THEOREM AcceptedIsAlwaysStored == DamagedSpec => []AcceptedIsStored
<1>1. ASSUME RequestInv PROVE AcceptedIsStored
    <2> SUFFICES ASSUME step = "accepting"
                 PROVE  Entries = Installed
                        /\ Cardinality(HasReceipt) <= MaxReceipts
        BY DEF AcceptedIsStored
    <2> DEFINE p == request.package
    <2>1. /\ loaded \in Entry /\ p.id \in Component
        BY <1>1, PackageFields DEF RequestInv, TypeInv, RequestIsHeld, Request
    <2>2. /\ Installed[p.id] = Wanted(request)
          /\ \A d \in Component \ {p.id} : Installed[d] = loaded[d]
        BY <1>1 DEF RequestInv, OwnEntry, OthersAsLoaded
    <2>3. \A d \in Component : Entries[d] = Installed[d]
        BY <2>1, <2>2 DEF Entries, Entry
    <2>4. Entries = [d \in Component |-> Entries[d]]
          /\ Installed = [d \in Component |-> Installed[d]]
        BY <2>1, InstalledType DEF Entries, Entry
    <2> QED BY <1>1, <2>3, <2>4 DEF RequestInv, RoomForReceipts
<1> QED BY RequestInit, RequestStep, <1>1, PTL DEF DamagedSpec

=============================================================================
