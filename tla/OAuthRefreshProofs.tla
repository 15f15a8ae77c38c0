--------------------------- MODULE OAuthRefreshProofs ---------------------------
(***************************************************************************)
(* Proofs about OAuthRefresh for any refreshers, requests, administrators  *)
(* and instances, and any number of expiries, answers 401, disconnected    *)
(* clients, failures and crashes: what the refresh lock protects, that no  *)
(* race loses a token, that only a dead token retires an account, and that *)
(* each new token has a cause.                                             *)
(***************************************************************************)
EXTENDS OAuthRefresh, FiniteSetTheorems, TLAPS

Copies == [token : Nat, version : Nat, marked : BOOLEAN]

\* The types of what the properties depend on; tokens without their bound.
CopyType ==
  /\ row \in Copies /\ valid \in Nat
  /\ pc \in [Workers -> Labels]
  /\ given \in [Workers -> Copies] /\ acct \in [Workers -> Copies]
  /\ has \in [Workers -> BOOLEAN] /\ out \in [Workers -> Outcomes]

\* Whoever is between the lock's acquisition and its release has it, and the key says so.
Guarded ==
  "unguarded" \notin slips =>
    \A w \in Workers :
      /\ pc[w] \in Inside \ {"release"} => has[w]
      /\ has[w] => lock = w

\* No copy is newer than the stored token; the upstream is at most one token ahead,
\* and whoever holds that token is alone with it.
Chain ==
  "restored" \notin slips =>
    /\ row.token <= valid
    /\ \A w \in Workers : acct[w].token <= row.token /\ given[w].token <= row.token
    /\ \A w \in Workers : pc[w] = "persist" =>
         /\ acct[w].token = row.token /\ valid = row.token + 1
         /\ \A v \in Workers : pc[v] = "persist" => v = w
    /\ "lost" \notin slips /\ row.token # valid => \E w \in Workers : pc[w] = "persist"

\* The stored token is spent and no successor is on its way.
Spent == row.token # valid /\ \A w \in Workers : pc[w] # "persist"

\* Whoever has found the account dead has found it so for good.
Retired ==
  slips \cap {"unguarded", "restored", "blind"} = {} =>
    /\ status = "error" => Spent
    /\ \A w \in Workers :
         /\ pc[w] = "setError" \/ (pc[w] = "release" /\ out[w] = "dead") => Spent
         /\ pc[w] = "recover" => acct[w].token # valid

Inv == CopyType /\ Guarded /\ Chain /\ Retired

\* The invariant holds in the initial state.
LEMMA InvInit == Init => Inv
  BY DEF Init, Inv, CopyType, Guarded, Chain, Retired, Registered, Copies, Labels, Locked,
         Inside, Outcomes

\* The labels outside of RefreshIfNeeded and of SetError.
Outer == Labels \ (Inside \cup {"setError"})

\* Which they are.
LEMMA OuterLabels ==
  {"idle", "get", "mutex", "lock", "wait", "check", "set", "serve", "forget", "mark",
   "invalidate"} \subseteq Outer
  BY DEF Outer, Labels, Inside, Locked

\* A step that only looks, moves a worker outside of RefreshIfNeeded, or copies the
\* stored account or what a worker was given.
LEMMA Quiet ==
  ASSUME Inv, UNCHANGED <<row, status, valid, lock, has, out, slips>>,
         pc' \in [Workers -> Labels],
         given' \in [Workers -> Copies], acct' \in [Workers -> Copies],
         \A w \in Workers : pc'[w] = pc[w] \/ (pc[w] \notin {"persist"} /\ pc'[w] \in Outer),
         \A w \in Workers : given'[w] \in {given[w], row},
         \A w \in Workers : acct'[w] = acct[w] \/ (acct'[w] = given[w] /\ pc'[w] \in Outer)
  PROVE  Inv'
  <1> USE DEF Inv
  <1>1. CopyType'
    BY DEF CopyType
  <1>2. Guarded'
    BY DEF Guarded, Outer
  <1>3. \A w \in Workers : pc'[w] = "persist" <=> pc[w] = "persist"
    BY DEF Outer, Inside, Locked
  <1>4. Chain'
    <2> SUFFICES ASSUME "restored" \notin slips PROVE Chain'
      BY DEF Chain
    <2>1. \A w \in Workers : acct'[w].token <= row.token /\ given'[w].token <= row.token
      <3> TAKE w \in Workers
      <3>1. acct[w].token <= row.token /\ given[w].token <= row.token /\ row.token <= row.token
        BY DEF Chain, CopyType, Copies
      <3>2. given'[w] = given[w] \/ given'[w] = row
        OBVIOUS
      <3>3. acct'[w] = acct[w] \/ acct'[w] = given[w]
        OBVIOUS
      <3> QED BY <3>1, <3>2, <3>3
    <2>2. \A w \in Workers : pc'[w] = "persist" => acct'[w] = acct[w]
      BY DEF Outer, Inside, Locked
    <2> QED BY <1>3, <2>1, <2>2 DEF Chain
  <1>5. Retired'
    <2>1. Spent => Spent'
      BY <1>3 DEF Spent
    <2>2. \A w \in Workers : pc'[w] \in {"setError", "release", "recover"}
                             => pc'[w] = pc[w] /\ acct'[w] = acct[w]
      BY DEF Outer, Inside, Locked
    <2> QED BY <2>1, <2>2 DEF Retired
  <1> QED BY <1>1, <1>2, <1>4, <1>5

-----------------------------------------------------------------------------
(* The steps that matter *)

\* The lock is set, found held, or passed over because Redis failed.
LEMMA StepAcquire ==
  ASSUME Inv, NEW w \in Workers, AcquireRefreshLock(w)
  PROVE  Inv'
  <1> USE DEF Inv
  <1>0. UNCHANGED <<row, status, valid, given, acct>> /\ pc[w] = "lock" /\ slips \subseteq slips'
    BY DEF AcquireRefreshLock, stored, Slip
  <1>1. PICK l \in {"reread", "release"} :
          /\ pc' = [pc EXCEPT ![w] = l]
          /\ l = "release" => out'[w] # "dead"
    BY DEF AcquireRefreshLock, Goto, Return, CopyType
  <1>2. CopyType'
    BY <1>0, <1>1 DEF AcquireRefreshLock, Return, CopyType, Labels, Locked, Outcomes
  <1>3. Guarded'
    <2>1. CASE lock = None /\ lock' = w /\ has' = [has EXCEPT ![w] = TRUE] /\ UNCHANGED slips
      BY <1>1, <2>1, RefreshConstants DEF Guarded, CopyType
    <2>2. CASE lock # None /\ Return(w, "held") /\ UNCHANGED <<lock, has, slips>>
      BY <1>1, <2>2 DEF Guarded, CopyType, Return, Goto
    <2>3. CASE Slip({"unguarded"})
      BY <2>3 DEF Guarded, Slip
    <2> QED BY <2>1, <2>2, <2>3 DEF AcquireRefreshLock
  <1>4. \A v \in Workers : (pc'[v] = "persist" <=> pc[v] = "persist")
                           /\ (pc'[v] \in {"setError", "recover"} => pc'[v] = pc[v])
                           /\ (v # w => pc'[v] = pc[v] /\ out'[v] = out[v])
    BY <1>0, <1>1 DEF CopyType, AcquireRefreshLock, Return
  <1>5. "lost" \in slips' <=> "lost" \in slips
    BY DEF AcquireRefreshLock, Slip
  <1>6. Chain'
    BY <1>0, <1>4, <1>5 DEF Chain
  <1>7. Retired'
    <2>1. Spent => Spent'
      BY <1>0, <1>4 DEF Spent
    <2>2. pc'[w] = l
      BY <1>1 DEF CopyType
    <2> QED BY <1>0, <1>1, <1>4, <2>1, <2>2 DEF Retired
  <1> QED BY <1>2, <1>3, <1>6, <1>7

\* The copy of a refresh is the stored one or the one that was given, never newer.
LEMMA StepReread ==
  ASSUME Inv, NEW w \in Workers, Reread(w)
  PROVE  Inv'
  <1> USE DEF Inv
  <1>0. UNCHANGED <<row, status, valid, given, has, lock, slips>> /\ pc[w] = "reread"
    BY DEF Reread, stored, redis
  <1>1. PICK l \in {"refresh", "release"} :
          /\ pc' = [pc EXCEPT ![w] = l]
          /\ l = "release" => out'[w] # "dead"
    BY DEF Reread, Goto, Return, CopyType
  <1>2. PICK x \in {row, given[w]} : acct' = [acct EXCEPT ![w] = x]
    BY DEF Reread
  <1>3. out' \in [Workers -> Outcomes] /\ \A v \in Workers \ {w} : out'[v] = out[v]
    BY DEF Reread, Return, CopyType, Outcomes
  <1>4. CopyType'
    BY <1>0, <1>1, <1>2, <1>3 DEF CopyType, Labels, Locked
  <1>5. Guarded'
    BY <1>0, <1>1 DEF Guarded, CopyType, Inside, Locked
  <1>6. \A v \in Workers : (pc'[v] = "persist" <=> pc[v] = "persist")
                           /\ (v # w => pc'[v] = pc[v] /\ acct'[v] = acct[v])
    BY <1>0, <1>1, <1>2 DEF CopyType
  <1>7. acct'[w] = x /\ pc'[w] = l
    BY <1>1, <1>2 DEF CopyType
  <1>8. Chain'
    <2> SUFFICES ASSUME "restored" \notin slips PROVE Chain'
      BY <1>0 DEF Chain
    <2>1. acct'[w].token <= row.token
      BY <1>7 DEF Chain, CopyType, Copies
    <2> QED BY <1>0, <1>6, <1>7, <2>1 DEF Chain
  <1>9. Retired'
    <2>1. Spent => Spent'
      BY <1>0, <1>6 DEF Spent
    <2> QED BY <1>0, <1>1, <1>3, <1>6, <1>7, <2>1 DEF Retired
  <1> QED BY <1>4, <1>5, <1>8, <1>9

\* The upstream's part: a copy it accepts is the stored one and nobody is persisting.
LEMMA StepGranted ==
  ASSUME Inv, NEW w \in Workers, pc[w] = "refresh", Granted(w),
         UNCHANGED <<row, status, lock, given, acct, has>>,
         NEW l \in {"persist", "release", "idle"}, pc' = [pc EXCEPT ![w] = l],
         out' \in [Workers -> Outcomes], \A v \in Workers \ {w} : out'[v] = out[v],
         l = "release" => out'[w] = "failed",
         slips \subseteq slips', l # "persist" => "lost" \in slips'
  PROVE  Inv'
  <1> USE DEF Inv
  <1>1. acct[w].token = valid /\ valid' = valid + 1
    BY DEF Granted
  <1>2. CopyType'
    <2>1. valid' \in Nat
      BY <1>1 DEF CopyType
    <2>2. pc' \in [Workers -> Labels]
      BY DEF CopyType, Labels, Locked
    <2> QED BY <2>1, <2>2 DEF CopyType
  <1>3. Guarded'
    BY DEF Guarded, CopyType, Inside, Locked
  <1>4. "restored" \notin slips => row.token = valid /\ \A v \in Workers : pc[v] # "persist"
    <2> SUFFICES ASSUME "restored" \notin slips
                 PROVE  row.token = valid /\ \A v \in Workers : pc[v] # "persist"
      OBVIOUS
    <2>1. row.token = valid
      <3>1. row.token \in Nat /\ valid \in Nat
        BY DEF CopyType, Copies
      <3>2. row.token <= valid /\ acct[w].token <= row.token
        BY DEF Chain
      <3> QED BY <1>1, <3>1, <3>2
    <2>2. \A v \in Workers : pc[v] = "persist" => valid = row.token + 1
      BY DEF Chain
    <2> QED BY <2>1, <2>2 DEF CopyType
  <1>5. \A v \in Workers : pc'[v] = IF v = w THEN l ELSE pc[v]
    BY DEF CopyType
  <1>6. Chain'
    <2> SUFFICES ASSUME "restored" \notin slips PROVE Chain'
      BY DEF Chain
    <2>1. row.token = valid /\ row.token \in Nat /\ \A v \in Workers : pc[v] # "persist"
      BY <1>4 DEF CopyType, Copies
    <2>2. \A v \in Workers : acct[v].token <= row.token /\ given[v].token <= row.token
      BY DEF Chain
    <2>3. CASE l = "persist"
      BY <1>1, <1>5, <2>1, <2>2, <2>3 DEF Chain
    <2>4. CASE l # "persist"
      BY <1>1, <1>5, <2>1, <2>2, <2>4 DEF Chain
    <2> QED BY <2>3, <2>4
  <1>7. Retired'
    <2> SUFFICES ASSUME slips \cap {"unguarded", "restored", "blind"} = {} PROVE Retired'
      BY DEF Retired
    <2>1. ~Spent
      BY <1>4 DEF Spent
    <2>2. \A v \in Workers : pc[v] = "recover" => acct[v].token # valid'
      <3> SUFFICES ASSUME NEW v \in Workers PROVE acct[v].token # valid'
        OBVIOUS
      <3> QED BY <1>1, <1>4 DEF Chain, CopyType, Copies
    <2> QED BY <1>5, <2>1, <2>2 DEF Retired
  <1> QED BY <1>2, <1>3, <1>6, <1>7

\* A step of a worker whose call was refused or has failed.
LEMMA StepRefused ==
  ASSUME Inv, NEW w \in Workers, pc[w] = "refresh",
         UNCHANGED <<row, status, valid, lock, given, acct, has, slips>>,
         NEW l \in {"recover", "release", "idle"}, pc' = [pc EXCEPT ![w] = l],
         out' \in [Workers -> Outcomes], \A v \in Workers \ {w} : out'[v] = out[v],
         l = "release" => out'[w] = "failed",
         l = "recover" => acct[w].token # valid
  PROVE  Inv'
  <1> USE DEF Inv
  <1>1. CopyType'
    BY DEF CopyType, Labels, Locked
  <1>2. Guarded'
    BY DEF Guarded, CopyType, Inside, Locked
  <1>3. \A v \in Workers : pc'[v] = IF v = w THEN l ELSE pc[v]
    BY DEF CopyType
  <1>4. Chain'
    BY <1>3 DEF Chain
  <1>5. Retired'
    <2>1. Spent => Spent'
      BY <1>3 DEF Spent
    <2> QED BY <1>3, <2>1 DEF Retired
  <1> QED BY <1>1, <1>2, <1>4, <1>5

\* Both callers of the upstream take one of these steps, or lose a token it has given.
LEMMA StepRefresh ==
  ASSUME Inv, NEW w \in Workers, Refresh(w) \/ ManualRefresh(w)
  PROVE  Inv'
  <1>0. /\ UNCHANGED <<row, status, lock, given, acct, has>> /\ pc[w] = "refresh"
        /\ out \in [Workers -> Outcomes]
    BY DEF Refresh, ManualRefresh, stored, redis, local, Inv, CopyType
  <1>1. CASE Refresh(w)
    <2>1. CASE Granted(w) /\ Goto(w, "persist") /\ UNCHANGED <<out, slips>>
      BY <1>0, <2>1, StepGranted DEF Goto
    <2>2. CASE Rejected(w) /\ Goto(w, "recover") /\ UNCHANGED <<out, slips>>
      BY <1>0, <2>2, StepRefused DEF Goto, Rejected
    <2>3. CASE Granted(w) /\ Return(w, "failed") /\ Slip({"lost"})
      <3>1. /\ out' \in [Workers -> Outcomes] /\ \A v \in Workers \ {w} : out'[v] = out[v]
            /\ out'[w] = "failed"
        BY <1>0, <2>3 DEF Return, Outcomes
      <3> QED BY <1>0, <2>3, <3>1, StepGranted DEF Return, Goto, Slip
    <2>4. CASE Return(w, "failed") /\ UNCHANGED <<valid, slips>>
      <3>1. /\ out' \in [Workers -> Outcomes] /\ \A v \in Workers \ {w} : out'[v] = out[v]
            /\ out'[w] = "failed"
        BY <1>0, <2>4 DEF Return, Outcomes
      <3> QED BY <1>0, <2>4, <3>1, StepRefused DEF Return, Goto
    <2> QED BY <1>1, <2>1, <2>2, <2>3, <2>4 DEF Refresh
  <1>2. CASE ManualRefresh(w)
    <2>0. UNCHANGED out
      BY <1>2 DEF ManualRefresh, local
    <2>1. CASE Granted(w) /\ Goto(w, "persist") /\ UNCHANGED slips
      BY <1>0, <2>0, <2>1, StepGranted DEF Goto
    <2>2. CASE Granted(w) /\ Goto(w, "idle") /\ Slip({"lost"})
      BY <1>0, <2>0, <2>2, StepGranted DEF Goto, Slip
    <2>3. CASE UNCHANGED valid /\ Goto(w, "idle") /\ UNCHANGED slips
      BY <1>0, <2>0, <2>3, StepRefused DEF Goto
    <2> QED BY <1>2, <2>1, <2>2, <2>3 DEF ManualRefresh, Rejected
  <1> QED BY <1>1, <1>2

\* Under the lock a refused copy that is still the stored one is dead for good.
LEMMA StepRecover ==
  ASSUME Inv, NEW w \in Workers, Recover(w)
  PROVE  Inv'
  <1> USE DEF Inv
  <1>0. UNCHANGED <<row, status, valid, given, has, lock>> /\ pc[w] = "recover" /\ slips \subseteq slips'
    BY DEF Recover, stored, redis, Slip
  <1>1. /\ pc' = [pc EXCEPT ![w] = "release"] /\ out' \in [Workers -> Outcomes]
        /\ \A v \in Workers \ {w} : out'[v] = out[v]
    BY DEF Recover, Goto, Return, CopyType, Outcomes
  <1>2. PICK x \in {row, acct[w]} : acct' = [acct EXCEPT ![w] = x]
    BY DEF Recover, CopyType
  <1>3. CopyType'
    BY <1>0, <1>1, <1>2 DEF CopyType, Labels, Locked
  <1>4. Guarded'
    BY <1>0, <1>1 DEF Guarded, CopyType
  <1>5. \A v \in Workers : (pc'[v] = "persist" <=> pc[v] = "persist")
                           /\ (v # w => pc'[v] = pc[v] /\ acct'[v] = acct[v])
    BY <1>0, <1>1, <1>2 DEF CopyType
  <1>6. acct'[w] = x /\ pc'[w] = "release"
    BY <1>1, <1>2 DEF CopyType
  <1>7. Chain'
    <2> SUFFICES ASSUME "restored" \notin slips PROVE Chain'
      BY <1>0 DEF Chain
    <2>1. acct'[w].token <= row.token
      BY <1>6 DEF Chain, CopyType, Copies
    <2>2. "lost" \in slips => "lost" \in slips'
      BY <1>0
    <2> QED BY <1>0, <1>5, <1>6, <2>1, <2>2 DEF Chain
  <1>8. Retired'
    <2> SUFFICES ASSUME slips' \cap {"unguarded", "restored", "blind"} = {} PROVE Retired'
      BY DEF Retired
    <2>1. slips \cap {"unguarded", "restored", "blind"} = {}
      BY <1>0
    <2>2. Spent => Spent'
      BY <1>0, <1>5 DEF Spent
    <2>3. out'[w] = "dead" => Spent'
      <3> SUFFICES ASSUME out'[w] = "dead" PROVE Spent'
        OBVIOUS
      <3>1. row.token = acct[w].token
        BY DEF Recover, Return, Slip, CopyType
      <3>2. row.token # valid
        BY <1>0, <2>1, <3>1 DEF Retired
      <3>3. \A v \in Workers : pc[v] = "persist" => v = w
        BY <1>0, <2>1 DEF Guarded, Inside, Locked
      <3> QED BY <1>0, <1>5, <3>2, <3>3 DEF Spent
    <2> QED BY <1>0, <1>1, <1>5, <1>6, <2>1, <2>2, <2>3 DEF Retired
  <1> QED BY <1>3, <1>4, <1>7, <1>8

\* The successor of the stored token is stored.
LEMMA StepStored ==
  ASSUME Inv, NEW w \in Workers, pc[w] = "persist",
         UNCHANGED <<status, valid, lock, given, has, slips>>,
         row' \in Copies, row'.token = acct[w].token + 1,
         NEW x \in {acct[w], row'}, acct' = [acct EXCEPT ![w] = x],
         NEW l \in {"release", "invalidate", "idle"}, pc' = [pc EXCEPT ![w] = l],
         out' \in [Workers -> Outcomes], \A v \in Workers \ {w} : out'[v] = out[v],
         l = "release" => out'[w] # "dead"
  PROVE  Inv'
  <1> USE DEF Inv
  <1>1. CopyType'
    BY DEF CopyType, Labels, Locked
  <1>2. Guarded'
    BY DEF Guarded, CopyType, Inside, Locked
  <1>3. \A v \in Workers : /\ pc'[v] = IF v = w THEN l ELSE pc[v]
                           /\ acct'[v] = IF v = w THEN x ELSE acct[v]
    BY DEF CopyType
  <1>4. Chain'
    <2> SUFFICES ASSUME "restored" \notin slips PROVE Chain'
      BY DEF Chain
    <2>1. /\ row.token \in Nat /\ valid \in Nat
          /\ \A v \in Workers : acct[v].token \in Nat /\ given[v].token \in Nat
      BY DEF CopyType, Copies
    <2>2. /\ acct[w].token = row.token /\ valid = row.token + 1
          /\ \A v \in Workers : pc[v] = "persist" => v = w
      BY DEF Chain
    <2>3. row'.token = row.token + 1 /\ valid' = row'.token
      BY <2>2
    <2>4. \A v \in Workers : acct[v].token <= row'.token /\ given'[v].token <= row'.token
      BY <2>1, <2>3 DEF Chain
    <2>5. \A v \in Workers : acct'[v].token <= row'.token
      BY <1>3, <2>1, <2>3, <2>4
    <2>6. \A v \in Workers : pc'[v] # "persist"
      BY <1>3, <2>2
    <2> QED BY <2>1, <2>3, <2>4, <2>5, <2>6 DEF Chain
  <1>5. Retired'
    <2>1. ~Spent
      BY DEF Spent
    <2> QED BY <1>3, <2>1 DEF Retired
  <1> QED BY <1>1, <1>2, <1>4, <1>5

\* The successor of the stored token is lost.
LEMMA StepLost ==
  ASSUME Inv, NEW w \in Workers, pc[w] = "persist",
         UNCHANGED <<row, status, valid, lock, given, acct, has>>,
         slips \subseteq slips', "lost" \in slips',
         NEW l \in {"release", "idle"}, pc' = [pc EXCEPT ![w] = l],
         out' \in [Workers -> Outcomes], \A v \in Workers \ {w} : out'[v] = out[v],
         l = "release" => out'[w] # "dead"
  PROVE  Inv'
  <1> USE DEF Inv
  <1>1. CopyType'
    BY DEF CopyType, Labels, Locked
  <1>2. Guarded'
    BY DEF Guarded, CopyType, Inside, Locked
  <1>3. \A v \in Workers : pc'[v] = IF v = w THEN l ELSE pc[v]
    BY DEF CopyType
  <1>4. Chain'
    BY <1>3 DEF Chain
  <1>5. Retired'
    <2>1. ~Spent
      BY DEF Spent
    <2> QED BY <1>3, <2>1 DEF Retired
  <1> QED BY <1>1, <1>2, <1>4, <1>5

\* A renewed copy is the next token.
LEMMA RenewedCopy ==
  ASSUME NEW c \in Copies
  PROVE  /\ Renewed(c) \in Copies /\ Renewed(c).token = c.token + 1
         /\ \A n \in Nat : /\ [Renewed(c) EXCEPT !.version = n] \in Copies
                          /\ [Renewed(c) EXCEPT !.version = n].token = c.token + 1
  <1>1. c.token + 1 \in Nat
    BY DEF Copies
  <1>2. Renewed(c) \in Copies /\ Renewed(c).token = c.token + 1
    BY <1>1 DEF Renewed, Copies
  <1>3. ASSUME NEW d \in Copies, NEW n \in Nat
        PROVE  [d EXCEPT !.version = n] \in Copies /\ [d EXCEPT !.version = n].token = d.token
    BY DEF Copies
  <1> QED BY <1>2, <1>3

\* Both writers of the successor store it, or lose it.
LEMMA StepPersist ==
  ASSUME Inv, NEW w \in Workers, Persist(w) \/ UpdateAccount(w)
  PROVE  Inv'
  <1>0. /\ UNCHANGED <<status, valid, lock, given, has>> /\ pc[w] = "persist"
        /\ acct[w] \in Copies /\ acct[w].version \in Nat
        /\ acct \in [Workers -> Copies] /\ out \in [Workers -> Outcomes]
    BY DEF Persist, UpdateAccount, redis, local, Inv, CopyType, Copies
  <1>1. acct = [acct EXCEPT ![w] = acct[w]]
    BY <1>0
  <1>2. CASE Persist(w)
    <2>1. PICK o \in {"refreshed", "failed"} : Return(w, o)
      BY <1>2 DEF Persist
    <2>2. /\ pc' = [pc EXCEPT ![w] = "release"] /\ out' \in [Workers -> Outcomes]
          /\ \A v \in Workers \ {w} : out'[v] = out[v]
          /\ out'[w] # "dead"
      BY <1>0, <2>1 DEF Return, Goto, Outcomes
    <2>3. CASE row' = Renewed(acct[w]) /\ UNCHANGED slips
      <3>1. PICK x \in {acct[w], row'} : acct' = [acct EXCEPT ![w] = x]
        BY <1>1, <1>2 DEF Persist
      <3> QED BY <1>0, <2>2, <2>3, <3>1, RenewedCopy, StepStored
    <2>4. CASE row' = row /\ Slip({"lost"}) /\ UNCHANGED acct
      BY <1>0, <2>2, <2>4, StepLost DEF Slip
    <2> QED BY <1>2, <2>3, <2>4 DEF Persist
  <1>3. CASE UpdateAccount(w)
    <2>0. UNCHANGED <<acct, out>>
      BY <1>3 DEF UpdateAccount, local
    <2>1. CASE row' = [Renewed(acct[w]) EXCEPT !.version = acct[w].version] /\ UNCHANGED slips
      <3>1. PICK l \in {"invalidate", "idle"} : pc' = [pc EXCEPT ![w] = l]
        BY <1>3 DEF UpdateAccount, Goto
      <3>2. row' \in Copies /\ row'.token = acct[w].token + 1
        BY <1>0, <2>1, RenewedCopy
      <3> QED BY <1>0, <1>1, <2>0, <2>1, <3>1, <3>2, StepStored
    <2>2. CASE row' = row /\ Slip({"lost"}) /\ Goto(w, "idle")
      BY <1>0, <2>0, <2>2, StepLost DEF Slip, Goto
    <2> QED BY <1>3, <2>1, <2>2 DEF UpdateAccount
  <1> QED BY <1>2, <1>3

\* A release frees only the lock of its own refresh.
LEMMA StepRelease ==
  ASSUME Inv, NEW w \in Workers, Release(w)
  PROVE  Inv'
  <1> USE DEF Inv
  <1>0. /\ UNCHANGED <<row, status, valid, given, out, slips>> /\ pc[w] = "release"
        /\ has' = [has EXCEPT ![w] = FALSE]
    BY DEF Release, stored
  <1>1. PICK l \in {"mutex", "invalidate", "setError", "idle", "wait", "check"} :
          pc' = [pc EXCEPT ![w] = l] /\ (l = "setError" => out[w] = "dead")
    BY DEF Release, RetryOrGiveUp, UseResult, Goto
  <1>2. PICK x \in {acct[w], given[w]} : acct' = [acct EXCEPT ![w] = x]
    BY DEF Release, UseResult, CopyType
  <1>3. CopyType'
    BY <1>0, <1>1, <1>2 DEF CopyType, Labels
  <1>4. \A v \in Workers : /\ pc'[v] = IF v = w THEN l ELSE pc[v]
                           /\ acct'[v] = IF v = w THEN x ELSE acct[v]
                           /\ has'[v] = IF v = w THEN FALSE ELSE has[v]
    BY <1>0, <1>1, <1>2 DEF CopyType
  <1>5. Guarded'
    <2> SUFFICES ASSUME "unguarded" \notin slips PROVE Guarded'
      BY <1>0 DEF Guarded
    <2>1. ASSUME NEW v \in Workers \ {w}, has[v] PROVE lock' = v
      <3>1. lock = v /\ (has[w] => lock = w)
        BY <2>1 DEF Guarded
      <3>2. ~has[w]
        BY <3>1
      <3> QED BY <3>1, <3>2 DEF Release, ReleaseRefreshLock
    <2> QED BY <1>1, <1>4, <2>1 DEF Guarded, Inside, Locked
  <1>6. Chain'
    <2> SUFFICES ASSUME "restored" \notin slips PROVE Chain'
      BY <1>0 DEF Chain
    <2>1. \A v \in Workers : pc'[v] = "persist" <=> pc[v] = "persist"
      BY <1>0, <1>1, <1>4
    <2>2. \A v \in Workers : acct'[v].token <= row.token
      BY <1>4 DEF Chain
    <2>3. \A v \in Workers : pc'[v] = "persist" => acct'[v] = acct[v]
      BY <1>0, <1>4, <2>1
    <2> QED BY <1>0, <2>1, <2>2, <2>3 DEF Chain
  <1>7. Retired'
    <2>1. Spent => Spent'
      BY <1>0, <1>1, <1>4 DEF Spent
    <2> QED BY <1>0, <1>1, <1>4, <2>1 DEF Retired
  <1> QED BY <1>3, <1>5, <1>6, <1>7

\* Only an account whose token is spent is retired.
LEMMA StepSetError ==
  ASSUME Inv, NEW w \in Workers, SetError(w)
  PROVE  Inv'
  <1> USE DEF Inv
  <1>0. /\ UNCHANGED <<row, valid, lock, given, acct, has, out, slips>> /\ pc[w] = "setError"
        /\ pc' = [pc EXCEPT ![w] = "idle"]
    BY DEF SetError, redis, local, Goto
  <1>1. CopyType'
    BY <1>0 DEF CopyType, Labels
  <1>2. \A v \in Workers : pc'[v] = IF v = w THEN "idle" ELSE pc[v]
    BY <1>0 DEF CopyType
  <1>3. Guarded'
    BY <1>0, <1>2 DEF Guarded, Inside, Locked
  <1>4. Chain'
    BY <1>0, <1>2 DEF Chain
  <1>5. Retired'
    <2>1. Spent => Spent'
      BY <1>0, <1>2 DEF Spent
    <2> QED BY <1>0, <1>2, <2>1 DEF Retired
  <1> QED BY <1>1, <1>3, <1>4, <1>5

\* A 401 stores what the request was given: the stored token, or an older one.
LEMMA StepMarkExpired ==
  ASSUME Inv, NEW w \in Workers, MarkExpired(w)
  PROVE  Inv'
  <1> USE DEF Inv
  <1>0. /\ UNCHANGED <<status, valid, lock, given, acct, has, out>> /\ pc[w] = "mark"
        /\ pc' = [pc EXCEPT ![w] = "idle"] /\ slips \subseteq slips'
    BY DEF MarkExpired, redis, local, Goto, Slip
  <1>1. row' \in Copies
    BY DEF MarkExpired, CopyType, Copies
  <1>2. CopyType'
    BY <1>0, <1>1 DEF CopyType, Labels
  <1>3. \A v \in Workers : pc'[v] = IF v = w THEN "idle" ELSE pc[v]
    BY <1>0 DEF CopyType
  <1>4. "restored" \in slips' \/ (row'.token = row.token /\ slips' = slips)
    BY DEF MarkExpired, Slip, CopyType, Copies
  <1>5. Guarded'
    BY <1>0, <1>3 DEF Guarded, Inside, Locked
  <1>6. Chain'
    BY <1>0, <1>3, <1>4 DEF Chain
  <1>7. Retired'
    <2> SUFFICES ASSUME slips' \cap {"unguarded", "restored", "blind"} = {} PROVE Retired'
      BY DEF Retired
    <2>1. row'.token = row.token /\ slips' = slips
      BY <1>4
    <2>2. Spent => Spent'
      BY <1>0, <1>3, <2>1 DEF Spent
    <2> QED BY <1>0, <1>3, <2>1, <2>2 DEF Retired
  <1> QED BY <1>2, <1>5, <1>6, <1>7

\* An administrator's refresh starts from the stored copy, beside the lock.
LEMMA StepStartManual ==
  ASSUME Inv, NEW w \in Workers, StartManual(w)
  PROVE  Inv'
  <1> USE DEF Inv
  <1>0. /\ UNCHANGED <<row, status, valid, lock, given, has, out>> /\ pc[w] = "idle"
        /\ pc' = [pc EXCEPT ![w] = "refresh"] /\ acct' = [acct EXCEPT ![w] = row]
        /\ slips' = slips \cup {"unguarded"}
    BY DEF StartManual, stored, redis, world, Goto, Slip
  <1>1. CopyType'
    BY <1>0 DEF CopyType, Labels, Locked
  <1>2. Guarded' /\ Retired'
    BY <1>0 DEF Guarded, Retired
  <1>3. Chain'
    <2> SUFFICES ASSUME "restored" \notin slips PROVE Chain'
      BY <1>0 DEF Chain
    <2>1. \A v \in Workers : /\ pc'[v] = IF v = w THEN "refresh" ELSE pc[v]
                             /\ acct'[v] = IF v = w THEN row ELSE acct[v]
      BY <1>0 DEF CopyType
    <2>2. row.token <= row.token
      BY DEF CopyType, Copies
    <2> QED BY <1>0, <2>1, <2>2 DEF Chain
  <1> QED BY <1>1, <1>2, <1>3

\* A key that runs out under its holder is not the lock's guarantee any more.
LEMMA StepLockExpires ==
  ASSUME Inv, LockExpires
  PROVE  Inv'
  <1> USE DEF Inv
  <1>0. /\ UNCHANGED <<row, status, valid, pc, given, acct, has, out>>
        /\ slips' = slips \/ slips' = slips \cup {"unguarded"}
        /\ ~has[lock] \/ "unguarded" \in slips'
    BY DEF LockExpires, stored, world, local, Slip
  <1>1. CopyType' /\ Chain'
    BY <1>0 DEF CopyType, Chain
  <1>2. Guarded'
    BY <1>0 DEF Guarded
  <1>3. Retired'
    BY <1>0 DEF Retired, Spent
  <1> QED BY <1>1, <1>2, <1>3

\* An instance that stops loses the token it was about to store.
LEMMA StepCrash ==
  ASSUME Inv, NEW i \in Instances, Crash(i)
  PROVE  Inv'
  <1> USE DEF Inv
  <1> DEFINE hit == {w \in Workers : Home(w) = i /\ pc[w] # "idle"}
  <1>0. /\ UNCHANGED <<row, status, valid, lock, given, acct, out>>
        /\ pc'  = [w \in Workers |-> IF w \in hit THEN "idle" ELSE pc[w]]
        /\ has' = [w \in Workers |-> w \notin hit /\ has[w]]
        /\ slips \subseteq slips' /\ ((\E w \in hit : pc[w] = "persist") => "lost" \in slips')
        /\ slips' \subseteq slips \cup {"lost"}
    BY DEF Crash, stored, redis, world, Slip
  <1>1. CopyType'
    BY <1>0 DEF CopyType, Labels
  <1>2. \A w \in Workers : (pc'[w] = "idle" \/ pc'[w] = pc[w]) /\ (has'[w] => has[w])
                           /\ (pc'[w] # "idle" => has'[w] = has[w])
    BY <1>0 DEF CopyType
  <1>3. Guarded'
    BY <1>0, <1>2 DEF Guarded, Inside, Locked
  <1>4. Chain'
    <2> SUFFICES ASSUME "restored" \notin slips PROVE Chain'
      BY <1>0 DEF Chain
    <2>1. "lost" \notin slips' => \A w \in Workers : pc[w] = "persist" => pc'[w] = "persist"
      BY <1>0
    <2> QED BY <1>0, <1>2, <2>1 DEF Chain
  <1>5. Retired'
    <2>1. Spent => Spent'
      BY <1>0, <1>2 DEF Spent
    <2> QED BY <1>0, <1>2, <2>1 DEF Retired
  <1> QED BY <1>1, <1>3, <1>4, <1>5

-----------------------------------------------------------------------------

\* Every step keeps the invariant.
LEMMA InvNext == Inv /\ [Next]_vars => Inv'
  <1> SUFFICES ASSUME Inv, [Next]_vars PROVE Inv'
    OBVIOUS
  <1> USE DEF stored, redis, world, local, bounds, Environment
  <1>0. /\ pc \in [Workers -> Labels] /\ row \in Copies
        /\ given \in [Workers -> Copies] /\ acct \in [Workers -> Copies]
    BY DEF Inv, CopyType
  <1>1. ASSUME NEW w \in Workers, NEW l \in Outer, pc[w] \notin {"persist"}, Goto(w, l)
        PROVE  /\ pc' \in [Workers -> Labels]
               /\ \A v \in Workers : pc'[v] = pc[v] \/ (pc[v] \notin {"persist"} /\ pc'[v] \in Outer)
    BY <1>0, <1>1 DEF Goto, Outer
  <1>2. ASSUME NEW w \in Workers, LockLocal(w) \/ Invalidate(w) \/ WaitForCache(w)
                                   \/ CheckTokenVersion(w) \/ SetAccessToken(w)
        PROVE  Inv'
    <2>1. pc[w] # "persist" /\ \E l \in Outer : Goto(w, l)
      BY <1>2, OuterLabels
         DEF LockLocal, Invalidate, WaitForCache, CheckTokenVersion, SetAccessToken
    <2> QED BY <1>0, <1>1, <1>2, <2>1, Quiet
            DEF LockLocal, Invalidate, WaitForCache, CheckTokenVersion, SetAccessToken
  <1>3. ASSUME NEW w \in Workers, ForgetToken(w) \/ Serve(w) \/ Unauthorized(w)
        PROVE  Inv'
    <2>1. pc[w] # "persist" /\ \E l \in Outer : Goto(w, l)
      BY <1>3, OuterLabels DEF ForgetToken, Serve, Unauthorized
    <2> QED BY <1>0, <1>1, <1>3, <2>1, Quiet DEF ForgetToken, Serve, Unauthorized
  <1>4. ASSUME NEW w \in Workers, StartCycle(w) \/ StartRequest(w)
        PROVE  Inv'
    <2>1. pc[w] # "persist" /\ \E l \in Outer : Goto(w, l)
      BY <1>4, OuterLabels DEF StartCycle, StartRequest
    <2>2. /\ given' \in [Workers -> Copies]
          /\ \A v \in Workers : given'[v] \in {given[v], row}
      BY <1>0, <1>4 DEF StartCycle, StartRequest
    <2> QED BY <1>0, <1>1, <1>4, <2>1, <2>2, Quiet DEF StartCycle, StartRequest
  <1>5. ASSUME NEW w \in Workers, GetCached(w)
        PROVE  Inv'
    <2>1. PICK l \in Outer : pc[w] # "persist" /\ Goto(w, l)
      BY <1>5, OuterLabels DEF GetCached
    <2>2. pc'[w] \in Outer
      BY <1>0, <2>1 DEF Goto
    <2>3. /\ acct' \in [Workers -> Copies]
          /\ \A v \in Workers : acct'[v] = acct[v] \/ (acct'[v] = given[v] /\ pc'[v] \in Outer)
      BY <1>0, <1>5, <2>2 DEF GetCached
    <2> QED BY <1>0, <1>1, <1>5, <2>1, <2>3, Quiet DEF GetCached
  <1>6. ASSUME Expire \/ CacheExpires \/ UNCHANGED vars \/ \E w \in Workers : Disconnect(w)
        PROVE  Inv'
    BY <1>0, <1>6, Quiet DEF Expire, CacheExpires, vars, Disconnect
  <1> QED
    BY <1>2, <1>3, <1>4, <1>5, <1>6, StepAcquire, StepReread, StepRefresh, StepRecover,
       StepPersist, StepRelease, StepSetError, StepMarkExpired, StepStartManual,
       StepLockExpires, StepCrash
    DEF Next, RefreshStep, RefresherStep, ProviderStep, ManualStep, Starts

\* The invariant holds in every reachable state.
LEMMA InvHolds == Spec => []Inv
  BY InvInit, InvNext, PTL DEF Spec

\* While no refresh has run beside the refresh lock at most one goroutine of all the
\* instances is between RefreshIfNeeded's acquisition of it and its release.
THEOREM RefreshExclusive == Spec => []OneRefresh
  <1>1. Inv => OneRefresh
    <2> SUFFICES ASSUME Inv, "unguarded" \notin slips
                 PROVE  Cardinality({w \in Workers : pc[w] \in Inside \ {"release"}}) <= 1
      BY DEF OneRefresh
    <2> DEFINE In == {w \in Workers : pc[w] \in Inside \ {"release"}}
    <2>1. In \subseteq {lock}
      BY DEF Inv, Guarded
    <2>2. IsFiniteSet({lock}) /\ Cardinality({lock}) = 1
      BY FS_Singleton
    <2>3. IsFiniteSet(In) /\ Cardinality(In) <= Cardinality({lock})
      BY <2>1, <2>2, FS_Subset
    <2> QED BY <2>2, <2>3
  <1> QED BY <1>1, InvHolds, PTL

\* The stored refresh token is the one the upstream accepts, or its successor is about
\* to be stored, unless an answer or a write was lost or a 401 restored an older copy.
THEOREM TokenKept == Spec => []StoredIsValid
  <1>1. Inv => StoredIsValid
    BY DEF Inv, Chain, StoredIsValid
  <1> QED BY <1>1, InvHolds, PTL

\* SetError retires only an account whose stored token is spent, unless a refresh ran
\* beside the lock, the second look at the database failed, or an older copy was restored.
THEOREM OnlyDeadRetired == Spec => []ErrorMeansDead
  <1>1. Inv => ErrorMeansDead
    BY DEF Inv, Retired, Spent, ErrorMeansDead
  <1> QED BY <1>1, InvHolds, PTL

-----------------------------------------------------------------------------
(* Each new token has a cause: the bound of the tokens *)

\* A copy of the credentials, none newer than what the upstream accepts.
Issued(c) == c.token \in 1 .. valid /\ c.version \in 0 .. valid

Copied ==
  /\ Issued(row) /\ \A w \in Workers : Issued(given[w]) /\ Issued(acct[w])
  /\ \A w \in Workers : pc[w] = "persist" => acct[w].token < valid

\* The types of the other variables.
OtherTypes ==
  /\ status \in {"active", "error"} /\ cache \in (1 .. valid) \cup {None}
  /\ lock \in Workers \cup {None} /\ mutex \in [Instances -> Workers \cup {None}]
  /\ expired \in 0 .. MaxExpiries /\ expired <= valid
  /\ tries \in [Workers -> 0 .. MaxRetries] /\ gone \subseteq Providers
  /\ rounds \in [Workers -> 0 .. MaxRequests] /\ slips \subseteq Slips
  /\ unauthorized \in 0 .. MaxUnauthorized
  /\ faults \in 0 .. MaxFaults /\ crashes \in 0 .. MaxCrashes

\* An administrator refreshes without being asked; everyone else a copy that is due.
ManualLabels == {"idle", "refresh", "persist", "invalidate"}

Reasons ==
  /\ \A a \in Admins : pc[a] \in ManualLabels
  /\ \A w \in Workers \ Admins : pc[w] = "refresh" => Due(acct[w])

\* The token the upstream accepts has been complained of: it is marked, or about to be.
Complained ==
  \/ row.marked /\ row.token = valid
  \/ \E w \in Workers :
       \/ given[w].token = valid /\ (given[w].marked \/ pc[w] \in {"forget", "mark"})
       \/ acct[w].token = valid /\ acct[w].marked

\* The rounds administrators have begun, and those that are about to refresh.
Begun == {x \in Admins \X (1 .. MaxRequests) : x[2] <= rounds[x[1]]}
Busy  == {a \in Admins : pc[a] = "refresh"}

\* Past the tokens whose time came, each new one has a 401 or an administrator behind it;
\* a complaint, and a refresh about to be asked for, can cause one each.
Beyond == IF valid > MaxExpiries THEN valid - MaxExpiries ELSE 1

Caused ==
  Beyond + (IF Complained THEN 1 ELSE 0) + Cardinality(Busy)
    <= 1 + unauthorized + Cardinality(Begun)

Traced == OtherTypes /\ Copied /\ Reasons /\ Caused

\* What is counted is finite; there are no more rounds than the bound allows.
Counts ==
  /\ IsFiniteSet(Begun) /\ Cardinality(Begun) \in Nat
  /\ IsFiniteSet(Busy) /\ Cardinality(Busy) \in Nat
  /\ MaxRequests * Cardinality(Admins) \in Nat
  /\ Cardinality(Begun) <= MaxRequests * Cardinality(Admins)

\* They are, as there are finitely many administrators.
LEMMA CountsHold == Counts
  <1>1. /\ IsFiniteSet(Admins) /\ Cardinality(Admins) \in Nat /\ MaxRequests \in Nat
    BY RefreshConstants, FS_CardinalityType
  <1>2. IsFiniteSet(1 .. MaxRequests) /\ Cardinality(1 .. MaxRequests) = MaxRequests
    <2>1. /\ IsFiniteSet(1 .. MaxRequests)
          /\ Cardinality(1 .. MaxRequests) = IF 1 > MaxRequests THEN 0 ELSE MaxRequests - 1 + 1
      BY <1>1, FS_Interval
    <2> QED BY <1>1, <2>1
  <1> DEFINE all == Admins \X (1 .. MaxRequests)
  <1>3. IsFiniteSet(all) /\ Cardinality(all) = Cardinality(Admins) * MaxRequests
    BY <1>1, <1>2, FS_Product
  <1>4. Begun \in SUBSET all /\ Busy \in SUBSET Admins
    BY DEF Begun, Busy
  <1>5. IsFiniteSet(Begun) /\ Cardinality(Begun) <= Cardinality(all) /\ IsFiniteSet(Busy)
    BY <1>1, <1>3, <1>4, FS_Subset
  <1>6. Cardinality(all) \in Nat /\ Cardinality(Begun) \in Nat /\ Cardinality(Busy) \in Nat
    BY <1>3, <1>5, FS_CardinalityType
  <1>7. Cardinality(all) = MaxRequests * Cardinality(Admins)
    BY <1>1, <1>3
  <1> QED BY <1>5, <1>6, <1>7 DEF Counts

\* The bound of TypeOK.
LEMMA TokenBound ==
  ASSUME Inv, Traced
  PROVE  TypeOK
  <1> DEFINE b == 1 + MaxExpiries + MaxUnauthorized + MaxRequests * Cardinality(Admins)
  <1>1. /\ MaxExpiries \in Nat /\ MaxUnauthorized \in Nat /\ unauthorized \in 0 .. MaxUnauthorized
        /\ valid \in Nat
    BY RefreshConstants DEF Inv, CopyType, Traced, OtherTypes
  <1>2. valid \in 1 .. b /\ b \in Nat
    <2>1. /\ MaxRequests * Cardinality(Admins) \in Nat /\ Cardinality(Begun) \in Nat
          /\ Cardinality(Busy) \in Nat /\ Cardinality(Begun) <= MaxRequests * Cardinality(Admins)
      BY CountsHold DEF Counts
    <2>2. PICK n \in {0, 1} : n = IF Complained THEN 1 ELSE 0
      OBVIOUS
    <2>3. Beyond + n + Cardinality(Busy) <= 1 + unauthorized + Cardinality(Begun)
      BY <2>2 DEF Traced, Caused
    <2>4. valid >= 1
      BY <1>1 DEF Traced, Copied, Issued
    <2> QED BY <1>1, <2>1, <2>3, <2>4 DEF Beyond
  <1> HIDE DEF b
  <1>3. Tokens = 1 .. b
    BY DEF Tokens, b
  <1>4. \A c \in Copies : Issued(c) => c \in Accounts
    BY <1>1, <1>2, <1>3 DEF Issued, Copies, Accounts
  <1>5. /\ row \in Accounts /\ given \in [Workers -> Accounts] /\ acct \in [Workers -> Accounts]
    BY <1>4 DEF Inv, CopyType, Traced, Copied
  <1>6. /\ cache \in Tokens \cup {None} /\ valid \in Tokens /\ expired \in Tokens \cup {0}
    BY <1>1, <1>2, <1>3 DEF Traced, OtherTypes
  <1> QED BY <1>5, <1>6 DEF TypeOK, Inv, CopyType, Traced, OtherTypes

\* The trace holds in the initial state.
LEMMA TracedInit == Init => Traced
  <1> SUFFICES ASSUME Init PROVE Traced
    OBVIOUS
  <1>1. OtherTypes
    BY RefreshConstants DEF Init, OtherTypes
  <1>2. Copied /\ Reasons
    BY DEF Init, Copied, Issued, Registered, Reasons, ManualLabels, Workers
  <1>3. ~Complained
    BY DEF Init, Registered, Complained
  <1>4. Caused
    <2>1. Busy = {}
      BY DEF Init, Busy, Workers
    <2>2. Cardinality(Busy) = 0 /\ Cardinality(Begun) \in Nat
      BY <2>1, CountsHold, FS_EmptySet DEF Counts
    <2>3. valid = 1 /\ unauthorized = 0 /\ MaxExpiries \in Nat
      BY RefreshConstants DEF Init
    <2> QED BY <1>3, <2>2, <2>3 DEF Caused, Beyond
  <1> QED BY <1>1, <1>2, <1>4 DEF Traced

\* What is counted after a step is finite too.
LEMMA CountsFinite ==
  /\ IsFiniteSet(Begun) /\ Cardinality(Begun) \in Nat
  /\ IsFiniteSet(Busy) /\ Cardinality(Busy) \in Nat
  /\ IsFiniteSet(Begun') /\ Cardinality(Begun') \in Nat
  /\ IsFiniteSet(Busy') /\ Cardinality(Busy') \in Nat
  <1>1. Counts /\ Counts'
    BY CountsHold, PTL
  <1> QED BY <1>1 DEF Counts

\* The terms of the count.
LEMMA CountTerms ==
  ASSUME Inv, Traced
  PROVE  /\ MaxExpiries \in Nat /\ valid \in Nat \ {0} /\ Beyond \in Nat \ {0}
         /\ unauthorized \in Nat
         /\ \E n \in {0, 1} : /\ n = (IF Complained THEN 1 ELSE 0)
                              /\ Beyond + n + Cardinality(Busy) <= 1 + unauthorized + Cardinality(Begun)
  <1>1. MaxExpiries \in Nat /\ valid \in Nat \ {0} /\ unauthorized \in Nat
    BY RefreshConstants DEF Inv, CopyType, Traced, OtherTypes, Copied, Issued
  <1>2. Beyond \in Nat \ {0}
    BY <1>1 DEF Beyond
  <1> QED BY <1>1, <1>2 DEF Traced, Caused

\* The count after a step that gives no token, answers no 401 and begins no refresh of an
\* administrator.
LEMMA CausedKept ==
  ASSUME Inv, Traced, UNCHANGED <<valid, unauthorized>>,
         Complained' => Complained, Begun \subseteq Begun', Busy' \subseteq Busy
  PROVE  Caused'
  <1>1. Cardinality(Begun) <= Cardinality(Begun') /\ Cardinality(Busy') <= Cardinality(Busy)
    BY CountsFinite, FS_Subset
  <1>2. PICK n \in {0, 1} :
          /\ n = (IF Complained THEN 1 ELSE 0)
          /\ Beyond + n + Cardinality(Busy) <= 1 + unauthorized + Cardinality(Begun)
    BY CountTerms
  <1>3. PICK m \in {0, 1} : m = (IF Complained' THEN 1 ELSE 0)
    OBVIOUS
  <1>4. m <= n
    BY <1>2, <1>3
  <1>5. Beyond' = Beyond
    BY DEF Beyond
  <1>6. Beyond' + m + Cardinality(Busy') <= 1 + unauthorized' + Cardinality(Begun')
    BY <1>1, <1>2, <1>4, <1>5, CountsFinite, CountTerms
  <1> QED BY <1>3, <1>6 DEF Caused

\* What a step may do with a goroutine's copies that is no cause of a token.
Plain(v) ==
  \/ /\ given'[v] = given[v] /\ acct'[v] = acct[v] /\ rounds'[v] = rounds[v]
     /\ pc'[v] \in {pc[v], "idle"}
  \/ /\ given'[v] \in {given[v], row} /\ acct'[v] \in {acct[v], given[v], row, row'}
     /\ pc'[v] # "persist"
     /\ pc'[v] \in {"forget", "mark"} => pc[v] \in {"forget", "mark"} /\ given'[v] = given[v]
     /\ v \in Admins => pc'[v] \in ManualLabels \ {"refresh"}
     /\ v \notin Admins /\ pc'[v] = "refresh" => acct'[v].marked \/ acct'[v].token <= expired'
     /\ rounds'[v] \in Nat /\ rounds'[v] >= rounds[v]

\* Such a step keeps the trace.
LEMMA PlainStep ==
  ASSUME Inv, Inv', Traced, OtherTypes', UNCHANGED <<valid, unauthorized>>,
         expired' >= expired, Issued(row'),
         row'.marked /\ row'.token = valid => Complained,
         \A v \in Workers : Plain(v)
  PROVE  Traced'
  <1>1. /\ valid \in Nat /\ row \in Copies /\ row' \in Copies
        /\ given \in [Workers -> Copies] /\ acct \in [Workers -> Copies]
        /\ given' \in [Workers -> Copies] /\ acct' \in [Workers -> Copies]
        /\ pc \in [Workers -> Labels] /\ pc' \in [Workers -> Labels]
        /\ rounds \in [Workers -> Nat] /\ rounds' \in [Workers -> Nat]
        /\ expired \in Nat /\ expired' \in Nat
    BY RefreshConstants DEF Inv, CopyType, Traced, OtherTypes
  <1>2. Copied'
    <2>1. /\ \A v \in Workers : Issued(given[v]) /\ Issued(acct[v])
          /\ Issued(row)
      BY DEF Traced, Copied
    <2>2. \A v \in Workers : Issued(given'[v]) /\ Issued(acct'[v])
      BY <2>1 DEF Plain
    <2>3. \A v \in Workers : pc'[v] = "persist" => acct'[v].token < valid
      BY DEF Plain, Traced, Copied
    <2> QED BY <2>2, <2>3 DEF Copied, Issued
  <1>3. Reasons'
    <2>1. \A a \in Admins : pc'[a] \in ManualLabels
      BY DEF Plain, Traced, Reasons, ManualLabels, Workers
    <2>2. ASSUME NEW v \in Workers \ Admins, pc'[v] = "refresh"
          PROVE  acct'[v].marked \/ acct'[v].token <= expired'
      <3>1. CASE pc[v] = "refresh" /\ acct'[v] = acct[v]
        <4>1. acct[v].marked \/ acct[v].token <= expired
          BY <2>2, <3>1 DEF Traced, Reasons, Due
        <4>2. acct[v].token \in Nat
          BY <1>1 DEF Copies
        <4> QED BY <1>1, <3>1, <4>1, <4>2
      <3> QED BY <2>2, <3>1 DEF Plain
    <2> QED BY <2>1, <2>2 DEF Reasons, Due
  <1>4. Complained' => Complained
    <2> SUFFICES ASSUME Complained' PROVE Complained
      OBVIOUS
    <2>1. CASE row'.marked /\ row'.token = valid
      BY <2>1
    <2>2. ASSUME NEW v \in Workers, given'[v].token = valid,
                 given'[v].marked \/ pc'[v] \in {"forget", "mark"}
          PROVE  Complained
      BY <2>2 DEF Plain, Complained
    <2>3. ASSUME NEW v \in Workers, acct'[v].token = valid, acct'[v].marked
          PROVE  Complained
      BY <2>3 DEF Plain, Complained
    <2> QED BY <2>1, <2>2, <2>3 DEF Complained
  <1>5. Begun \subseteq Begun'
    <2>1. \A v \in Workers : rounds'[v] >= rounds[v]
      BY <1>1 DEF Plain
    <2>2. \A v \in Admins, k \in 1 .. MaxRequests : k <= rounds[v] => k <= rounds'[v]
      BY <1>1, <2>1, RefreshConstants DEF Workers
    <2> QED BY <2>2 DEF Begun
  <1>6. Busy' \subseteq Busy
    BY DEF Plain, Busy, Workers
  <1> QED BY <1>2, <1>3, <1>4, <1>5, <1>6, CausedKept DEF Traced

\* The types of the other variables after any step.
LEMMA TypesKept ==
  ASSUME Inv, Traced, [Next]_vars
  PROVE  OtherTypes'
  <1> USE DEF stored, redis, world, local, bounds, Environment
  <1>0. /\ OtherTypes /\ valid \in Nat \ {0} /\ MaxRetries \in Nat \ {0}
        /\ {MaxExpiries, MaxRequests, MaxUnauthorized, MaxFaults, MaxCrashes} \subseteq Nat
        /\ row.token \in 1 .. valid /\ \A w \in Workers : acct[w].token \in 1 .. valid
    BY RefreshConstants DEF Inv, CopyType, Traced, Copied, Issued
  <1>1. ASSUME NEW w \in Workers, Works(w) \/ Fails(w), faults \in 0 .. MaxFaults
        PROVE  faults' \in 0 .. MaxFaults
    BY <1>0, <1>1 DEF Works, Fails
  <1>2. ASSUME NEW w \in Workers, LockLocal(w)
        PROVE  OtherTypes'
    BY <1>0, <1>2 DEF OtherTypes, LockLocal
  <1>3. ASSUME NEW w \in Workers, AcquireRefreshLock(w)
        PROVE  OtherTypes'
    BY <1>0, <1>1, <1>3 DEF OtherTypes, AcquireRefreshLock, Slip, Slips
  <1>4. ASSUME NEW w \in Workers, Reread(w)
        PROVE  OtherTypes'
    BY <1>0, <1>1, <1>4 DEF OtherTypes, Reread
  <1>5. ASSUME NEW w \in Workers, Refresh(w) \/ ManualRefresh(w)
        PROVE  OtherTypes'
    <2>1. valid' \in {valid, valid + 1} /\ slips' \subseteq slips \cup {"lost"}
      BY <1>5 DEF Refresh, ManualRefresh, Granted, Rejected, Slip
    <2>2. faults' \in 0 .. MaxFaults
      BY <1>0, <1>1, <1>5 DEF OtherTypes, Refresh, ManualRefresh
    <2>3. UNCHANGED <<status, redis, mutex, tries, Environment>>
      BY <1>5 DEF Refresh, ManualRefresh
    <2>4. cache' \in (1 .. valid') \cup {None} /\ expired' <= valid'
      BY <1>0, <2>1, <2>3 DEF OtherTypes
    <2> QED BY <1>0, <2>1, <2>2, <2>3, <2>4 DEF OtherTypes, Slips
  <1>6. ASSUME NEW w \in Workers, Recover(w) \/ Persist(w) \/ MarkExpired(w) \/ UpdateAccount(w)
        PROVE  OtherTypes'
    <2>1. slips' \subseteq slips \cup Slips
      BY <1>6 DEF Recover, Persist, MarkExpired, UpdateAccount, Slip, Slips
    <2>2. faults' \in 0 .. MaxFaults
      BY <1>0, <1>1, <1>6 DEF OtherTypes, Recover, Persist, MarkExpired, UpdateAccount
    <2>3. UNCHANGED <<status, redis, valid, mutex, tries, Environment>>
      BY <1>6 DEF Recover, Persist, MarkExpired, UpdateAccount
    <2> QED BY <1>0, <2>1, <2>2, <2>3 DEF OtherTypes
  <1>7. ASSUME NEW w \in Workers, Release(w)
        PROVE  OtherTypes'
    <2>1. faults' \in 0 .. MaxFaults /\ lock' \in {lock, None}
      BY <1>0, <1>1, <1>7 DEF OtherTypes, Release, ReleaseRefreshLock
    <2>2. tries' \in [Workers -> 0 .. MaxRetries]
      <3>1. tries' = tries \/ (tries[w] < MaxRetries /\ tries' = [tries EXCEPT ![w] = @ + 1])
        BY <1>7 DEF Release, RetryOrGiveUp
      <3> QED BY <1>0, <3>1 DEF OtherTypes
    <2>3. UNCHANGED <<stored, cache, valid, slips, Environment>>
          /\ mutex' = [mutex EXCEPT ![Home(w)] = None]
      BY <1>7 DEF Release
    <2> QED BY <1>0, <2>1, <2>2, <2>3 DEF OtherTypes
  <1>8. ASSUME NEW w \in Workers, StartCycle(w) \/ StartRequest(w) \/ StartManual(w)
        PROVE  OtherTypes'
    <2>1. rounds' = rounds \/ (rounds[w] < MaxRequests /\ rounds' = [rounds EXCEPT ![w] = @ + 1])
      BY <1>8 DEF StartCycle, StartRequest, StartManual
    <2>2. tries' \in [Workers -> 0 .. MaxRetries]
      BY <1>0, <1>8 DEF OtherTypes, StartCycle, StartRequest, StartManual
    <2>3. rounds' \in [Workers -> 0 .. MaxRequests]
      BY <1>0, <2>1 DEF OtherTypes
    <2>4. /\ slips' \subseteq slips \cup Slips /\ gone' \subseteq gone
          /\ UNCHANGED <<status, redis, world, mutex, bounds>>
      BY <1>8 DEF StartCycle, StartRequest, StartManual, Slip, Slips
    <2> QED BY <1>0, <2>2, <2>3, <2>4 DEF OtherTypes
  <1>9. ASSUME NEW w \in Workers, Invalidate(w) \/ SetAccessToken(w) \/ ForgetToken(w)
        PROVE  OtherTypes'
    <2>1. cache' \in {cache, None, acct[w].token}
      BY <1>9 DEF Invalidate, SetAccessToken, ForgetToken
    <2>2. faults' \in 0 .. MaxFaults
      BY <1>0, <1>1, <1>9 DEF OtherTypes, Invalidate, SetAccessToken, ForgetToken
    <2>3. UNCHANGED <<stored, lock, valid, local, slips, Environment>>
      BY <1>9 DEF Invalidate, SetAccessToken, ForgetToken
    <2> QED BY <1>0, <2>1, <2>2, <2>3 DEF OtherTypes
  <1>10. ASSUME NEW w \in Workers, SetError(w) \/ GetCached(w) \/ WaitForCache(w)
                                   \/ CheckTokenVersion(w) \/ Serve(w)
        PROVE  OtherTypes'
    <2>1. status' \in {status, "error"}
      BY <1>10 DEF SetError, GetCached, WaitForCache, CheckTokenVersion, Serve
    <2>2. faults' \in 0 .. MaxFaults
      BY <1>0, <1>1, <1>10
         DEF OtherTypes, SetError, GetCached, WaitForCache, CheckTokenVersion, Serve
    <2>3. UNCHANGED <<redis, valid, mutex, tries, slips, Environment>>
      BY <1>10 DEF SetError, GetCached, WaitForCache, CheckTokenVersion, Serve
    <2> QED BY <1>0, <2>1, <2>2, <2>3 DEF OtherTypes
  <1>11. ASSUME NEW w \in Workers, Unauthorized(w) \/ Disconnect(w)
         PROVE  OtherTypes'
    BY <1>0, <1>11 DEF OtherTypes, Unauthorized, Disconnect
  <1>12. ASSUME NEW i \in Instances, Crash(i)
         PROVE  OtherTypes'
    <2>1. /\ crashes < MaxCrashes /\ crashes' = crashes + 1
          /\ slips' \in {slips \cup {"lost"}, slips \cup {}}
          /\ mutex' = [mutex EXCEPT ![i] = None]
          /\ UNCHANGED <<stored, redis, world, tries, gone, rounds, unauthorized, faults>>
      BY <1>12 DEF Crash, Slip
    <2> QED BY <1>0, <2>1 DEF OtherTypes, Slips
  <1>13. ASSUME Expire \/ CacheExpires \/ LockExpires \/ UNCHANGED vars
         PROVE  OtherTypes'
    <2>1. CASE Expire
      BY <1>0, <2>1 DEF OtherTypes, Expire
    <2>2. CASE CacheExpires \/ UNCHANGED vars
      BY <1>0, <2>2 DEF OtherTypes, CacheExpires, vars
    <2>3. CASE LockExpires
      <3>1. /\ lock' = None
            /\ \/ slips' = slips \cup {"unguarded"} /\ faults < MaxFaults /\ faults' = faults + 1
               \/ UNCHANGED <<slips, faults>>
            /\ UNCHANGED <<stored, cache, world, local, gone, rounds, unauthorized, crashes>>
        BY <2>3 DEF LockExpires, Slip
      <3>2. slips' \subseteq Slips
        BY <1>0, <3>1 DEF OtherTypes, Slips
      <3>3. faults' \in 0 .. MaxFaults
        BY <1>0, <3>1 DEF OtherTypes
      <3> QED BY <1>0, <3>1, <3>2, <3>3 DEF OtherTypes
    <2> QED BY <1>13, <2>1, <2>2, <2>3
  <1> QED
    BY <1>2, <1>3, <1>4, <1>5, <1>6, <1>7, <1>8, <1>9, <1>10, <1>11, <1>12, <1>13
    DEF Next, RefreshStep, RefresherStep, ProviderStep, ManualStep, Starts

-----------------------------------------------------------------------------
\* A token is given for a copy that is due, by its time or by a complaint, or to an
\* administrator: the count stays below its bound.
LEMMA TracedGranted ==
  ASSUME Inv, Inv', Traced, OtherTypes', NEW w \in Workers,
         Refresh(w) \/ ManualRefresh(w), Granted(w)
  PROVE  Traced'
  <1> USE DEF stored, local, Environment
  <1>1. /\ pc[w] = "refresh" /\ acct[w].token = valid /\ valid' = valid + 1
        /\ UNCHANGED <<row, given, acct, expired, rounds, unauthorized>>
        /\ \/ Goto(w, "persist")
           \/ Goto(w, "release") /\ w \notin Admins
           \/ Goto(w, "idle")
    BY DEF Refresh, ManualRefresh, Granted, Rejected, Return
  <1>2. /\ row \in Copies /\ given \in [Workers -> Copies] /\ acct \in [Workers -> Copies]
        /\ pc \in [Workers -> Labels] /\ expired \in 0 .. MaxExpiries
        /\ row.token <= valid
        /\ \A v \in Workers : given[v].token <= valid /\ acct[v].token <= valid
    BY DEF Inv, CopyType, Traced, OtherTypes, Copied, Issued
  <1>3. /\ MaxExpiries \in Nat /\ valid \in Nat \ {0} /\ unauthorized \in Nat
        /\ Beyond \in Nat \ {0}
    BY CountTerms
  <1>4. \A v \in Workers \ {w} : pc'[v] = pc[v]
    BY <1>1, <1>2 DEF Goto
  <1>5. pc'[w] \in {"persist", "release", "idle"} /\ (pc'[w] = "release" => w \notin Admins)
    BY <1>1, <1>2 DEF Goto
  <1>6. Copied'
    <2>1. /\ Issued(row) /\ \A v \in Workers : Issued(given[v]) /\ Issued(acct[v])
          /\ \A v \in Workers : pc[v] = "persist" => acct[v].token < valid
      BY DEF Traced, Copied
    <2>2. \A v \in Workers : pc'[v] = "persist" => acct[v].token < valid + 1
      BY <1>2, <1>3 DEF Copies
    <2> QED BY <1>1, <1>3, <2>1, <2>2 DEF Copied, Issued
  <1>7. Reasons'
    BY <1>1, <1>4, <1>5 DEF Traced, Reasons, ManualLabels, Due, Workers
  <1>8. ~Complained'
    BY <1>1, <1>2, <1>3 DEF Complained, Copies
  <1>9. Begun' = Begun
    BY <1>1 DEF Begun
  <1>10. PICK n \in {0, 1} :
           /\ n = (IF Complained THEN 1 ELSE 0)
           /\ Beyond + n + Cardinality(Busy) <= 1 + unauthorized + Cardinality(Begun)
    BY CountTerms
  <1>11. Beyond' + Cardinality(Busy') <= Beyond + n + Cardinality(Busy)
    <2>1. CASE w \in Admins
      <3>1. Busy' = Busy \ {w} /\ w \in Busy
        BY <1>1, <1>4, <1>5, <2>1 DEF Busy, Workers
      <3>2. Cardinality(Busy') = Cardinality(Busy) - 1
        BY <3>1, CountsFinite, FS_RemoveElement
      <3>3. Beyond' <= Beyond + 1 /\ Beyond' \in Nat
        BY <1>1, <1>3 DEF Beyond
      <3> QED BY <1>3, <3>2, <3>3, CountsFinite
    <2>2. CASE w \notin Admins
      <3>1. Busy' = Busy
        BY <1>4, <2>2 DEF Busy, Workers
      <3>2. acct[w].marked \/ valid <= expired
        BY <1>1, <2>2 DEF Traced, Reasons, Due
      <3>3. CASE acct[w].marked
        <4>1. Complained
          BY <1>1, <3>3 DEF Complained
        <4>2. n = 1
          BY <1>10, <4>1
        <4>3. Beyond' <= Beyond + 1 /\ Beyond' \in Nat
          BY <1>1, <1>3 DEF Beyond
        <4> QED BY <1>3, <3>1, <4>2, <4>3, CountsFinite
      <3>4. CASE valid <= expired
        <4>1. Beyond' = 1
          BY <1>1, <1>2, <1>3, <3>4 DEF Beyond
        <4> QED BY <1>3, <3>1, <4>1, CountsFinite
      <3> QED BY <3>2, <3>3, <3>4
    <2> QED BY <2>1, <2>2
  <1>12. Beyond' \in Nat
    BY <1>1, <1>3 DEF Beyond
  <1>13. Beyond' + 0 + Cardinality(Busy') <= 1 + unauthorized' + Cardinality(Begun')
    BY <1>1, <1>3, <1>9, <1>10, <1>11, <1>12, CountsFinite
  <1> QED BY <1>6, <1>7, <1>8, <1>13 DEF Traced, Caused

\* An answer 401 is the cause of one token.
LEMMA TracedUnauthorized ==
  ASSUME Inv, Inv', Traced, OtherTypes', NEW w \in Workers, Unauthorized(w)
  PROVE  Traced'
  <1>1. /\ pc[w] = "serve" /\ unauthorized' = unauthorized + 1 /\ Goto(w, "forget")
        /\ UNCHANGED <<row, valid, expired, given, acct, rounds>>
    BY DEF Unauthorized, stored, world, local
  <1>2. /\ pc \in [Workers -> Labels] /\ \A v \in Workers \ {w} : pc'[v] = pc[v]
        /\ pc'[w] = "forget"
    BY <1>1 DEF Inv, CopyType, Goto
  <1>3. w \notin Admins
    BY <1>1 DEF Traced, Reasons, ManualLabels
  <1>4. Copied'
    BY <1>1, <1>2 DEF Traced, Copied, Issued
  <1>5. Reasons'
    BY <1>1, <1>2, <1>3 DEF Traced, Reasons, Due, Workers
  <1>6. Busy' = Busy /\ Begun' = Begun /\ Beyond' = Beyond
    BY <1>1, <1>2, <1>3 DEF Busy, Begun, Beyond, Workers
  <1>7. PICK n \in {0, 1} :
          Beyond + n + Cardinality(Busy) <= 1 + unauthorized + Cardinality(Begun)
    BY CountTerms
  <1>8. PICK m \in {0, 1} : m = (IF Complained' THEN 1 ELSE 0)
    OBVIOUS
  <1>9. Beyond' + m + Cardinality(Busy') <= 1 + unauthorized' + Cardinality(Begun')
    BY <1>1, <1>6, <1>7, CountsFinite, CountTerms
  <1> QED BY <1>4, <1>5, <1>8, <1>9 DEF Traced, Caused

\* So is an administrator's round.
LEMMA TracedStartManual ==
  ASSUME Inv, Inv', Traced, OtherTypes', NEW w \in Workers, StartManual(w)
  PROVE  Traced'
  <1>1. /\ w \in Admins /\ pc[w] = "idle" /\ rounds[w] < MaxRequests
        /\ rounds' = [rounds EXCEPT ![w] = @ + 1]
        /\ acct' = [acct EXCEPT ![w] = row] /\ Goto(w, "refresh")
        /\ UNCHANGED <<row, valid, expired, given, unauthorized>>
    BY DEF StartManual, stored, world, bounds
  <1>2. /\ pc \in [Workers -> Labels] /\ acct \in [Workers -> Copies]
        /\ rounds \in [Workers -> 0 .. MaxRequests] /\ MaxRequests \in Nat
    BY RefreshConstants DEF Inv, CopyType, Traced, OtherTypes
  <1>3. /\ \A v \in Workers \ {w} :
             pc'[v] = pc[v] /\ acct'[v] = acct[v] /\ rounds'[v] = rounds[v]
        /\ pc'[w] = "refresh" /\ acct'[w] = row /\ rounds'[w] = rounds[w] + 1
    BY <1>1, <1>2 DEF Goto
  <1>4. Copied'
    BY <1>1, <1>3 DEF Traced, Copied, Issued
  <1>5. Reasons'
    BY <1>1, <1>3 DEF Traced, Reasons, ManualLabels, Due, Workers
  <1>6. Complained' => Complained
    BY <1>1, <1>3 DEF Complained
  <1>7. Cardinality(Busy') = Cardinality(Busy) + 1
    <2>1. Busy' = Busy \cup {w} /\ w \notin Busy
      BY <1>1, <1>3 DEF Busy, Workers
    <2> QED BY <2>1, CountsFinite, FS_AddElement
  <1>8. Cardinality(Begun') = Cardinality(Begun) + 1
    <2> DEFINE x == <<w, rounds[w] + 1>>
    <2>1. Begun' = Begun \cup {x}
      BY <1>1, <1>2, <1>3 DEF Begun, Workers
    <2>2. x \notin Begun
      BY <1>1, <1>2 DEF Begun, Workers
    <2> HIDE DEF x
    <2> QED BY <2>1, <2>2, CountsFinite, FS_AddElement
  <1>9. PICK n \in {0, 1} :
          /\ n = (IF Complained THEN 1 ELSE 0)
          /\ Beyond + n + Cardinality(Busy) <= 1 + unauthorized + Cardinality(Begun)
    BY CountTerms
  <1>10. PICK m \in {0, 1} : m = (IF Complained' THEN 1 ELSE 0)
    OBVIOUS
  <1>11. m <= n /\ Beyond' = Beyond
    BY <1>1, <1>6, <1>9, <1>10 DEF Beyond
  <1>12. Beyond' + m + Cardinality(Busy') <= 1 + unauthorized' + Cardinality(Begun')
    BY <1>1, <1>7, <1>8, <1>9, <1>11, CountsFinite, CountTerms
  <1> QED BY <1>4, <1>5, <1>10, <1>12 DEF Traced, Caused

\* A goroutine's step that is no cause of a token, under its own name.
LEMMA TracedPlain ==
  ASSUME Inv, Inv', Traced, OtherTypes', NEW w \in Workers,
         UNCHANGED <<valid, unauthorized, expired>>,
         \A v \in Workers \ {w} :
           UNCHANGED <<pc[v], given[v], acct[v], rounds[v]>>,
         Issued(row'), row'.marked /\ row'.token = valid => Complained,
         Plain(w)
  PROVE  Traced'
  <1>1. \A v \in Workers : Plain(v)
    BY DEF Plain
  <1>2. expired' >= expired
    BY DEF Traced, OtherTypes
  <1> QED BY <1>1, <1>2, PlainStep

\* The trace holds after every step.
LEMMA TracedNext == Inv /\ Traced /\ [Next]_vars => Traced'
  <1> SUFFICES ASSUME Inv, Traced, [Next]_vars PROVE Traced'
    OBVIOUS
  <1> USE DEF stored, redis, world, local, bounds, Environment
  <1>0. Inv' /\ OtherTypes'
    BY InvNext, TypesKept
  <1>a. /\ pc \in [Workers -> Labels] /\ row \in Copies
        /\ given \in [Workers -> Copies] /\ acct \in [Workers -> Copies]
        /\ rounds \in [Workers -> 0 .. MaxRequests] /\ MaxRequests \in Nat
        /\ Issued(row) /\ (row.marked /\ row.token = valid => Complained)
        /\ \A a \in Admins : pc[a] \in ManualLabels
    BY RefreshConstants DEF Inv, CopyType, Traced, OtherTypes, Copied, Reasons, Complained
  \* Steps that move one worker's control, and may have it copy an account.
  <1>1. ASSUME NEW w \in Workers,
               LockLocal(w) \/ AcquireRefreshLock(w) \/ Invalidate(w) \/ SetError(w)
                 \/ WaitForCache(w) \/ CheckTokenVersion(w) \/ SetAccessToken(w) \/ Serve(w)
        PROVE  Traced'
    <2>1. /\ UNCHANGED <<row, valid, unauthorized, expired, given, acct, rounds>>
          /\ \E l \in {"lock", "reread", "release", "idle", "serve", "check", "set"} : Goto(w, l)
          /\ pc[w] \in {"mutex", "lock", "wait", "check", "set"} \/ Goto(w, "idle") \/ pc[w] = "serve"
      BY <1>1 DEF LockLocal, AcquireRefreshLock, Return, Invalidate, SetError, WaitForCache,
                  CheckTokenVersion, SetAccessToken, Serve
    <2>2. Plain(w)
      BY <1>a, <2>1 DEF Plain, Goto, ManualLabels
    <2> QED BY <1>0, <1>a, <2>1, <2>2, TracedPlain DEF Goto
  <1>2. ASSUME NEW w \in Workers, Reread(w)
        PROVE  Traced'
    <2>1. /\ UNCHANGED <<row, valid, unauthorized, expired, given, rounds>> /\ pc[w] = "reread"
          /\ \E c \in {row, given[w]} : acct' = [acct EXCEPT ![w] = c]
          /\ Goto(w, "release") \/ (Goto(w, "refresh") /\ Due(acct'[w]))
      BY <1>2 DEF Reread, Return
    <2>2. /\ \A v \in Workers \ {w} : pc'[v] = pc[v] /\ acct'[v] = acct[v]
          /\ acct'[w] \in {row, given[w]} /\ pc'[w] \in {"release", "refresh"}
          /\ pc'[w] = "refresh" => Due(acct'[w])
      BY <1>a, <2>1 DEF Goto
    <2>3. w \notin Admins
      BY <1>a, <2>1 DEF ManualLabels
    <2>4. rounds[w] \in Nat
      BY <1>a
    <2>5. Plain(w)
      BY <2>1, <2>2, <2>3, <2>4 DEF Plain, Due
    <2> QED BY <1>0, <1>a, <2>1, <2>2, <2>5, TracedPlain
  <1>3. ASSUME NEW w \in Workers, Refresh(w) \/ ManualRefresh(w)
        PROVE  Traced'
    <2>1. CASE Granted(w)
      BY <1>0, <1>3, <2>1, TracedGranted
    <2>2. CASE ~Granted(w)
      <3>1. /\ UNCHANGED <<row, valid, unauthorized, expired, given, acct, rounds>>
            /\ Goto(w, "idle") \/ (w \notin Admins /\ \E l \in {"recover", "release"} : Goto(w, l))
        BY <1>3, <2>2 DEF Refresh, ManualRefresh, Rejected, Return
      <3>2. /\ \A v \in Workers \ {w} : pc'[v] = pc[v]
            /\ pc'[w] = "idle" \/ (w \notin Admins /\ pc'[w] \in {"recover", "release"})
        BY <1>a, <3>1 DEF Goto
      <3>3. Plain(w)
        BY <1>a, <3>1, <3>2 DEF Plain
      <3> QED BY <1>0, <1>a, <3>1, <3>2, <3>3, TracedPlain
    <2> QED BY <2>1, <2>2
  <1>4. ASSUME NEW w \in Workers, Recover(w) \/ Release(w)
        PROVE  Traced'
    <2>1. /\ UNCHANGED <<row, valid, unauthorized, expired, given, rounds>>
          /\ pc[w] \in {"recover", "release"}
          /\ \E l \in {"release", "mutex", "invalidate", "setError", "idle", "wait", "check"} : Goto(w, l)
      BY <1>4 DEF Recover, Release, Return, RetryOrGiveUp, UseResult
    <2>2. acct' = acct \/ \E c \in {acct[w], row, given[w]} : acct' = [acct EXCEPT ![w] = c]
      <3>1. CASE Recover(w)
        BY <3>1 DEF Recover
      <3>2. CASE Release(w)
        <4>1. CASE out[w] \in {"current", "refreshed"}
          BY <3>2, <4>1 DEF Release, UseResult
        <4>2. CASE out[w] \notin {"current", "refreshed"}
          BY <3>2, <4>2 DEF Release, UseResult
        <4> QED BY <4>1, <4>2
      <3> QED BY <1>4, <3>1, <3>2
    <2>3. /\ \A v \in Workers \ {w} : pc'[v] = pc[v] /\ acct'[v] = acct[v]
          /\ acct'[w] \in {acct[w], row, given[w]}
          /\ pc'[w] \in {"release", "mutex", "invalidate", "setError", "idle", "wait", "check"}
      BY <1>a, <2>1, <2>2 DEF Goto
    <2>4. w \notin Admins /\ rounds[w] \in Nat
      BY <1>a, <2>1 DEF ManualLabels
    <2>5. Plain(w)
      BY <2>1, <2>3, <2>4 DEF Plain
    <2> QED BY <1>0, <1>a, <2>1, <2>3, <2>5, TracedPlain
  <1>5. ASSUME NEW w \in Workers, Persist(w) \/ UpdateAccount(w)
        PROVE  Traced'
    <2>1. /\ UNCHANGED <<valid, unauthorized, expired, given, rounds>>
          /\ pc[w] = "persist" /\ (w \in Admins <=> UpdateAccount(w))
          /\ row' \in {row, Renewed(acct[w]), [Renewed(acct[w]) EXCEPT !.version = acct[w].version]}
          /\ acct' = acct \/ acct' = [acct EXCEPT ![w] = row']
          /\ \/ \E l \in {"idle", "invalidate"} : Goto(w, l)
             \/ Goto(w, "release") /\ w \notin Admins
      BY <1>5 DEF Persist, UpdateAccount, Return
    <2>2. acct[w].token \in 1 .. valid /\ acct[w].token < valid /\ acct[w].version \in 0 .. valid
          /\ valid \in Nat
      BY <2>1, CountTerms DEF Traced, Copied, Issued
    <2>3. Issued(row') /\ (row'.marked /\ row'.token = valid => Complained)
      <3>1. CASE row' = row
        BY <1>a, <2>1, <3>1 DEF Issued
      <3>2. CASE row' = Renewed(acct[w])
        BY <2>1, <2>2, <3>2 DEF Issued, Renewed
      <3>3. CASE row' = [Renewed(acct[w]) EXCEPT !.version = acct[w].version]
        BY <2>1, <2>2, <3>3 DEF Issued, Renewed
      <3> QED BY <2>1, <3>1, <3>2, <3>3
    <2>4. /\ \A v \in Workers \ {w} : pc'[v] = pc[v] /\ acct'[v] = acct[v]
          /\ acct'[w] \in {acct[w], row'}
          /\ pc'[w] \in {"idle", "invalidate"} \/ (pc'[w] = "release" /\ w \notin Admins)
      BY <1>a, <2>1 DEF Goto
    <2>5. Plain(w)
      BY <1>a, <2>1, <2>4 DEF Plain, ManualLabels
    <2> QED BY <1>0, <2>1, <2>3, <2>4, <2>5, TracedPlain
  <1>6. ASSUME NEW w \in Workers, StartCycle(w) \/ StartRequest(w) \/ GetCached(w)
        PROVE  Traced'
    <2>1. /\ UNCHANGED <<row, valid, unauthorized, expired>>
          /\ pc[w] = "get" \/ w \in Refreshers \cup Providers
          /\ \E l \in {"mutex", "get", "serve", "check"} : Goto(w, l)
          /\ given' = given \/ given' = [given EXCEPT ![w] = row]
          /\ acct' = acct \/ acct' = [acct EXCEPT ![w] = given[w]]
          /\ rounds' = rounds \/ rounds' = [rounds EXCEPT ![w] = @ + 1]
      BY <1>6 DEF StartCycle, StartRequest, GetCached
    <2>2. /\ \A v \in Workers \ {w} :
               pc'[v] = pc[v] /\ given'[v] = given[v] /\ acct'[v] = acct[v] /\ rounds'[v] = rounds[v]
          /\ pc'[w] \in {"mutex", "get", "serve", "check"}
          /\ given'[w] \in {given[w], row} /\ acct'[w] \in {acct[w], given[w]}
          /\ rounds'[w] \in {rounds[w], rounds[w] + 1} /\ rounds[w] \in Nat
      BY <1>a, <2>1 DEF Goto
    <2>3. w \notin Admins
      BY <1>a, <2>1, RefreshConstants DEF ManualLabels
    <2>4. Plain(w)
      BY <2>1, <2>2, <2>3 DEF Plain
    <2> QED BY <1>0, <1>a, <2>1, <2>2, <2>4, TracedPlain
  <1>7. ASSUME NEW w \in Workers, ForgetToken(w) \/ MarkExpired(w)
        PROVE  Traced'
    <2>1. /\ UNCHANGED <<valid, unauthorized, expired, given, acct, rounds>>
          /\ pc[w] \in {"forget", "mark"}
          /\ (row' = row /\ Goto(w, "mark"))
               \/ (row' \in {row, [given[w] EXCEPT !.marked = TRUE]} /\ Goto(w, "idle"))
      BY <1>7 DEF ForgetToken, MarkExpired
    <2>2. Issued(row') /\ (row'.marked /\ row'.token = valid => Complained)
      <3>1. CASE row' = row
        BY <1>a, <2>1, <3>1 DEF Issued
      <3>2. CASE row' = [given[w] EXCEPT !.marked = TRUE]
        <4>1. given[w] \in Copies /\ Issued(given[w])
          BY <1>a DEF Traced, Copied
        <4>2. row'.token = given[w].token /\ row'.version = given[w].version
          BY <3>2, <4>1 DEF Copies
        <4> QED BY <2>1, <4>1, <4>2 DEF Issued, Complained
      <3> QED BY <2>1, <3>1, <3>2
    <2>3. /\ \A v \in Workers \ {w} : pc'[v] = pc[v]
          /\ pc'[w] \in {"mark", "idle"}
      BY <1>a, <2>1 DEF Goto
    <2>4. w \notin Admins /\ rounds[w] \in Nat
      BY <1>a, <2>1 DEF ManualLabels
    <2>5. Plain(w)
      BY <2>1, <2>3, <2>4 DEF Plain
    <2> QED BY <1>0, <2>1, <2>2, <2>3, <2>5, TracedPlain
  <1>8. ASSUME NEW i \in Instances, Crash(i)
        PROVE  Traced'
    <2>1. /\ UNCHANGED <<row, valid, unauthorized, expired, given, acct, rounds>>
          /\ \A v \in Workers : pc'[v] \in {pc[v], "idle"}
      BY <1>8 DEF Crash
    <2>2. \A v \in Workers : Plain(v)
      BY <2>1 DEF Plain
    <2>3. expired' >= expired
      BY <2>1 DEF Traced, OtherTypes
    <2> QED BY <1>0, <1>a, <2>1, <2>2, <2>3, PlainStep
  <1>9. ASSUME \/ Expire \/ LockExpires \/ CacheExpires \/ UNCHANGED vars
               \/ \E w \in Workers : Disconnect(w)
        PROVE  Traced'
    <2>1. /\ UNCHANGED <<row, valid, unauthorized, given, acct, rounds, pc>>
          /\ expired' = expired \/ (expired < row.token /\ expired' = row.token)
      BY <1>9 DEF Expire, LockExpires, CacheExpires, vars, Disconnect
    <2>2. expired' >= expired
      BY <1>a, <2>1 DEF Traced, OtherTypes, Copies
    <2>3. \A v \in Workers : Plain(v)
      BY <2>1 DEF Plain
    <2> QED BY <1>0, <1>a, <2>1, <2>2, <2>3, PlainStep
  <1> QED
    BY <1>0, <1>1, <1>2, <1>3, <1>4, <1>5, <1>6, <1>7, <1>8, <1>9,
       TracedUnauthorized, TracedStartManual
    DEF Next, RefreshStep, RefresherStep, ProviderStep, ManualStep, Starts

\* The trace holds in every reachable state.
LEMMA TracedHolds == Spec => [](Inv /\ Traced)
  <1>1. Init => Inv /\ Traced
    BY InvInit, TracedInit
  <1>2. (Inv /\ Traced) /\ [Next]_vars => (Inv /\ Traced)'
    BY InvNext, TracedNext
  <1> QED BY <1>1, <1>2, PTL DEF Spec

\* The variables keep their types, and the upstream gives no more tokens than their times,
\* the answers 401 and the administrators ask for: without one of these the refreshers and
\* requests never refresh a token again that is already new.
THEOREM TypeCorrect == Spec => []TypeOK
  <1>1. Inv /\ Traced => TypeOK
    BY TokenBound
  <1> QED BY <1>1, TracedHolds, PTL

=============================================================================
