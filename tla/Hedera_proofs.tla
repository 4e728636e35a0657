--------------------------- MODULE Hedera_proofs ---------------------------
(***************************************************************************)
(* Proofs about the Hedera side of the service.  HcsQueue and HcsTopic:    *)
(* for any receipts, any subset of them poisoned, any failure limit, cache *)
(* size, chunks and page size.  HederaRail: for any requests and any       *)
(* assignment of payments to them.                                         *)
(***************************************************************************)
EXTENDS HcsTopic, HederaRail, SequenceTheorems, FiniteSetTheorems, TLAPS

-----------------------------------------------------------------------------
(* Sequences without repetition                                             *)

Distinct(s) == \A i, j \in 1 .. Len(s) : s[i] = s[j] => i = j

LEMMA AppendToSet ==
    ASSUME NEW S, NEW s \in Seq(S), NEW e \in S
    PROVE  /\ Append(s, e) \in Seq(S) /\ Append(s, e) # <<>>
           /\ ToSet(Append(s, e)) = ToSet(s) \cup {e}
           /\ Distinct(s) /\ e \notin ToSet(s) => Distinct(Append(s, e))
           /\ Head(Append(s, e)) = IF s = <<>> THEN e ELSE Head(s)
<1> DEFINE a == Append(s, e)
<1>1. /\ a \in Seq(S) /\ a # <<>> /\ Len(a) = Len(s) + 1 /\ Len(s) \in Nat
      /\ \A i \in 1 .. Len(s) : a[i] = s[i]
      /\ a[Len(s) + 1] = e
      /\ DOMAIN s = 1 .. Len(s) /\ DOMAIN a = 1 .. Len(a)
  BY AppendProperties, LenProperties
<1>2. ToSet(a) = ToSet(s) \cup {e}
  BY <1>1 DEF ToSet
<1>3. Distinct(s) /\ e \notin ToSet(s) => Distinct(a)
  BY <1>1 DEF ToSet, Distinct
<1>4. Head(a) = IF s = <<>> THEN e ELSE Head(s)
  BY HeadTailAppend
<1> QED BY <1>1, <1>2, <1>3, <1>4

LEMMA TailToSet ==
    ASSUME NEW S, NEW s \in Seq(S), s # <<>>, Distinct(s)
    PROVE  /\ Tail(s) \in Seq(S) /\ Head(s) \in S
           /\ ToSet(Tail(s)) = ToSet(s) \ {Head(s)}
           /\ Head(s) \in ToSet(s)
           /\ Distinct(Tail(s))
<1> DEFINE t == Tail(s)
<1>1. /\ t \in Seq(S) /\ Head(s) \in S /\ Len(t) = Len(s) - 1
      /\ \A i \in 1 .. Len(t) : t[i] = s[i + 1]
      /\ Len(s) \in Nat \ {0} /\ DOMAIN s = 1 .. Len(s) /\ DOMAIN t = 1 .. Len(t)
      /\ Head(s) = s[1]
  BY HeadTailProperties, LenProperties, EmptySeq
<1>2. ToSet(t) \subseteq ToSet(s) \ {Head(s)}
  BY <1>1 DEF ToSet, Distinct
<1>3. ToSet(s) \ {Head(s)} \subseteq ToSet(t)
  <2> SUFFICES ASSUME NEW i \in 1 .. Len(s), s[i] # Head(s) PROVE s[i] \in ToSet(t)
    BY <1>1 DEF ToSet
  <2>1. i # 1 /\ i - 1 \in 1 .. Len(t)
    BY <1>1
  <2>2. t[i - 1] = s[i]
    BY <1>1, <2>1
  <2> QED BY <1>1, <2>1, <2>2 DEF ToSet
<1>4. Distinct(t)
  BY <1>1 DEF Distinct
<1> QED BY <1>1, <1>2, <1>3, <1>4 DEF ToSet

LEMMA RotatedKeeps ==
    ASSUME q \in Seq(Receipts), q # <<>>, Distinct(q)
    PROVE  /\ Rotated \in Seq(Receipts) /\ Rotated # <<>>
           /\ ToSet(Rotated) = ToSet(q)
           /\ Distinct(Rotated)
<1>1. /\ Tail(q) \in Seq(Receipts) /\ Head(q) \in Receipts /\ Head(q) \in ToSet(q)
      /\ ToSet(Tail(q)) = ToSet(q) \ {Head(q)} /\ Distinct(Tail(q))
  BY TailToSet
<1> DEFINE t == Tail(q)
           h == Head(q)
<1>2. t \in Seq(Receipts) /\ h \in Receipts /\ h \notin ToSet(t) /\ Distinct(t)
  BY <1>1
<1>3. /\ Append(t, h) \in Seq(Receipts) /\ Append(t, h) # <<>>
      /\ ToSet(Append(t, h)) = ToSet(t) \cup {h}
      /\ Distinct(Append(t, h))
  <2> HIDE DEF t, h
  <2> QED BY <1>2, AppendToSet
<1>4. ToSet(t) \cup {h} = ToSet(q)
  BY <1>1
<1> QED BY <1>3, <1>4 DEF Rotated

-----------------------------------------------------------------------------
(* Type correctness                                                         *)

LEMMA RememberType ==
    ASSUME done \in Seq(Receipts), NEW r \in Receipts
    PROVE  Remember(r) \in Seq(Receipts)
<1> USE QueueAssumption
<1>1. Forget(r) \in Seq(Receipts)
  <2>1. CASE r \notin ToSet(done)
    BY <2>1 DEF Forget
  <2>2. CASE r \in ToSet(done)
    <3> DEFINE i == CHOOSE k \in 1 .. Len(done) : done[k] = r
    <3>1. Len(done) \in Nat /\ \A k \in 1 .. Len(done) : done[k] \in Receipts
      BY LenProperties, ElementOfSeq
    <3>2. i \in 1 .. Len(done)
      BY <2>2, LenProperties DEF ToSet
    <3> HIDE DEF i
    <3>a. /\ i - 1 \in Int /\ i + 1 \in Int
          /\ \A k \in 1 .. i - 1 : done[k] \in Receipts
          /\ \A k \in i + 1 .. Len(done) : done[k] \in Receipts
      BY <3>1, <3>2
    <3>3. SubSeq(done, 1, i - 1) \in Seq(Receipts) /\ SubSeq(done, i + 1, Len(done)) \in Seq(Receipts)
      BY <3>1, <3>a, SubSeqProperties
    <3>4. Forget(r) = SubSeq(done, 1, i - 1) \o SubSeq(done, i + 1, Len(done))
      BY <2>2 DEF Forget, RemoveAt, i
    <3> QED BY <3>3, <3>4, ConcatProperties
  <2> QED BY <2>1, <2>2
<1> DEFINE kept == Forget(r)
<1>2. Len(kept) \in Nat /\ \A k \in 1 .. Len(kept) : kept[k] \in Receipts
  BY <1>1, LenProperties, ElementOfSeq
<1>3. CASE Len(kept) < DoneMax
  BY <1>1, <1>3, AppendProperties DEF Remember
<1>4. CASE ~(Len(kept) < DoneMax)
  <2>1. SubSeq(kept, Len(kept) - DoneMax + 2, Len(kept)) \in Seq(Receipts)
    BY <1>2, <1>4, SubSeqProperties
  <2> QED BY <1>4, <2>1, AppendProperties DEF Remember
<1> QED BY <1>3, <1>4

LEMMA LoopType ==
    ASSUME drain \in [Drains -> Activation], NEW d \in Drains,
           NEW queue \in Seq(Receipts), NEW fails \in 0 .. MaxFailures - 1,
           Loop(d, queue, fails)
    PROVE  drain' \in [Drains -> Activation] /\ running' \in BOOLEAN
<1>1. queue # <<>> => Head(queue) \in Receipts
  BY HeadTailProperties
<1>2. Idle \in Activation
  BY QueueAssumption DEF Idle, Activation
<1> QED BY <1>1, <1>2 DEF Loop, Activation

LEMMA RestingType ==
    ASSUME drain \in [Drains -> Activation], NEW d \in Drains
    PROVE  [at |-> "sleeping", head |-> NoReceipt,
            fails |-> IF drain[d].fails + 1 >= MaxFailures THEN 0 ELSE drain[d].fails + 1]
              \in Activation
<1>1. drain[d].fails \in 0 .. MaxFailures - 1
  BY DEF Activation
<1> QED BY <1>1, QueueAssumption DEF Activation

\* The initial state and every step respect the types of the variables.
THEOREM TypeCorrect == Spec => []TypeOK
<1> USE QueueAssumption
<1>1. Init => TypeOK
  <2> SUFFICES ASSUME Init PROVE TypeOK
    OBVIOUS
  <2>1. q \in Seq(Receipts) /\ done \in Seq(Receipts) /\ log \in Seq(Receipts)
    BY EmptySeq DEF Init
  <2>2. drain \in [Drains -> Activation]
    <3>1. Idle \in Activation
      BY DEF Idle, Activation
    <3> QED BY <3>1 DEF Init
  <2>3. accepted \subseteq Receipts /\ lost \subseteq Receipts
    BY DEF Init
  <2>4. restarts \in Nat /\ running \in BOOLEAN
    BY DEF Init
  <2> QED BY <2>1, <2>2, <2>3, <2>4 DEF TypeOK
<1>2. TypeOK /\ [Next]_vars => TypeOK'
  <2> SUFFICES ASSUME TypeOK, [Next]_vars PROVE TypeOK'
    OBVIOUS
  <2> USE DEF TypeOK
  <2>1. ASSUME NEW r \in Receipts, EnqueueOnly(r) PROVE TypeOK'
    BY <2>1, AppendProperties DEF EnqueueOnly
  <2>2. ASSUME NEW r \in Receipts, NEW d \in Drains, EnqueueAndDrain(r, d) PROVE TypeOK'
    <3>1. q' \in Seq(Receipts) /\ Loop(d, q', 0) /\ 0 \in 0 .. MaxFailures - 1
      BY <2>2, AppendProperties DEF EnqueueAndDrain
    <3>2. drain' \in [Drains -> Activation] /\ running' \in BOOLEAN
      BY <3>1, LoopType
    <3> QED BY <2>2, <3>1, <3>2 DEF EnqueueAndDrain
  <2>3. ASSUME NEW d \in Drains, NEW r \in Receipts, SubmitOk(d, r) PROVE TypeOK'
    <3>1. q' \in Seq(Receipts) /\ Loop(d, q', 0) /\ 0 \in 0 .. MaxFailures - 1
      BY <2>3, HeadTailProperties DEF SubmitOk, Shifted
    <3>2. drain' \in [Drains -> Activation] /\ running' \in BOOLEAN
      BY <3>1, LoopType
    <3>3. log' \in Seq(Receipts) /\ done' \in Seq(Receipts)
      BY <2>3, AppendProperties, RememberType DEF SubmitOk
    <3> QED BY <2>3, <3>1, <3>2, <3>3 DEF SubmitOk
  <2>4. ASSUME NEW d \in Drains, SubmitFails(d) PROVE TypeOK'
    <3>1. Len(q) > 1 => Rotated \in Seq(Receipts)
      <4> SUFFICES ASSUME Len(q) > 1 PROVE Rotated \in Seq(Receipts)
        OBVIOUS
      <4>1. q # <<>>
        BY EmptySeq
      <4>2. Tail(q) \in Seq(Receipts) /\ Head(q) \in Receipts
        BY <4>1, HeadTailProperties
      <4> QED BY <4>2, AppendProperties DEF Rotated
    <3>2. q' \in Seq(Receipts)
      BY <2>4, <3>1 DEF SubmitFails
    <3>3. drain' \in [Drains -> Activation]
      BY <2>4, RestingType DEF SubmitFails
    <3> QED BY <2>4, <3>2, <3>3 DEF SubmitFails
  <2>5. ASSUME NEW d \in Drains, Wake(d) PROVE TypeOK'
    <3>1. Loop(d, q, drain[d].fails) /\ drain[d].fails \in 0 .. MaxFailures - 1
      BY <2>5 DEF Wake, Activation
    <3>2. drain' \in [Drains -> Activation] /\ running' \in BOOLEAN
      BY <3>1, LoopType
    <3> QED BY <2>5, <3>2 DEF Wake
  <2>6. CASE Restart
    <3>1. ToSet(q) \subseteq Receipts
      BY LenProperties, ElementOfSeq DEF ToSet
    <3>2. Idle \in Activation
      BY DEF Idle, Activation
    <3>3. drain' \in [Drains -> Activation]
      BY <2>6, <3>2 DEF Restart
    <3>4. q' \in Seq(Receipts) /\ done' \in Seq(Receipts)
      BY <2>6, EmptySeq DEF Restart
    <3>5. lost' \subseteq Receipts /\ restarts' \in Nat
      BY <2>6, <3>1 DEF Restart
    <3> QED BY <2>6, <3>3, <3>4, <3>5 DEF Restart
  <2>7. CASE UNCHANGED vars
    BY <2>7 DEF vars
  <2> QED BY <2>1, <2>2, <2>3, <2>4, <2>5, <2>6, <2>7 DEF Next
<1> QED BY <1>1, <1>2, PTL DEF Spec

-----------------------------------------------------------------------------
(* One drain, and no receipt dropped                                        *)

QueueInv == TypeOK /\ OneDrainOwnsTheHead /\ NothingDropped

\* After the loop's head step of the only active drain, or of a first one, there
\* is one drain, on the head of the queue it found.
LEMMA LoopOwns ==
    ASSUME TypeOK, NEW d \in Drains, NEW fails, NEW queue,
           q' = queue, Loop(d, queue, fails),
           \A c \in Drains : Active(c) => c = d
    PROVE  OneDrainOwnsTheHead'
<1>1. \A c \in Drains \ {d} : drain'[c].at = "off"
  BY DEF Loop, TypeOK, Active
<1>2. CASE queue = <<>>
  BY <1>1, <1>2 DEF Loop, TypeOK, Active, OneDrainOwnsTheHead, Idle
<1>3. CASE queue # <<>>
  <2>1. drain'[d].at = "submitting" /\ drain'[d].head = Head(queue) /\ running'
    BY <1>3 DEF Loop, TypeOK
  <2> QED BY <1>1, <1>3, <2>1 DEF Active, OneDrainOwnsTheHead
<1> QED BY <1>2, <1>3

\* A new receipt at the back.
LEMMA EnqueueKeeps ==
    ASSUME TypeOK, NothingDropped, NEW r \in Receipts, r \notin accepted,
           accepted' = accepted \cup {r}, q' = Append(q, r), UNCHANGED <<log, lost>>
    PROVE  NothingDropped'
<1>1. /\ ToSet(q') = ToSet(q) \cup {r}
      /\ Distinct(q) /\ r \notin ToSet(q) => Distinct(q')
  BY AppendToSet DEF TypeOK
<1> QED BY <1>1 DEF NothingDropped, Distinct

LEMMA QueueInvariant == Spec => []QueueInv
<1> USE QueueAssumption
<1>1. Init => OneDrainOwnsTheHead /\ NothingDropped
  <2> SUFFICES ASSUME Init PROVE OneDrainOwnsTheHead /\ NothingDropped
    OBVIOUS
  <2>1. ToSet(<<>>) = {} /\ Len(<<>>) = 0
    BY DEF ToSet
  <2> QED BY <2>1 DEF Init, OneDrainOwnsTheHead, NothingDropped, Active, Idle
<1>2. TypeOK /\ TypeOK' /\ OneDrainOwnsTheHead /\ NothingDropped /\ [Next]_vars
         => (OneDrainOwnsTheHead /\ NothingDropped)'
  <2> SUFFICES ASSUME TypeOK, TypeOK', OneDrainOwnsTheHead, NothingDropped, [Next]_vars
               PROVE  (OneDrainOwnsTheHead /\ NothingDropped)'
    OBVIOUS
  <2>d. Distinct(q) /\ Distinct(log)
    BY DEF NothingDropped, Distinct
  <2>1. ASSUME NEW r \in Receipts, EnqueueOnly(r)
        PROVE  (OneDrainOwnsTheHead /\ NothingDropped)'
    <3>1. NothingDropped'
      BY <2>1, EnqueueKeeps DEF EnqueueOnly
    <3>2. Head(q') = Head(q) /\ q' # <<>> /\ q # <<>>
      BY <2>1, AppendToSet DEF EnqueueOnly, OneDrainOwnsTheHead, TypeOK
    <3> QED BY <2>1, <3>1, <3>2 DEF EnqueueOnly, OneDrainOwnsTheHead, Active
  <2>2. ASSUME NEW r \in Receipts, NEW d \in Drains, EnqueueAndDrain(r, d)
        PROVE  (OneDrainOwnsTheHead /\ NothingDropped)'
    <3>1. NothingDropped'
      BY <2>2, EnqueueKeeps DEF EnqueueAndDrain
    <3>2. \A c \in Drains : Active(c) => c = d
      BY <2>2 DEF EnqueueAndDrain, OneDrainOwnsTheHead
    <3> QED BY <2>2, <3>1, <3>2, LoopOwns DEF EnqueueAndDrain
  <2>3. ASSUME NEW d \in Drains, NEW r \in Receipts, SubmitOk(d, r)
        PROVE  (OneDrainOwnsTheHead /\ NothingDropped)'
    <3>1. q # <<>> /\ r = Head(q) /\ \A c \in Drains : Active(c) => c = d
      BY <2>3 DEF SubmitOk, OneDrainOwnsTheHead, Active
    <3>2. q' = Tail(q) /\ log' = Append(log, r) /\ UNCHANGED <<accepted, lost>>
      BY <2>3, <3>1 DEF SubmitOk, Shifted
    <3>3. OneDrainOwnsTheHead'
      BY <2>3, <3>1, LoopOwns DEF SubmitOk
    <3>4. ToSet(q') = ToSet(q) \ {r} /\ r \in ToSet(q) /\ Distinct(q')
      BY <3>1, <3>2, <2>d, TailToSet DEF TypeOK
    <3>5. r \notin ToSet(log)
      BY <3>4 DEF NothingDropped
    <3>6. ToSet(log') = ToSet(log) \cup {r} /\ Distinct(log')
      BY <3>2, <3>5, <2>d, AppendToSet DEF TypeOK
    <3> QED BY <3>2, <3>3, <3>4, <3>5, <3>6 DEF NothingDropped, Distinct
  <2>4. ASSUME NEW d \in Drains, SubmitFails(d)
        PROVE  (OneDrainOwnsTheHead /\ NothingDropped)'
    <3>1. q # <<>> /\ \A c \in Drains : Active(c) => c = d
      BY <2>4 DEF SubmitFails, OneDrainOwnsTheHead, Active
    <3>2. ToSet(q') = ToSet(q) /\ Distinct(q') /\ q' # <<>>
      BY <2>4, <3>1, <2>d, RotatedKeeps DEF SubmitFails, TypeOK
    <3>3. /\ UNCHANGED <<running, log, accepted, lost>>
          /\ drain'[d].at = "sleeping"
          /\ \A c \in Drains \ {d} : drain'[c] = drain[c]
      BY <2>4 DEF SubmitFails, TypeOK
    <3>4. running
      BY <3>1 DEF OneDrainOwnsTheHead
    <3>5. OneDrainOwnsTheHead'
      BY <3>1, <3>2, <3>3, <3>4 DEF OneDrainOwnsTheHead, Active
    <3> QED BY <3>2, <3>3, <3>5 DEF NothingDropped, Distinct
  <2>5. ASSUME NEW d \in Drains, Wake(d)
        PROVE  (OneDrainOwnsTheHead /\ NothingDropped)'
    <3>1. \A c \in Drains : Active(c) => c = d
      BY <2>5 DEF Wake, OneDrainOwnsTheHead, Active
    <3>2. OneDrainOwnsTheHead'
      BY <2>5, <3>1, LoopOwns DEF Wake
    <3> QED BY <2>5, <3>2 DEF Wake, NothingDropped
  <2>6. CASE Restart
    <3>1. ToSet(<<>>) = {} /\ Len(<<>>) = 0
      BY DEF ToSet
    <3> QED BY <2>6, <3>1 DEF Restart, OneDrainOwnsTheHead, NothingDropped, Active, Idle
  <2>7. CASE UNCHANGED vars
    BY <2>7 DEF vars, OneDrainOwnsTheHead, NothingDropped, Active
  <2> QED BY <2>1, <2>2, <2>3, <2>4, <2>5, <2>6, <2>7 DEF Next
<1> QED BY <1>1, <1>2, TypeCorrect, PTL DEF Spec, QueueInv

\* Whatever enqueues fall into a drain's awaits, one drain runs, it runs when
\* something waits, and it shifts the receipt it submitted.
THEOREM SingleDrain == Spec => []OneDrainOwnsTheHead
<1>1. QueueInv => OneDrainOwnsTheHead
  BY DEF QueueInv
<1> QED BY <1>1, QueueInvariant, PTL

\* A receipt leaves the queue by a successful submit, or by a restart.
THEOREM Durable == Spec => []NothingDropped
<1>1. QueueInv => NothingDropped
  BY DEF QueueInv
<1> QED BY <1>1, QueueInvariant, PTL

-----------------------------------------------------------------------------
(* The queue implements the abstract log                                    *)

\* Every step of the queue is a step of CommitLog or leaves it where it was.
THEOREM Implements == Spec => ImplementsCommitLog
<1> DEFINE absVars == <<ToSet(q), ToSet(log)>>
<1>1. Init => Abstract!Init
  BY DEF Init, Abstract!Init, ToSet
<1>2. QueueInv /\ QueueInv' /\ [Next]_vars => [Abstract!Next]_absVars
  <2> SUFFICES ASSUME QueueInv, QueueInv', [Next]_vars PROVE [Abstract!Next]_absVars
    OBVIOUS
  <2> USE DEF QueueInv
  <2>1. ASSUME NEW r \in Receipts, r \notin accepted, q' = Append(q, r), log' = log
        PROVE  Abstract!Enqueue(r)
    <3>1. ToSet(q') = ToSet(q) \cup {r}
      BY <2>1, AppendToSet DEF TypeOK
    <3> QED BY <2>1, <3>1 DEF Abstract!Enqueue, NothingDropped
  <2>2. ASSUME NEW r \in Receipts, EnqueueOnly(r) PROVE Abstract!Enqueue(r)
    BY <2>1, <2>2 DEF EnqueueOnly
  <2>3. ASSUME NEW r \in Receipts, NEW d \in Drains, EnqueueAndDrain(r, d)
        PROVE  Abstract!Enqueue(r)
    BY <2>1, <2>3 DEF EnqueueAndDrain
  <2>4. ASSUME NEW d \in Drains, NEW r \in Receipts, SubmitOk(d, r)
        PROVE  Abstract!Commit(r)
    <3>1. q # <<>> /\ r = Head(q) /\ r \notin Poison
      BY <2>4 DEF SubmitOk, OneDrainOwnsTheHead
    <3>2. q' = Tail(q) /\ log' = Append(log, r)
      BY <2>4, <3>1 DEF SubmitOk, Shifted
    <3>3. ToSet(q') = ToSet(q) \ {r} /\ r \in ToSet(q)
      BY <3>1, <3>2, TailToSet DEF TypeOK, NothingDropped, Distinct
    <3>4. ToSet(log') = ToSet(log) \cup {r}
      BY <3>2, AppendToSet DEF TypeOK
    <3> QED BY <3>1, <3>3, <3>4 DEF Abstract!Commit
  <2>5. ASSUME NEW d \in Drains, SubmitFails(d) PROVE UNCHANGED absVars
    <3>1. q # <<>>
      BY <2>5 DEF SubmitFails, OneDrainOwnsTheHead
    <3>2. ToSet(q') = ToSet(q)
      BY <2>5, <3>1, RotatedKeeps DEF SubmitFails, TypeOK, NothingDropped, Distinct
    <3> QED BY <2>5, <3>2 DEF SubmitFails
  <2>6. ASSUME NEW d \in Drains, Wake(d) PROVE UNCHANGED absVars
    BY <2>6 DEF Wake
  <2>7. ASSUME Restart PROVE Abstract!Restart
    BY <2>7 DEF Restart, Abstract!Restart, ToSet
  <2>8. ASSUME UNCHANGED vars PROVE UNCHANGED absVars
    BY <2>8 DEF vars
  <2> QED
    BY <2>2, <2>3, <2>4, <2>5, <2>6, <2>7, <2>8 DEF Next, Abstract!Next
<1> QED BY <1>1, <1>2, QueueInvariant, PTL DEF Spec, ImplementsCommitLog, Abstract!Spec

\* The receipt being submitted waits at the head, and is not committed yet.
LEMMA Submitted ==
  ASSUME QueueInv, NEW d \in Drains, drain[d].at = "submitting"
  PROVE  /\ drain[d].head \in Receipts /\ drain[d].head # NoReceipt
         /\ drain[d].head \notin ToSet(log)
         /\ \A c \in Drains : drain[c].at = "submitting" => c = d
<1>1. q # <<>> /\ drain[d].head = Head(q) /\ q \in Seq(Receipts) /\ Distinct(q)
  BY DEF QueueInv, OneDrainOwnsTheHead, NothingDropped, TypeOK, Distinct
<1>2. Head(q) \in Receipts /\ Head(q) \in ToSet(q)
  BY <1>1, TailToSet
<1>3. Head(q) \notin ToSet(log)
  BY <1>2 DEF QueueInv, NothingDropped
<1> QED BY <1>1, <1>2, <1>3, QueueAssumption DEF QueueInv, OneDrainOwnsTheHead, Active

LEMMA Suffix ==
  ASSUME NEW S, NEW s \in Seq(S), NEW t \in Seq(S), Len(s) <= Len(t)
  PROVE  s = SubSeq(t, Len(t) - Len(s) + 1, Len(t))
         <=> \A i \in 1 .. Len(s) : s[i] = t[Len(t) - Len(s) + i]
<1> DEFINE b == Len(t) - Len(s) + 1
           u == SubSeq(t, b, Len(t))
<1>1. /\ Len(s) \in Nat /\ Len(t) \in Nat /\ b \in Int
      /\ \A i \in 1 .. Len(t) : t[i] \in S
  BY LenProperties, ElementOfSeq
<1>2. \A i \in b .. Len(t) : t[i] \in S
  BY <1>1
<1>a. b = Len(t) - Len(s) + 1
  OBVIOUS
<1> HIDE DEF b
<1>3. /\ u \in Seq(S) /\ Len(u) = IF b <= Len(t) THEN Len(t) - b + 1 ELSE 0
      /\ \A i \in 1 .. Len(t) - b + 1 : u[i] = t[b + i - 1]
  BY <1>1, <1>2, SubSeqProperties
<1> HIDE DEF u
<1>4. Len(u) = Len(s) /\ \A i \in 1 .. Len(s) : u[i] = t[Len(t) - Len(s) + i]
  BY <1>1, <1>a, <1>3
<1>5. s = u <=> \A i \in 1 .. Len(s) : s[i] = u[i]
  BY <1>3, <1>4, SeqEqual
<1> QED BY <1>4, <1>5 DEF u, b

LEMMA LatestNext ==
  ASSUME done' \in Seq(Receipts), log' \in Seq(Receipts), NEW N \in Nat, Len(log') = N,
         Len(done') <= DoneMax, Len(done') <= N,
         \A i \in 1 .. Len(done') : done'[i] = log'[N - Len(done') + i]
  PROVE  DoneIsLatest'
BY Suffix DEF DoneIsLatest

\* The map forgets the oldest commitment and nothing else.
LEMMA RememberLatest ==
  ASSUME TypeOK, DoneIsLatest, NEW r \in Receipts, r \notin ToSet(log),
         log' = Append(log, r), done' = Remember(r)
  PROVE  DoneIsLatest'
<1> USE QueueAssumption
<1> DEFINE D == Len(done)
           N == Len(log)
<1>1. /\ done \in Seq(Receipts) /\ log \in Seq(Receipts)
      /\ D \in Nat /\ N \in Nat
      /\ DOMAIN done = 1 .. D /\ DOMAIN log = 1 .. N
      /\ \A i \in 1 .. D : done[i] \in Receipts
  BY LenProperties, ElementOfSeq DEF TypeOK
<1>0. D \in Nat /\ N \in Nat /\ DoneMax \in Nat \ {0}
  BY <1>1
<1>2. D <= DoneMax /\ D <= N
  BY DEF DoneIsLatest
<1>3. \A i \in 1 .. D : done[i] = log[N - D + i]
  BY <1>1, <1>2, Suffix DEF DoneIsLatest
<1>4. /\ log' \in Seq(Receipts) /\ Len(log') = N + 1 /\ log'[N + 1] = r
      /\ \A i \in 1 .. N : log'[i] = log[i]
  BY <1>1, AppendProperties
<1>5. r \notin ToSet(done)
  <2>1. \A i \in 1 .. N : log[i] # r
    BY <1>1 DEF ToSet
  <2> HIDE DEF D, N
  <2>2. \A i \in 1 .. D : N - D + i \in 1 .. N
    BY <1>1, <1>2
  <2>3. \A i \in 1 .. D : done[i] # r
    BY <1>3, <2>1, <2>2
  <2> QED BY <1>1, <2>3 DEF ToSet
<1>6. done' = IF D < DoneMax THEN Append(done, r)
              ELSE Append(SubSeq(done, D - DoneMax + 2, D), r)
  BY <1>5 DEF Remember, Forget
<1>7. ASSUME done' \in Seq(Receipts), Len(done') <= DoneMax, Len(done') <= N + 1,
             \A i \in 1 .. Len(done') : done'[i] = log'[(N + 1) - Len(done') + i]
      PROVE  DoneIsLatest'
  <2> DEFINE M == N + 1
  <2>1. M \in Nat
    BY <1>0
  <2>2. Len(log') = M /\ Len(done') <= M
    BY <1>4, <1>7
  <2>3. \A i \in 1 .. Len(done') : done'[i] = log'[M - Len(done') + i]
    BY <1>7
  <2> HIDE DEF M
  <2> QED BY <1>4, <1>7, <2>1, <2>2, <2>3, LatestNext
<1>8. CASE D < DoneMax
  <2>1. /\ done' \in Seq(Receipts) /\ Len(done') = D + 1 /\ done'[D + 1] = r
        /\ \A i \in 1 .. D : done'[i] = done[i]
    BY <1>1, <1>6, <1>8, AppendProperties
  <2> HIDE DEF D, N
  <2>2. ASSUME NEW i \in 1 .. D + 1 PROVE done'[i] = log'[(N + 1) - (D + 1) + i]
    <3>1. CASE i = D + 1
      <4>1. (N + 1) - (D + 1) + i = N + 1
        BY <1>1, <3>1
      <4> QED BY <1>4, <2>1, <3>1, <4>1
    <3>2. CASE i \in 1 .. D
      <4>1. (N + 1) - (D + 1) + i = N - D + i /\ N - D + i \in 1 .. N
        BY <1>1, <1>2, <3>2
      <4> QED BY <1>3, <1>4, <2>1, <3>2, <4>1
    <3>3. i = D + 1 \/ i \in 1 .. D
      BY <1>0
    <3> QED BY <3>1, <3>2, <3>3
  <2>3. D + 1 <= DoneMax /\ D + 1 <= N + 1
    BY <1>0, <1>2, <1>8
  <2> QED BY <1>7, <2>1, <2>2, <2>3
<1>9. CASE ~(D < DoneMax)
  <2> DEFINE t == SubSeq(done, 2, D)
  <2>1. D = DoneMax /\ D - DoneMax + 2 = 2
    <3> HIDE DEF D
    <3> QED BY <1>1, <1>2, <1>9
  <2>2. done' = Append(t, r)
    BY <1>6, <1>9, <2>1
  <2>3. /\ t \in Seq(Receipts) /\ Len(t) = D - 1
        /\ \A i \in 1 .. D - 1 : t[i] = done[i + 1]
    <3>1. \A i \in 2 .. D : done[i] \in Receipts
      BY <1>1
    <3>2. /\ t \in Seq(Receipts)
          /\ Len(t) = IF 2 <= D THEN D - 2 + 1 ELSE 0
          /\ \A i \in 1 .. D - 2 + 1 : t[i] = done[2 + i - 1]
      BY <1>1, <3>1, SubSeqProperties
    <3> HIDE DEF t, D
    <3> QED BY <1>1, <2>1, <3>2
  <2> HIDE DEF t, D, N
  <2>4. /\ done' \in Seq(Receipts) /\ Len(done') = Len(t) + 1 /\ done'[Len(t) + 1] = r
        /\ \A i \in 1 .. Len(t) : done'[i] = t[i]
    BY <2>2, <2>3, AppendProperties
  <2>5. /\ Len(done') = D /\ done'[D] = r
        /\ \A i \in 1 .. D - 1 : done'[i] = done[i + 1]
    BY <1>1, <2>3, <2>4
  <2>6. ASSUME NEW i \in 1 .. D PROVE done'[i] = log'[(N + 1) - D + i]
    <3>1. CASE i = D
      <4>1. (N + 1) - D + i = N + 1
        BY <1>1, <3>1
      <4> QED BY <1>4, <2>5, <3>1, <4>1
    <3>2. CASE i \in 1 .. D - 1
      <4>1. /\ (N + 1) - D + i = N - D + (i + 1) /\ (N + 1) - D + i \in 1 .. N
            /\ i + 1 \in 1 .. D
        BY <1>0, <1>2, <3>2
      <4>2. done'[i] = done[i + 1] /\ done[i + 1] = log[N - D + (i + 1)]
        BY <1>3, <2>5, <3>2, <4>1
      <4>3. log'[(N + 1) - D + i] = log[(N + 1) - D + i]
        BY <1>4, <4>1
      <4> QED BY <4>1, <4>2, <4>3
    <3>3. i = D \/ i \in 1 .. D - 1
      BY <1>0
    <3> QED BY <3>1, <3>2, <3>3
  <2>7. D <= N + 1
    BY <1>0, <1>2
  <2> QED BY <1>2, <1>7, <2>4, <2>5, <2>6, <2>7
<1> QED BY <1>8, <1>9

\* The map of recent commits is always the end of the log: a commitment is
\* forgotten only when DoneMax newer ones are there, or by a restart.
THEOREM LatestRemembered == Spec => []DoneIsLatest
<1>1. Init => DoneIsLatest
  <2> SUFFICES ASSUME Init PROVE DoneIsLatest
    OBVIOUS
  <2>1. done = <<>> /\ log = <<>> /\ Len(<<>>) = 0
    BY EmptySeq DEF Init
  <2>2. SubSeq(<<>>, 1, 0) = <<>>
    BY SubSeqEmpty
  <2> QED BY <2>1, <2>2, QueueAssumption DEF DoneIsLatest
<1>2. QueueInv /\ DoneIsLatest /\ [Next]_vars => DoneIsLatest'
  <2> SUFFICES ASSUME QueueInv, DoneIsLatest, [Next]_vars PROVE DoneIsLatest'
    OBVIOUS
  <2>1. CASE UNCHANGED <<done, log>>
    BY <2>1 DEF DoneIsLatest
  <2>2. ASSUME NEW d \in Drains, NEW r \in Receipts, SubmitOk(d, r) PROVE DoneIsLatest'
    <3>1. TypeOK /\ r \notin ToSet(log)
      BY <2>2, Submitted DEF QueueInv, SubmitOk
    <3>2. log' = Append(log, r) /\ done' = Remember(r)
      BY <2>2 DEF SubmitOk
    <3> QED BY <3>1, <3>2, RememberLatest
  <2>3. CASE Restart
    <3>1. done' = <<>> /\ log' = log /\ Len(log) \in Nat /\ Len(<<>>) = 0
      BY <2>3, EmptySeq, LenProperties DEF Restart, QueueInv, TypeOK
    <3>2. SubSeq(log, Len(log) + 1, Len(log)) = <<>>
      BY <3>1, SubSeqEmpty
    <3>3. Len(log) - Len(<<>>) + 1 = Len(log) + 1
      BY <3>1
    <3> QED BY <3>1, <3>2, <3>3, QueueAssumption DEF DoneIsLatest
  <2> QED
    BY <2>1, <2>2, <2>3
       DEF Next, vars, EnqueueOnly, EnqueueAndDrain, SubmitFails, Wake
<1> QED BY <1>1, <1>2, QueueInvariant, PTL DEF Spec

-----------------------------------------------------------------------------
(* The topic                                                                *)

Message == [receipt: Receipts \cup {NoReceipt}, transaction: Nat \ {0}, number: 1 .. Chunks]

\* A commitment's chunks stand in the order of their numbers, with none missing
\* before any of them, and its transaction is the place of the first.
Shape ==
    /\ topic \in Seq(Message)
    /\ \A i \in 1 .. Len(topic) :
         /\ topic[i].transaction <= i
         /\ \A n \in 1 .. topic[i].number :
               \E j \in 1 .. i : topic[j] = [topic[i] EXCEPT !.number = n]
         /\ \A j \in 1 .. Len(topic) : topic[i].transaction = topic[j].transaction =>
               /\ topic[i].receipt = topic[j].receipt
               /\ i < j => topic[i].number < topic[j].number

\* A submit starts after the last chunk of the one before.
Serial ==
    \A i, j \in 1 .. Len(topic) :
        /\ topic[i].receipt # NoReceipt /\ topic[j].receipt # NoReceipt
        /\ topic[i].transaction < topic[j].transaction
        => i < topic[j].transaction

\* What has landed of the submit in flight is all there is of it, and it is the
\* newest commitment on the topic.
InFlight ==
    /\ landed \in Seq(Nat) /\ Len(landed) <= Chunks
    /\ landed # <<>> => \E d \in Drains : drain[d].at = "submitting"
    /\ \A d \in Drains : drain[d].at = "submitting" =>
         /\ \A k \in 1 .. Len(landed) :
               /\ landed[k] \in 1 .. Len(topic)
               /\ topic[landed[k]] = Chunk(drain[d].head, landed[1], k)
         /\ landed # <<>> => \A i \in 1 .. Len(topic) :
               /\ topic[i].transaction = landed[1] => topic[i].number <= Len(landed)
               /\ topic[i].receipt # NoReceipt => topic[i].transaction <= landed[1]

Newest(r, copy) ==
    copy \in Copies(r) /\ \A other \in Copies(r) : other.sequence <= copy.sequence

\* A successful submit returned the newest complete copy.
ResultsOk ==
    /\ ToSet(done) \subseteq ToSet(log)
    /\ DOMAIN results = ToSet(log)
    /\ \A r \in ToSet(log) : Newest(r, results[r])

TopicInv == Shape /\ Serial /\ InFlight /\ ResultsOk

\* Every step of the topic's specification is one of the queue's, or none.
THEOREM TopicImplements == TopicSpec => Init /\ [][Next]_vars
<1>1. TopicInit => Init
  BY DEF TopicInit
<1>2. [TopicNext]_<<vars, topicVars>> => [Next]_vars
  <2> SUFFICES ASSUME [TopicNext]_<<vars, topicVars>> PROVE [Next]_vars
    OBVIOUS
  <2>1. CASE Queueing
    BY <2>1 DEF Queueing, Next
  <2>2. CASE WriteForeign
    BY <2>2 DEF WriteForeign
  <2>3. ASSUME NEW d \in Drains, Land(d) PROVE [Next]_vars
    BY <2>3 DEF Land
  <2>4. ASSUME NEW d \in Drains, Fails(d) PROVE [Next]_vars
    BY <2>4 DEF Fails, Next
  <2>5. ASSUME NEW d \in Drains, NEW r \in Receipts, Succeeds(d, r) PROVE [Next]_vars
    BY <2>5 DEF Succeeds, Next
  <2>6. CASE TopicRestart
    BY <2>6 DEF TopicRestart, Next
  <2>7. CASE UNCHANGED <<vars, topicVars>>
    BY <2>7
  <2> QED BY <2>1, <2>2, <2>3, <2>4, <2>5, <2>6, <2>7 DEF TopicNext
<1> QED BY <1>1, <1>2, PTL DEF TopicSpec

LEMMA TopicQueue == TopicSpec => []QueueInv
BY TopicImplements, QueueInvariant, PTL DEF Spec

LEMMA TopicExtended ==
  ASSUME topic \in Seq(Message), NEW m \in Message, topic' = Append(topic, m)
  PROVE  /\ topic' \in Seq(Message)
         /\ Len(topic) \in Nat /\ Len(topic') = Len(topic) + 1
         /\ topic'[Len(topic) + 1] = m
         /\ \A i \in 1 .. Len(topic) : topic'[i] = topic[i] /\ topic[i] \in Message
         /\ DOMAIN topic = 1 .. Len(topic) /\ DOMAIN topic' = 1 .. Len(topic) + 1
BY AppendProperties, LenProperties, ElementOfSeq

\* Only its own messages make up the copies of a receipt's commitment.
LEMMA CopiesKept ==
  ASSUME topic \in Seq(Message), NEW m \in Message, topic' = Append(topic, m),
         NEW r \in Receipts, m.receipt # r
  PROVE  Copies(r)' = Copies(r)
<1>1. /\ Len(topic) \in Nat /\ topic'[Len(topic) + 1] = m
      /\ \A i \in 1 .. Len(topic) : topic'[i] = topic[i] /\ topic[i] \in Message
      /\ DOMAIN topic = 1 .. Len(topic) /\ DOMAIN topic' = 1 .. Len(topic) + 1
  BY TopicExtended
<1> DEFINE Whole(k) == /\ topic[k].receipt = r /\ topic[k].number = Chunks
                       /\ \A n \in 1 .. Chunks : \E j \in DOMAIN topic :
                             topic[j] = [topic[k] EXCEPT !.number = n]
           WholeNext(k) == /\ topic'[k].receipt = r /\ topic'[k].number = Chunks
                           /\ \A n \in 1 .. Chunks : \E j \in DOMAIN topic' :
                                 topic'[j] = [topic'[k] EXCEPT !.number = n]
<1>2. \A k \in DOMAIN topic' : WholeNext(k) <=> k \in DOMAIN topic /\ Whole(k)
  <2> SUFFICES ASSUME NEW k \in DOMAIN topic', topic'[k].receipt = r
               PROVE  WholeNext(k) <=> k \in DOMAIN topic /\ Whole(k)
    BY <1>1
  <2>1. k \in DOMAIN topic /\ topic'[k] = topic[k] /\ topic[k] \in Message
    BY <1>1
  <2>2. \A n \in 1 .. Chunks : [topic[k] EXCEPT !.number = n].receipt = r
    BY <2>1 DEF Message
  <2>3. \A n \in 1 .. Chunks :
           (\E j \in DOMAIN topic' : topic'[j] = [topic[k] EXCEPT !.number = n])
           <=> (\E j \in DOMAIN topic : topic[j] = [topic[k] EXCEPT !.number = n])
    <3> SUFFICES ASSUME NEW n \in 1 .. Chunks
                 PROVE  (\E j \in DOMAIN topic' : topic'[j] = [topic[k] EXCEPT !.number = n])
                        <=> (\E j \in DOMAIN topic : topic[j] = [topic[k] EXCEPT !.number = n])
      OBVIOUS
    <3> DEFINE e == [topic[k] EXCEPT !.number = n]
    <3>1. e.receipt = r
      BY <2>2
    <3> HIDE DEF e
    <3>2. (\E j \in DOMAIN topic' : topic'[j] = e) <=> (\E j \in DOMAIN topic : topic[j] = e)
      BY <1>1, <3>1
    <3> QED BY <3>2 DEF e
  <2>4. WholeNext(k) <=> /\ topic[k].receipt = r /\ topic[k].number = Chunks
                         /\ \A n \in 1 .. Chunks : \E j \in DOMAIN topic' :
                               topic'[j] = [topic[k] EXCEPT !.number = n]
    <3> DEFINE Mates(e) == \A n \in 1 .. Chunks : \E j \in DOMAIN topic' :
                              topic'[j] = [e EXCEPT !.number = n]
    <3>1. WholeNext(k) <=> /\ topic'[k].receipt = r /\ topic'[k].number = Chunks
                           /\ Mates(topic'[k])
      OBVIOUS
    <3> HIDE DEF Mates, WholeNext
    <3>2. WholeNext(k) <=> /\ topic[k].receipt = r /\ topic[k].number = Chunks
                           /\ Mates(topic[k])
      BY <2>1, <3>1
    <3> QED BY <3>2 DEF Mates
  <2> QED BY <2>1, <2>3, <2>4, Zenon
<1>3. {k \in DOMAIN topic' : WholeNext(k)} = {k \in DOMAIN topic : Whole(k)}
  BY <1>1, <1>2
<1>4. \A k \in {j \in DOMAIN topic : Whole(j)} : topic'[k] = topic[k]
  BY <1>1
<1>5. Copies(r) = {[sequence |-> i, transaction |-> topic[i].transaction] :
                      i \in {k \in DOMAIN topic : Whole(k)}}
  BY DEF Copies
<1>6. Copies(r)' = {[sequence |-> i, transaction |-> topic'[i].transaction] :
                      i \in {k \in DOMAIN topic' : WholeNext(k)}}
  BY DEF Copies
<1> HIDE DEF Whole, WholeNext
<1> QED BY <1>3, <1>4, <1>5, <1>6

LEMMA RememberSet ==
  ASSUME done \in Seq(Receipts), NEW r \in Receipts
  PROVE  ToSet(Remember(r)) \subseteq ToSet(done) \cup {r}
<1> USE QueueAssumption
<1> DEFINE kept == Forget(r)
<1>1. kept \in Seq(Receipts) /\ ToSet(kept) \subseteq ToSet(done)
  <2>1. CASE r \notin ToSet(done)
    BY <2>1 DEF Forget
  <2>2. CASE r \in ToSet(done)
    <3> DEFINE i == CHOOSE k \in 1 .. Len(done) : done[k] = r
               a == SubSeq(done, 1, i - 1)
               b == SubSeq(done, i + 1, Len(done))
    <3>1. Len(done) \in Nat /\ DOMAIN done = 1 .. Len(done)
          /\ \A k \in 1 .. Len(done) : done[k] \in Receipts
      BY LenProperties, ElementOfSeq
    <3>2. i \in 1 .. Len(done)
      BY <2>2, <3>1 DEF ToSet
    <3>3. kept = a \o b
      BY <2>2 DEF Forget, RemoveAt
    <3> HIDE DEF i
    <3>4. /\ i - 1 \in Int /\ i + 1 \in Int
          /\ \A k \in 1 .. i - 1 : done[k] \in Receipts
          /\ \A k \in i + 1 .. Len(done) : done[k] \in Receipts
      BY <3>1, <3>2
    <3>5. /\ a \in Seq(Receipts) /\ Len(a) = i - 1
          /\ \A k \in 1 .. Len(a) : a[k] = done[k]
      BY <3>1, <3>2, <3>4, SubSeqProperties
    <3>b. /\ b \in Seq(Receipts)
          /\ Len(b) = IF i + 1 <= Len(done) THEN Len(done) - (i + 1) + 1 ELSE 0
          /\ \A k \in 1 .. Len(done) - (i + 1) + 1 : b[k] = done[(i + 1) + k - 1]
      BY <3>1, <3>4, SubSeqProperties
    <3>6. /\ b \in Seq(Receipts) /\ Len(b) = Len(done) - i
          /\ \A k \in 1 .. Len(b) : b[k] = done[i + k]
      <4> DEFINE D == Len(done)
      <4>1. D \in Nat /\ i \in 1 .. D
        BY <3>1, <3>2
      <4> HIDE DEF b, D
      <4>2. /\ (D - (i + 1)) + 1 = D - i /\ D - i \in Nat
            /\ (IF i + 1 <= D THEN (D - (i + 1)) + 1 ELSE 0) = D - i
            /\ \A k \in 1 .. D - i : (i + 1) + k - 1 = i + k
        BY <4>1
      <4>3. b \in Seq(Receipts) /\ Len(b) = D - i
        BY <3>b, <4>2 DEF D
      <4>4. \A k \in 1 .. D - i : b[k] = done[i + k]
        BY <3>b, <4>2 DEF D
      <4> QED BY <4>3, <4>4 DEF D
    <3> HIDE DEF a, b, kept
    <3>7. kept \in Seq(Receipts) /\ Len(kept) = Len(a) + Len(b)
          /\ \A k \in 1 .. Len(a) + Len(b) :
                kept[k] = IF k <= Len(a) THEN a[k] ELSE b[k - Len(a)]
      BY <3>3, <3>5, <3>6, ConcatProperties
    <3>8. \A k \in 1 .. Len(kept) : kept[k] \in ToSet(done)
      <4> SUFFICES ASSUME NEW k \in 1 .. Len(kept)
                   PROVE  \E j \in 1 .. Len(done) : kept[k] = done[j]
        BY <3>1 DEF ToSet
      <4>1. CASE k <= Len(a)
        BY <4>1, <3>1, <3>2, <3>5, <3>6, <3>7
      <4>2. CASE ~(k <= Len(a))
        <5>1. k - Len(a) \in 1 .. Len(b) /\ kept[k] = b[k - Len(a)]
          BY <4>2, <3>1, <3>2, <3>5, <3>6, <3>7
        <5>2. kept[k] = done[i + (k - Len(a))] /\ i + (k - Len(a)) \in 1 .. Len(done)
          BY <5>1, <3>1, <3>2, <3>6
        <5> QED BY <5>2
      <4> QED BY <4>1, <4>2
    <3>9. DOMAIN kept = 1 .. Len(kept)
      BY <3>7, LenProperties
    <3> QED BY <3>7, <3>8, <3>9 DEF ToSet
  <2> QED BY <2>1, <2>2
<1>2. Len(kept) \in Nat /\ DOMAIN kept = 1 .. Len(kept)
      /\ \A k \in 1 .. Len(kept) : kept[k] \in Receipts /\ kept[k] \in ToSet(done)
  BY <1>1, LenProperties, ElementOfSeq DEF ToSet
<1>3. Remember(r) = IF Len(kept) < DoneMax THEN Append(kept, r)
                    ELSE Append(SubSeq(kept, Len(kept) - DoneMax + 2, Len(kept)), r)
  BY DEF Remember
<1> HIDE DEF kept
<1>4. CASE Len(kept) < DoneMax
  <2>1. ToSet(Append(kept, r)) = ToSet(kept) \cup {r}
    BY <1>1, AppendToSet
  <2> QED BY <1>1, <1>3, <1>4, <2>1
<1>5. CASE ~(Len(kept) < DoneMax)
  <2> DEFINE b == Len(kept) - DoneMax + 2
             t == SubSeq(kept, b, Len(kept))
  <2>1. b \in Nat \ {0}
    BY <1>2, <1>5
  <2>a. b \in Int /\ \A k \in b .. Len(kept) : kept[k] \in Receipts
    BY <1>2, <2>1
  <2> HIDE DEF b
  <2>2. /\ t \in Seq(Receipts)
        /\ Len(t) = IF b <= Len(kept) THEN Len(kept) - b + 1 ELSE 0
        /\ \A k \in 1 .. Len(t) : t[k] = kept[b + k - 1]
    BY <1>2, <2>1, <2>a, SubSeqProperties
  <2> HIDE DEF t
  <2>3. ASSUME NEW k \in 1 .. Len(t) PROVE t[k] \in ToSet(done)
    <3> DEFINE n == Len(kept)
               l == Len(t)
    <3>1. n \in Nat /\ l = (IF b <= n THEN n - b + 1 ELSE 0) /\ k \in 1 .. l
      BY <1>2, <2>2
    <3>2. t[k] = kept[b + k - 1]
      BY <2>2
    <3> HIDE DEF n, l
    <3>3. b + k - 1 \in 1 .. n
      BY <2>1, <3>1
    <3> QED BY <1>2, <3>2, <3>3 DEF n
  <2>4. ToSet(t) \subseteq ToSet(done)
    BY <2>2, <2>3, LenProperties DEF ToSet
  <2>5. ToSet(Append(t, r)) = ToSet(t) \cup {r}
    BY <2>2, AppendToSet
  <2> QED BY <1>3, <1>5, <2>4, <2>5 DEF t, b
<1> QED BY <1>4, <1>5

\* A message keeps the shape of the topic if it is the next of its commitment.
LEMMA ShapeKept ==
  ASSUME Shape, NEW m \in Message, topic' = Append(topic, m),
         m.transaction <= Len(topic) + 1,
         \A n \in 1 .. m.number : \E j \in 1 .. Len(topic) + 1 :
            topic'[j] = [m EXCEPT !.number = n],
         \A i \in 1 .. Len(topic) : topic[i].transaction = m.transaction =>
            topic[i].receipt = m.receipt /\ topic[i].number < m.number
  PROVE  Shape'
<1> DEFINE N == Len(topic)
<1>1. /\ topic' \in Seq(Message) /\ N \in Nat /\ Len(topic') = N + 1
      /\ topic'[N + 1] = m
      /\ \A i \in 1 .. N : topic'[i] = topic[i] /\ topic[i] \in Message
  BY TopicExtended DEF Shape
<1> SUFFICES ASSUME NEW i \in 1 .. N + 1
             PROVE  /\ topic'[i].transaction <= i
                    /\ \A n \in 1 .. topic'[i].number :
                          \E j \in 1 .. i : topic'[j] = [topic'[i] EXCEPT !.number = n]
                    /\ \A j \in 1 .. N + 1 : topic'[i].transaction = topic'[j].transaction =>
                          /\ topic'[i].receipt = topic'[j].receipt
                          /\ i < j => topic'[i].number < topic'[j].number
  BY <1>1 DEF Shape
<1> HIDE DEF N
<1>2. CASE i = N + 1
  <2>1. topic'[i] = m
    BY <1>1, <1>2
  <2>2. \A n \in 1 .. m.number : \E j \in 1 .. i : topic'[j] = [m EXCEPT !.number = n]
    BY <1>2 DEF N
  <2>3. \A j \in 1 .. N + 1 : topic'[j].transaction = m.transaction => topic'[j].receipt = m.receipt
    <3> SUFFICES ASSUME NEW j \in 1 .. N + 1, topic'[j].transaction = m.transaction
                 PROVE  topic'[j].receipt = m.receipt
      OBVIOUS
    <3>1. CASE j = N + 1
      BY <1>1, <3>1
    <3>2. CASE j \in 1 .. N
      BY <1>1, <3>2 DEF N
    <3> QED BY <1>1, <3>1, <3>2
  <2> QED BY <1>1, <1>2, <2>1, <2>2, <2>3 DEF N
<1>3. CASE i \in 1 .. N
  <2>1. topic'[i] = topic[i] /\ topic[i] \in Message
    BY <1>1, <1>3
  <2>2. topic[i].transaction <= i
    BY <1>3 DEF Shape, N
  <2>3. \A n \in 1 .. topic[i].number : \E j \in 1 .. i : topic[j] = [topic[i] EXCEPT !.number = n]
    BY <1>3 DEF Shape, N
  <2>4. \A j \in 1 .. i : topic'[j] = topic[j]
    BY <1>1, <1>3
  <2>5. \A n \in 1 .. topic[i].number : \E j \in 1 .. i : topic'[j] = [topic[i] EXCEPT !.number = n]
    <3> SUFFICES ASSUME NEW n \in 1 .. topic[i].number
                 PROVE  \E j \in 1 .. i : topic'[j] = [topic[i] EXCEPT !.number = n]
      OBVIOUS
    <3>1. PICK j \in 1 .. i : topic[j] = [topic[i] EXCEPT !.number = n]
      BY <2>3
    <3> QED BY <2>4, <3>1
  <2>6. \A j \in 1 .. N + 1 : topic[i].transaction = topic'[j].transaction =>
           /\ topic[i].receipt = topic'[j].receipt
           /\ i < j => topic[i].number < topic'[j].number
    <3> SUFFICES ASSUME NEW j \in 1 .. N + 1, topic[i].transaction = topic'[j].transaction
                 PROVE  /\ topic[i].receipt = topic'[j].receipt
                        /\ i < j => topic[i].number < topic'[j].number
      OBVIOUS
    <3>1. CASE j = N + 1
      BY <1>1, <1>3, <3>1 DEF N
    <3>2. CASE j \in 1 .. N
      BY <1>1, <1>3, <3>2 DEF N, Shape
    <3> QED BY <1>1, <3>1, <3>2
  <2> DEFINE Right(e) ==
         /\ e.transaction <= i
         /\ \A n \in 1 .. e.number : \E j \in 1 .. i : topic'[j] = [e EXCEPT !.number = n]
         /\ \A j \in 1 .. N + 1 : e.transaction = topic'[j].transaction =>
               /\ e.receipt = topic'[j].receipt
               /\ i < j => e.number < topic'[j].number
  <2>7. Right(topic[i])
    BY <2>2, <2>5, <2>6
  <2>8. Right(topic'[i])
    <3> HIDE DEF Right
    <3> QED BY <2>1, <2>7
  <2> QED BY <2>8
<1> QED BY <1>1, <1>2, <1>3

LEMMA SerialKept ==
  ASSUME Shape, Serial, NEW m \in Message, topic' = Append(topic, m),
         m.receipt # NoReceipt =>
            \A i \in 1 .. Len(topic) : topic[i].receipt # NoReceipt =>
               /\ topic[i].transaction <= m.transaction
               /\ topic[i].transaction < m.transaction => i < m.transaction
  PROVE  Serial'
<1> DEFINE N == Len(topic)
<1>1. /\ N \in Nat /\ Len(topic') = N + 1 /\ topic'[N + 1] = m
      /\ \A i \in 1 .. N : topic'[i] = topic[i] /\ topic[i] \in Message
  BY TopicExtended DEF Shape
<1> SUFFICES ASSUME NEW i \in 1 .. N + 1, NEW j \in 1 .. N + 1,
                    topic'[i].receipt # NoReceipt, topic'[j].receipt # NoReceipt,
                    topic'[i].transaction < topic'[j].transaction
             PROVE  i < topic'[j].transaction
  BY <1>1 DEF Serial
<1> HIDE DEF N
<1>2. CASE i \in 1 .. N /\ j \in 1 .. N
  BY <1>1, <1>2 DEF Serial, N
<1>3. CASE i \in 1 .. N /\ j = N + 1
  BY <1>1, <1>3 DEF N
<1>4. CASE i = N + 1 /\ j \in 1 .. N
  <2>1. topic[j].transaction <= m.transaction
    BY <1>1, <1>4 DEF N
  <2>2. m.transaction < topic[j].transaction
    BY <1>1, <1>4
  <2>3. m.transaction \in Nat /\ topic[j].transaction \in Nat
    BY <1>1, <1>4 DEF Message
  <2> QED BY <2>1, <2>2, <2>3
<1>5. CASE i = N + 1 /\ j = N + 1
  BY <1>1, <1>5 DEF Message
<1> QED BY <1>1, <1>2, <1>3, <1>4, <1>5

LEMMA ResultsKept ==
  ASSUME topic \in Seq(Message), NEW m \in Message, topic' = Append(topic, m),
         m.receipt \notin ToSet(log), ToSet(log) \subseteq Receipts,
         ResultsOk, UNCHANGED <<done, log, results>>
  PROVE  ResultsOk'
<1>1. ASSUME NEW r \in ToSet(log) PROVE Newest(r, results[r])'
  <2>1. Copies(r)' = Copies(r)
    BY <1>1, CopiesKept
  <2> QED BY <1>1, <2>1 DEF Newest, ResultsOk
<1> QED BY <1>1 DEF ResultsOk

LEMMA ForeignKeeps ==
  ASSUME QueueInv, TopicInv, WriteForeign
  PROVE  TopicInv'
<1> USE QueueAssumption, TopicAssumption
<1> DEFINE N == Len(topic)
           m == Chunk(NoReceipt, N + 1, 1)
<1>1. topic \in Seq(Message) /\ N \in Nat /\ topic' = Append(topic, m)
  BY LenProperties DEF TopicInv, Shape, WriteForeign
<1>2. /\ m \in Message /\ m.receipt = NoReceipt /\ m.transaction = N + 1 /\ m.number = 1
      /\ m = [m EXCEPT !.number = 1]
  BY <1>1 DEF Chunk, Message
<1>3. ToSet(log) \subseteq Receipts
  BY LenProperties, ElementOfSeq DEF QueueInv, TypeOK, ToSet
<1> HIDE DEF m
<1>4. /\ Len(topic') = N + 1 /\ topic'[N + 1] = m
      /\ \A i \in 1 .. N : topic'[i] = topic[i] /\ topic[i] \in Message
  BY <1>1, <1>2, TopicExtended
<1>5. Shape'
  <2>1. \A i \in 1 .. N : topic[i].transaction # m.transaction
    BY <1>1, <1>2, <1>4 DEF TopicInv, Shape, Message
  <2>2. \A n \in 1 .. m.number : topic'[N + 1] = [m EXCEPT !.number = n]
    BY <1>2, <1>4
  <2>3. m.transaction <= N + 1
    BY <1>1, <1>2
  <2> QED BY <1>1, <1>2, <2>1, <2>2, <2>3, ShapeKept DEF TopicInv
<1>6. Serial'
  BY <1>1, <1>2, SerialKept DEF TopicInv
<1>7. InFlight'
  <2>1. UNCHANGED <<landed, drain>>
    BY DEF WriteForeign, vars
  <2>2. ASSUME NEW d \in Drains, drain[d].at = "submitting"
        PROVE  /\ \A k \in 1 .. Len(landed) :
                     /\ landed[k] \in 1 .. N + 1
                     /\ topic'[landed[k]] = Chunk(drain[d].head, landed[1], k)
               /\ landed # <<>> => \A i \in 1 .. N + 1 :
                     /\ topic'[i].transaction = landed[1] => topic'[i].number <= Len(landed)
                     /\ topic'[i].receipt # NoReceipt => topic'[i].transaction <= landed[1]
    <3>1. \A k \in 1 .. Len(landed) :
             landed[k] \in 1 .. N /\ topic[landed[k]] = Chunk(drain[d].head, landed[1], k)
      BY <2>2 DEF TopicInv, InFlight
    <3>2. ASSUME landed # <<>>, NEW i \in 1 .. N + 1
          PROVE  /\ topic'[i].transaction = landed[1] => topic'[i].number <= Len(landed)
                 /\ topic'[i].receipt # NoReceipt => topic'[i].transaction <= landed[1]
      <4>1. landed[1] \in 1 .. N
        BY <3>1, <3>2, EmptySeq, LenProperties DEF TopicInv, InFlight
      <4>2. CASE i = N + 1
        BY <1>1, <1>2, <1>4, <4>1, <4>2
      <4>3. CASE i \in 1 .. N
        BY <1>4, <2>2, <3>2, <4>3 DEF TopicInv, InFlight
      <4> QED BY <1>1, <4>2, <4>3
    <3> QED BY <1>1, <1>4, <3>1, <3>2
  <2> QED BY <1>4, <2>1, <2>2 DEF TopicInv, InFlight
<1>8. ResultsOk'
  <2>1. UNCHANGED <<done, log, results>> /\ m.receipt \notin ToSet(log)
    BY <1>2, <1>3 DEF WriteForeign, vars
  <2> QED BY <1>1, <1>2, <1>3, <2>1, ResultsKept DEF TopicInv
<1> QED BY <1>5, <1>6, <1>7, <1>8 DEF TopicInv

LEMMA LandKeeps ==
  ASSUME QueueInv, TopicInv, NEW d \in Drains, Land(d)
  PROVE  TopicInv'
<1> USE QueueAssumption, TopicAssumption
<1> DEFINE N == Len(topic)
           L == Len(landed)
           r == drain[d].head
           first == IF landed = <<>> THEN N + 1 ELSE landed[1]
           m == Chunk(r, first, L + 1)
<1>1. /\ r \in Receipts /\ r # NoReceipt /\ r \notin ToSet(log)
      /\ drain[d].at = "submitting"
      /\ \A c \in Drains : drain[c].at = "submitting" => c = d
  <2>1. drain[d].at = "submitting"
    BY DEF Land
  <2> QED BY <2>1, Submitted
<1>2. topic \in Seq(Message) /\ N \in Nat /\ landed \in Seq(Nat) /\ L \in Nat /\ L < Chunks
  BY LenProperties DEF TopicInv, Shape, InFlight, Land
<1>3. /\ landed' = Append(landed, N + 1)
      /\ landed' \in Seq(Nat) /\ Len(landed') = L + 1 /\ landed' # <<>>
      /\ \A k \in 1 .. L : landed'[k] = landed[k]
      /\ landed'[L + 1] = N + 1
  BY <1>2, AppendProperties DEF Land
<1>4. landed # <<>> => /\ L >= 1 /\ landed[1] \in 1 .. N
                       /\ topic[landed[1]] = Chunk(r, landed[1], 1)
                       /\ \A i \in 1 .. N :
                            /\ topic[i].transaction = landed[1] => topic[i].number <= L
                            /\ topic[i].receipt # NoReceipt => topic[i].transaction <= landed[1]
  <2> SUFFICES ASSUME landed # <<>>
               PROVE  /\ L >= 1 /\ landed[1] \in 1 .. N
                      /\ topic[landed[1]] = Chunk(r, landed[1], 1)
                      /\ \A i \in 1 .. N :
                           /\ topic[i].transaction = landed[1] => topic[i].number <= L
                           /\ topic[i].receipt # NoReceipt => topic[i].transaction <= landed[1]
    OBVIOUS
  <2>1. L >= 1
    BY <1>2, EmptySeq, LenProperties
  <2> QED BY <1>1, <1>2, <2>1 DEF TopicInv, InFlight
<1>5. \A k \in 1 .. L : landed[k] \in 1 .. N /\ topic[landed[k]] = Chunk(r, landed[1], k)
  BY <1>1, <1>2 DEF TopicInv, InFlight
<1>6. landed = <<>> => L = 0
  BY <1>2, EmptySeq
<1>7. landed'[1] = first /\ first \in 1 .. N + 1
  BY <1>2, <1>3, <1>4, <1>6
<1>8. topic' = Append(topic, m)
  BY <1>7 DEF Land
<1>9. m \in Message /\ m.receipt = r /\ m.transaction = first /\ m.number = L + 1
  BY <1>1, <1>2, <1>7 DEF Chunk, Message
<1>10. \A k \in 1 .. L + 1 : [m EXCEPT !.number = k] = Chunk(r, first, k)
  BY DEF Chunk
<1> HIDE DEF m, first
<1>11. /\ Len(topic') = N + 1 /\ topic'[N + 1] = m
       /\ \A i \in 1 .. N : topic'[i] = topic[i] /\ topic[i] \in Message
  BY <1>2, <1>8, <1>9, TopicExtended
<1>12. \A k \in 1 .. L + 1 : landed'[k] \in 1 .. N + 1 /\ topic'[landed'[k]] = Chunk(r, first, k)
  <2> SUFFICES ASSUME NEW k \in 1 .. L + 1
               PROVE  landed'[k] \in 1 .. N + 1 /\ topic'[landed'[k]] = Chunk(r, first, k)
    OBVIOUS
  <2>1. CASE k = L + 1
    BY <1>2, <1>3, <1>11, <2>1 DEF m
  <2>2. CASE k \in 1 .. L
    <3>1. landed'[k] = landed[k] /\ landed[k] \in 1 .. N
      BY <1>3, <1>5, <2>2
    <3>2. topic'[landed[k]] = Chunk(r, landed[1], k)
      BY <1>5, <1>11, <3>1, <2>2
    <3>3. first = landed[1]
      BY <1>6, <2>2 DEF first
    <3> QED BY <1>2, <3>1, <3>2, <3>3
  <2> QED BY <1>2, <2>1, <2>2
<1>13. \A i \in 1 .. N : topic[i].transaction = first => topic[i].receipt = r /\ topic[i].number < L + 1
  <2> SUFFICES ASSUME NEW i \in 1 .. N, topic[i].transaction = first
               PROVE  topic[i].receipt = r /\ topic[i].number < L + 1
    OBVIOUS
  <2>1. topic[i].transaction <= i
    BY DEF TopicInv, Shape
  <2>2. landed # <<>>
    BY <1>2, <2>1 DEF first
  <2>3. first = landed[1]
    BY <2>2 DEF first
  <2>4. topic[landed[1]].transaction = landed[1] /\ topic[landed[1]].receipt = r
    BY <1>4, <2>2 DEF Chunk
  <2>5. topic[i].receipt = r
    BY <1>4, <2>2, <2>3, <2>4 DEF TopicInv, Shape
  <2>6. topic[i].number <= L /\ topic[i].number \in Nat
    BY <1>4, <1>11, <2>2, <2>3 DEF Message
  <2> QED BY <1>2, <2>5, <2>6
<1>14. \A i \in 1 .. N : topic[i].receipt # NoReceipt =>
          topic[i].transaction <= first /\ (topic[i].transaction < first => i < first)
  <2> SUFFICES ASSUME NEW i \in 1 .. N, topic[i].receipt # NoReceipt
               PROVE  topic[i].transaction <= first /\ (topic[i].transaction < first => i < first)
    OBVIOUS
  <2>1. topic[i].transaction <= i /\ topic[i].transaction \in Nat
    BY <1>11 DEF TopicInv, Shape, Message
  <2>2. CASE landed = <<>>
    BY <1>2, <2>1, <2>2 DEF first
  <2>3. CASE landed # <<>>
    <3>1. first = landed[1] /\ topic[first].transaction = first /\ topic[first].receipt = r
      BY <1>4, <2>3 DEF first, Chunk
    <3>2. topic[i].transaction <= first
      BY <1>4, <2>3, <3>1
    <3>3. topic[i].transaction < first => i < first
      BY <1>1, <1>4, <2>3, <3>1 DEF TopicInv, Serial
    <3> QED BY <3>2, <3>3
  <2> QED BY <2>2, <2>3
<1>15. Shape'
  <2>1. m.transaction <= N + 1
    BY <1>2, <1>7, <1>9
  <2>2. \A k \in 1 .. m.number : \E j \in 1 .. N + 1 : topic'[j] = [m EXCEPT !.number = k]
    BY <1>9, <1>10, <1>12
  <2> QED BY <1>8, <1>9, <1>13, <2>1, <2>2, ShapeKept DEF TopicInv
<1>16. Serial'
  BY <1>8, <1>9, <1>14, SerialKept DEF TopicInv
<1>17. InFlight'
  <2>1. UNCHANGED drain
    BY DEF Land, vars
  <2>2. ASSUME NEW i \in 1 .. N + 1
        PROVE  /\ topic'[i].transaction = first => topic'[i].number <= L + 1
               /\ topic'[i].receipt # NoReceipt => topic'[i].transaction <= first
    <3>1. CASE i = N + 1
      BY <1>2, <1>7, <1>9, <1>11, <3>1
    <3>2. CASE i \in 1 .. N
      <4>1. topic'[i] = topic[i] /\ topic[i].number \in Nat
        BY <1>11, <3>2 DEF Message
      <4>2. topic[i].transaction = first => topic[i].number <= L + 1
        BY <1>2, <1>13, <3>2, <4>1
      <4>3. topic[i].receipt # NoReceipt => topic[i].transaction <= first
        BY <1>14, <3>2
      <4> QED BY <4>1, <4>2, <4>3
    <3> QED BY <1>2, <3>1, <3>2
  <2>3. /\ Len(landed') <= Chunks /\ Len(landed') = L + 1
        /\ \E c \in Drains : drain'[c].at = "submitting"
    BY <1>1, <1>2, <1>3, <2>1
  <2>4. \A c \in Drains : drain'[c].at = "submitting" => drain'[c].head = r
    BY <1>1, <2>1
  <2> QED BY <1>3, <1>7, <1>11, <1>12, <2>2, <2>3, <2>4 DEF InFlight
<1>18. ResultsOk'
  <2>1. UNCHANGED <<done, log, results>>
    BY DEF Land, vars
  <2>2. ToSet(log) \subseteq Receipts
    BY LenProperties, ElementOfSeq DEF QueueInv, TypeOK, ToSet
  <2> QED BY <1>1, <1>2, <1>8, <1>9, <2>1, <2>2, ResultsKept DEF TopicInv
<1> QED BY <1>15, <1>16, <1>17, <1>18 DEF TopicInv

LEMMA SettledKeeps ==
  ASSUME Shape, Serial, UNCHANGED topic, landed' = <<>>
  PROVE  Shape' /\ Serial' /\ InFlight'
<1>1. landed' \in Seq(Nat) /\ Len(landed') = 0
  BY EmptySeq
<1> QED BY <1>1, TopicAssumption DEF Shape, Serial, InFlight

LEMMA SameResults ==
  ASSUME ResultsOk, UNCHANGED <<topic, results, log>>, ToSet(done') \subseteq ToSet(log)
  PROVE  ResultsOk'
<1>1. \A r \in ToSet(log) : Newest(r, results[r])'
  BY DEF ResultsOk, Newest, Copies
<1> QED BY <1>1 DEF ResultsOk

\* The submit that returned put the newest copy on the topic.
LEMMA SucceedsKeeps ==
  ASSUME QueueInv, TopicInv, NEW d \in Drains, NEW r \in Receipts, Succeeds(d, r)
  PROVE  TopicInv'
<1> USE QueueAssumption, TopicAssumption
<1> DEFINE N == Len(topic)
<1>1. /\ drain[d].at = "submitting" /\ drain[d].head = r /\ r \notin ToSet(log) /\ r # NoReceipt
      /\ Len(landed) = Chunks /\ landed # <<>>
  <2>1. drain[d].at = "submitting" /\ drain[d].head = r /\ Len(landed) = Chunks
    BY DEF Succeeds, SubmitOk
  <2> QED BY <2>1, Submitted, EmptySeq
<1>2. /\ topic \in Seq(Message) /\ N \in Nat /\ DOMAIN topic = 1 .. N
      /\ \A i \in 1 .. N : topic[i] \in Message
  BY LenProperties, ElementOfSeq DEF TopicInv, Shape
<1>3. /\ \A k \in 1 .. Chunks : landed[k] \in 1 .. N /\ topic[landed[k]] = Chunk(r, landed[1], k)
      /\ \A i \in 1 .. N : topic[i].receipt # NoReceipt => topic[i].transaction <= landed[1]
  BY <1>1 DEF TopicInv, InFlight
<1> DEFINE last == landed[Chunks]
           first == landed[1]
<1>4. /\ last \in 1 .. N /\ topic[last] = Chunk(r, first, Chunks)
      /\ first \in 1 .. N /\ topic[first] = Chunk(r, first, 1)
  BY <1>3
<1>5. Returned = [sequence |-> last, transaction |-> first]
  BY DEF Returned
<1> HIDE DEF last, first
<1>6. Returned \in Copies(r)
  <2>1. /\ topic[last].receipt = r /\ topic[last].number = Chunks /\ topic[last].transaction = first
        /\ \A n \in 1 .. Chunks : Chunk(r, first, n) = [topic[last] EXCEPT !.number = n]
    BY <1>4 DEF Chunk
  <2>2. \A n \in 1 .. Chunks : \E j \in 1 .. N : topic[j] = [topic[last] EXCEPT !.number = n]
    BY <1>3, <2>1 DEF first
  <2> QED BY <1>2, <1>4, <1>5, <2>1, <2>2 DEF Copies
<1>7. \A other \in Copies(r) : other.sequence <= Returned.sequence
  <2> SUFFICES ASSUME NEW k \in 1 .. N, topic[k].receipt = r, topic[k].number = Chunks
               PROVE  k <= last
    BY <1>2, <1>5 DEF Copies
  <2>1. topic[k].transaction <= first /\ topic[k].transaction \in Nat
    BY <1>1, <1>2, <1>3 DEF first, Message
  <2>2. topic[last].transaction = first /\ topic[last].number = Chunks /\ first <= last
    BY <1>4 DEF Chunk, TopicInv, Shape
  <2>3. CASE topic[k].transaction = first
    <3>1. ~(last < k)
      BY <1>4, <2>2, <2>3 DEF TopicInv, Shape
    <3> QED BY <1>4, <3>1
  <2>4. CASE topic[k].transaction < first
    <3>1. topic[first].transaction = first /\ topic[first].receipt # NoReceipt
      BY <1>1, <1>4 DEF Chunk
    <3>2. k < first
      BY <1>1, <1>4, <2>4, <3>1 DEF TopicInv, Serial
    <3> QED BY <1>4, <2>2, <3>2
  <2> QED BY <1>4, <2>1, <2>3, <2>4
<1>8. /\ UNCHANGED topic /\ landed' = <<>>
      /\ log' = Append(log, r) /\ done' = Remember(r)
      /\ results' = [s \in DOMAIN results \cup {r} |-> IF s = r THEN Returned ELSE results[s]]
  BY DEF Succeeds, SubmitOk
<1>9. ToSet(log') = ToSet(log) \cup {r}
  BY <1>8, AppendToSet DEF QueueInv, TypeOK
<1>10. ToSet(done') \subseteq ToSet(log')
  BY <1>8, <1>9, RememberSet DEF QueueInv, TypeOK, TopicInv, ResultsOk
<1>11. ResultsOk'
  <2>1. DOMAIN results' = ToSet(log')
    BY <1>8, <1>9 DEF TopicInv, ResultsOk
  <2>2. ASSUME NEW s \in ToSet(log') PROVE Newest(s, results[s])'
    <3>1. Copies(s)' = Copies(s)
      BY <1>8 DEF Copies
    <3>2. Newest(s, results'[s])
      <4>1. CASE s = r
        BY <1>6, <1>7, <1>8, <4>1 DEF Newest
      <4>2. CASE s # r
        BY <1>8, <1>9, <2>2, <4>2 DEF TopicInv, ResultsOk
      <4> QED BY <4>1, <4>2
    <3> QED BY <3>1, <3>2 DEF Newest
  <2> QED BY <1>10, <2>1, <2>2 DEF ResultsOk
<1> QED BY <1>8, <1>11, SettledKeeps DEF TopicInv

LEMMA TopicInvariant == TopicSpec => []TopicInv
<1> USE QueueAssumption, TopicAssumption
<1>1. TopicInit => TopicInv
  <2> SUFFICES ASSUME TopicInit PROVE TopicInv
    OBVIOUS
  <2>1. /\ topic = <<>> /\ landed = <<>> /\ results = <<>> /\ done = <<>> /\ log = <<>>
        /\ Len(<<>>) = 0 /\ ToSet(<<>>) = {} /\ DOMAIN <<>> = {}
        /\ <<>> \in Seq(Message) /\ <<>> \in Seq(Nat)
    BY EmptySeq DEF TopicInit, Init, ToSet
  <2> QED BY <2>1 DEF TopicInv, Shape, Serial, InFlight, ResultsOk
<1>2. QueueInv /\ TopicInv /\ [TopicNext]_<<vars, topicVars>> => TopicInv'
  <2> SUFFICES ASSUME QueueInv, TopicInv, [TopicNext]_<<vars, topicVars>> PROVE TopicInv'
    OBVIOUS
  <2>1. ASSUME UNCHANGED topicVars, UNCHANGED <<done, log>>, UNCHANGED drain \/ landed = <<>>
        PROVE  TopicInv'
    <3>1. ResultsOk'
      BY <2>1, SameResults DEF topicVars, TopicInv, ResultsOk
    <3>2. CASE landed = <<>>
      BY <2>1, <3>1, <3>2, SettledKeeps DEF topicVars, TopicInv
    <3>3. CASE UNCHANGED drain
      <4>1. Shape' /\ Serial'
        BY <2>1 DEF topicVars, TopicInv, Shape, Serial
      <4>2. InFlight'
        BY <2>1, <3>3 DEF topicVars, TopicInv, InFlight
      <4> QED BY <3>1, <4>1, <4>2 DEF TopicInv
    <3> QED BY <2>1, <3>2, <3>3
  <2>2. ASSUME NEW c \in Drains, drain[c].at = "submitting" PROVE running /\ Active(c)
    BY <2>2 DEF QueueInv, OneDrainOwnsTheHead, Active
  <2>3. CASE Queueing
    <3>1. ASSUME NEW r \in Receipts, EnqueueOnly(r) PROVE UNCHANGED <<done, log, drain>>
      BY <3>1 DEF EnqueueOnly
    <3>2. ASSUME NEW r \in Receipts, NEW d \in Drains, EnqueueAndDrain(r, d)
          PROVE  UNCHANGED <<done, log>> /\ landed = <<>>
      BY <2>2, <3>2 DEF EnqueueAndDrain, TopicInv, InFlight
    <3>3. ASSUME NEW d \in Drains, Wake(d)
          PROVE  UNCHANGED <<done, log>> /\ landed = <<>>
      <4>1. \A c \in Drains : drain[c].at # "submitting"
        BY <2>2, <3>3 DEF Wake, QueueInv, OneDrainOwnsTheHead, Active
      <4> QED BY <3>3, <4>1 DEF Wake, TopicInv, InFlight
    <3> QED BY <2>1, <2>3, <3>1, <3>2, <3>3 DEF Queueing
  <2>4. CASE WriteForeign
    BY <2>4, ForeignKeeps
  <2>5. ASSUME NEW d \in Drains, Land(d) PROVE TopicInv'
    BY <2>5, LandKeeps
  <2>6. ASSUME NEW d \in Drains, Fails(d) PROVE TopicInv'
    <3>1. UNCHANGED <<topic, results, done, log>> /\ landed' = <<>>
      BY <2>6 DEF Fails, SubmitFails
    <3>2. ResultsOk'
      BY <3>1, SameResults DEF TopicInv, ResultsOk
    <3> QED BY <3>1, <3>2, SettledKeeps DEF TopicInv
  <2>7. ASSUME NEW d \in Drains, NEW r \in Receipts, Succeeds(d, r) PROVE TopicInv'
    BY <2>7, SucceedsKeeps
  <2>8. CASE TopicRestart
    <3>1. UNCHANGED <<topic, results, log>> /\ landed' = <<>> /\ done' = <<>>
      BY <2>8 DEF TopicRestart, Restart
    <3>2. ToSet(done') \subseteq ToSet(log)
      BY <3>1, EmptySeq DEF ToSet
    <3>3. ResultsOk'
      BY <3>1, <3>2, SameResults DEF TopicInv
    <3> QED BY <3>1, <3>3, SettledKeeps DEF TopicInv
  <2>9. CASE UNCHANGED <<vars, topicVars>>
    BY <2>1, <2>9 DEF vars
  <2> QED BY <2>3, <2>4, <2>5, <2>6, <2>7, <2>8, <2>9 DEF TopicNext
<1> QED BY <1>1, <1>2, TopicQueue, PTL DEF TopicSpec

\* A look-up's choice is made among finitely many submits.
LEMMA Latest ==
  ASSUME NEW N \in Nat, NEW S, S \subseteq 1 .. N, S # {}
  PROVE  \E x \in S : \A y \in S : y <= x
<1> DEFINE Age == {N - x : x \in S}
<1>1. Age \subseteq Nat /\ Age # {}
  <2>1. \A x \in S : N - x \in Nat
    OBVIOUS
  <2>2. PICK x \in S : TRUE
    OBVIOUS
  <2>3. N - x \in Age
    OBVIOUS
  <2> QED BY <2>1, <2>3
<1>2. PICK a \in Age : \A b \in Age : ~(<<b, a>> \in OpToRel(<, Nat))
  <2> HIDE DEF Age
  <2> QED BY <1>1, NatLessThanWellFounded, WFMin
<1>3. \A b \in Age : ~(b < a)
  BY <1>1, <1>2 DEF OpToRel
<1>4. PICK x \in S : a = N - x
  OBVIOUS
<1>5. \A y \in S : ~(N - y < N - x)
  BY <1>3, <1>4
<1> QED BY <1>5

\* Enough chunks of a submit are all its chunks: their numbers differ.
LEMMA WholeGroup ==
  ASSUME Shape, NEW edge \in Int, NEW tx
  PROVE  Cardinality({i \in Places(tx) : i > edge}) = Chunks
         <=> \A n \in 1 .. Chunks : \E i \in {j \in Places(tx) : j > edge} : topic[i].number = n
<1> USE TopicAssumption
<1> DEFINE group == {i \in Places(tx) : i > edge}
           number == [i \in group |-> topic[i].number]
<1>1. /\ DOMAIN topic = 1 .. Len(topic) /\ Len(topic) \in Nat
      /\ \A i \in 1 .. Len(topic) : topic[i] \in Message
  BY LenProperties, ElementOfSeq DEF Shape
<1>2. \A i \in group : /\ i \in 1 .. Len(topic) /\ topic[i].transaction = tx
                       /\ topic[i].number \in 1 .. Chunks
  BY <1>1 DEF Places, Message
<1> HIDE DEF group
<1>3. number \in [group -> 1 .. Chunks]
  BY <1>2
<1>4. ASSUME NEW i \in group, NEW j \in group, number[i] = number[j] PROVE i = j
  <2>1. topic[i].number = topic[j].number /\ topic[i].number \in Nat
    BY <1>2, <1>4
  <2>2. ~(i < j) /\ ~(j < i)
    BY <1>2, <2>1 DEF Shape
  <2> QED BY <1>1, <1>2, <2>2
<1>5. number \in Injection(group, 1 .. Chunks)
  <2>1. IsInjective(number)
    BY <1>3, <1>4 DEF IsInjective
  <2> HIDE DEF number
  <2> QED BY <1>3, <2>1 DEF Injection
<1>6. IsFiniteSet(1 .. Chunks) /\ Cardinality(1 .. Chunks) = Chunks
  BY FS_Interval
<1>7. Cardinality(group) = Chunks <=> number \in Surjection(group, 1 .. Chunks)
  <2> HIDE DEF number
  <2> QED BY <1>5, <1>6, FS_Injection
<1>8. number \in Surjection(group, 1 .. Chunks)
      <=> \A n \in 1 .. Chunks : \E i \in group : number[i] = n
  <2> HIDE DEF number
  <2> QED BY <1>3 DEF Surjection
<1> QED BY <1>7, <1>8 DEF group

LEMMA CopiesAre ==
  ASSUME Shape, NEW r \in Receipts
  PROVE  \A copy : copy \in Copies(r) <=>
            \E k \in 1 .. Len(topic) :
               /\ copy = [sequence |-> k, transaction |-> topic[k].transaction]
               /\ topic[k].receipt = r /\ topic[k].number = Chunks
<1>1. DOMAIN topic = 1 .. Len(topic)
  BY LenProperties DEF Shape
<1>2. ASSUME NEW k \in 1 .. Len(topic), topic[k].number = Chunks
      PROVE  \A n \in 1 .. Chunks : \E j \in DOMAIN topic : topic[j] = [topic[k] EXCEPT !.number = n]
  <2> DEFINE Mate(n, j) == topic[j] = [topic[k] EXCEPT !.number = n]
  <2>1. \A n \in 1 .. topic[k].number : \E j \in 1 .. k : Mate(n, j)
    BY DEF Shape
  <2> HIDE DEF Mate
  <2>2. \A n \in 1 .. Chunks : \E j \in DOMAIN topic : Mate(n, j)
    BY <1>1, <1>2, <2>1, LenProperties DEF Shape
  <2> QED BY <2>2 DEF Mate
<1> QED BY <1>1, <1>2 DEF Copies

\* What the pages read show of a whole commitment is all of it, and the submit
\* whose last chunk is newest is the last that was completed.
LEMMA MirrorTells ==
  ASSUME TopicInv, NEW r \in Receipts, NEW pages \in Nat
  PROVE  /\ mirrorLookup(r, pages) # NotFound => Newest(r, mirrorLookup(r, pages))
         /\ \A copy \in Copies(r) :
               copy.transaction > Len(topic) - pages * PageSize
               => mirrorLookup(r, pages) # NotFound
<1> USE QueueAssumption, TopicAssumption
<1> DEFINE N == Len(topic)
           edge == N - pages * PageSize
           Seen(tx) == {i \in Places(tx) : i > edge}
           G == Groups(r, pages)
<1>1. /\ topic \in Seq(Message) /\ N \in Nat /\ DOMAIN topic = 1 .. N
      /\ \A i \in 1 .. N : topic[i] \in Message
  BY LenProperties, ElementOfSeq DEF TopicInv, Shape
<1>2. edge \in Int
  BY <1>1
<1>3. \A tx : Places(tx) \cap InReach(pages) = Seen(tx)
  BY DEF Places, InReach
<1> HIDE DEF edge
<1>4. \A tx, i : i \in Seen(tx) <=> i \in 1 .. N /\ topic[i].transaction = tx /\ i > edge
  BY <1>1 DEF Places
<1>5. \A i \in 1 .. N : /\ topic[i].transaction \in 1 .. i
                        /\ topic[i].number \in 1 .. Chunks /\ topic[i].transaction \in Nat
  BY <1>1 DEF TopicInv, Shape, Message
<1>6. \A tx : Cardinality(Seen(tx)) = Chunks
              <=> \A n \in 1 .. Chunks : \E i \in Seen(tx) : topic[i].number = n
  BY <1>2, WholeGroup DEF TopicInv
<1> HIDE DEF Seen, N
<1>7. \A tx : tx \in G <=>
         /\ tx \in Submits
         /\ \A n \in 1 .. Chunks : \E i \in Seen(tx) : topic[i].number = n
         /\ \A i \in Seen(tx) : topic[i].receipt = r
  BY <1>3, <1>6 DEF Groups
<1>8. \A i \in 1 .. N : topic[i].transaction \in Submits
  BY <1>1 DEF Submits, ToSet
<1>9. \A i, j \in 1 .. N : topic[i].transaction = topic[j].transaction =>
         /\ topic[i].receipt = topic[j].receipt
         /\ i < j => topic[i].number < topic[j].number
  BY DEF TopicInv, Shape, N
<1>10. \A i, j \in 1 .. N :
         /\ topic[i].receipt = r /\ topic[j].receipt = r
         /\ topic[i].transaction < topic[j].transaction
         => i < topic[j].transaction
  BY DEF TopicInv, Serial, N
<1> HIDE DEF G
<1>11. \A tx \in G : \E s \in 1 .. N :
         /\ s \in Seen(tx) /\ topic[s].number = Chunks
         /\ topic[s].transaction = tx /\ topic[s].receipt = r /\ s > edge
  BY <1>4, <1>7
<1>12. \A tx \in G, j \in 1 .. N : topic[j].transaction = tx => topic[j].receipt = r
  BY <1>9, <1>11
<1>13. \A copy : copy \in Copies(r) <=>
         \E k \in 1 .. N : /\ copy = [sequence |-> k, transaction |-> topic[k].transaction]
                           /\ topic[k].receipt = r /\ topic[k].number = Chunks
  BY CopiesAre DEF TopicInv, N
<1>14. ASSUME NEW k \in 1 .. N, topic[k].receipt = r, topic[k].number = Chunks,
              topic[k].transaction > edge
       PROVE  topic[k].transaction \in G
  <2> DEFINE tx == topic[k].transaction
  <2>1. \A j \in 1 .. N : topic[j].transaction = tx => j \in Seen(tx) /\ topic[j].receipt = r
    BY <1>1, <1>2, <1>4, <1>5, <1>9, <1>14
  <2>2. \A n \in 1 .. Chunks : \E j \in 1 .. N : topic[j].transaction = tx /\ topic[j].number = n
    <3> DEFINE Mate(n, j) == topic[j] = [topic[k] EXCEPT !.number = n]
    <3>1. \A n \in 1 .. topic[k].number : \E j \in 1 .. k : Mate(n, j)
      BY DEF TopicInv, Shape, N
    <3>2. topic[k] \in Message
      BY <1>1
    <3>3. \A n : /\ [topic[k] EXCEPT !.number = n].transaction = tx
                 /\ [topic[k] EXCEPT !.number = n].number = n
      BY <3>2 DEF Message
    <3>4. \A n \in 1 .. Chunks, j \in 1 .. N :
             Mate(n, j) => topic[j].transaction = tx /\ topic[j].number = n
      BY <3>3
    <3> HIDE DEF Mate
    <3>5. \A j \in 1 .. k : j \in 1 .. N
      BY <1>1, <1>14
    <3>6. \A n \in 1 .. Chunks : \E j \in 1 .. N : Mate(n, j)
      BY <1>14, <3>1, <3>5
    <3> HIDE DEF tx
    <3> QED BY <3>4, <3>6
  <2>3. \A n \in 1 .. Chunks : \E i \in Seen(tx) : topic[i].number = n
    BY <2>1, <2>2
  <2>4. \A i \in Seen(tx) : topic[i].receipt = r
    BY <1>4, <2>1
  <2> QED BY <1>7, <1>8, <2>3, <2>4
<1>15. CASE G = {}
  <2>1. mirrorLookup(r, pages) = NotFound
    BY <1>15 DEF mirrorLookup, G
  <2>2. ASSUME NEW copy \in Copies(r) PROVE ~(copy.transaction > edge)
    BY <1>13, <1>14, <1>15
  <2> QED BY <2>1, <2>2 DEF edge, N
<1>16. CASE G # {}
  <2> DEFINE Leads(t) == \A u \in G : \E i \in Places(t) : \A j \in Places(u) : j <= i
             tx == CHOOSE t \in G : Leads(t)
             s == CHOOSE i \in Places(tx) : topic[i].number = Chunks
  <2>1. mirrorLookup(r, pages) = [sequence |-> s, transaction |-> tx]
    BY <1>16 DEF mirrorLookup, G
  <2>2. \A t, i : i \in Places(t) <=> i \in 1 .. N /\ topic[i].transaction = t
    BY <1>1 DEF Places
  <2>3. \E t \in G : Leads(t)
    <3>1. G \subseteq 1 .. N
      BY <1>1, <1>5, <1>11
    <3>2. PICK t \in G : \A u \in G : u <= t
      BY <1>1, <1>16, <3>1, Latest
    <3>3. PICK i \in 1 .. N : /\ topic[i].number = Chunks
                              /\ topic[i].transaction = t /\ topic[i].receipt = r
      BY <1>11
    <3>4. ASSUME NEW u \in G, NEW j \in Places(u) PROVE j <= i
      <4>1. j \in 1 .. N /\ topic[j].transaction = u /\ topic[j].receipt = r
        BY <1>12, <2>2, <3>4
      <4>2. CASE u < t
        BY <1>1, <1>5, <1>10, <3>3, <4>1, <4>2
      <4>3. CASE u = t
        BY <1>1, <1>5, <1>9, <3>3, <4>1, <4>3
      <4> QED BY <1>1, <3>1, <3>2, <4>2, <4>3
    <3>5. i \in Places(t)
      BY <2>2, <3>3
    <3>6. Leads(t)
      BY <3>4, <3>5
    <3> HIDE DEF Leads
    <3> QED BY <3>6
  <2>4. tx \in G /\ Leads(tx)
    <3> HIDE DEF Leads
    <3> QED BY <2>3
  <2> HIDE DEF tx
  <2>5. s \in Places(tx) /\ topic[s].number = Chunks
    BY <1>11, <2>2, <2>4
  <2> HIDE DEF s
  <2>6. s \in 1 .. N /\ topic[s].transaction = tx /\ topic[s].receipt = r
    BY <1>12, <2>2, <2>4, <2>5
  <2>7. ASSUME NEW k \in 1 .. N, topic[k].receipt = r, topic[k].number = Chunks
        PROVE  k <= s
    <3> DEFINE u == topic[k].transaction
    <3>1. CASE u < tx
      BY <1>1, <1>5, <1>10, <2>6, <2>7, <3>1
    <3>2. CASE u = tx
      BY <1>1, <1>9, <1>5, <2>5, <2>6, <2>7, <3>2
    <3>3. CASE tx < u
      <4>1. PICK i \in 1 .. N : topic[i].transaction = tx /\ topic[i].receipt = r /\ i > edge
        BY <1>11, <2>4
      <4>2. i < u
        BY <1>10, <2>7, <3>3, <4>1
      <4>3. u \in G
        BY <1>1, <1>2, <1>5, <1>14, <2>7, <4>1, <4>2
      <4>4. PICK e \in Places(tx) : \A j \in Places(u) : j <= e
        BY <2>4, <4>3
      <4>5. e \in 1 .. N /\ topic[e].transaction = tx /\ topic[e].receipt = r /\ k <= e
        BY <1>12, <2>2, <2>4, <4>4
      <4>6. e < u /\ u <= k
        BY <1>5, <1>10, <2>7, <3>3, <4>5
      <4> QED BY <1>1, <1>5, <4>5, <4>6
    <3> QED BY <1>5, <2>6, <3>1, <3>2, <3>3
  <2>8. Newest(r, [sequence |-> s, transaction |-> tx])
    BY <1>13, <2>5, <2>6, <2>7 DEF Newest
  <2>9. [sequence |-> s, transaction |-> tx] # NotFound
    BY <2>6 DEF NotFound
  <2> QED BY <2>1, <2>8, <2>9
<1> QED BY <1>15, <1>16

\* However chunks of several submits, restarts and other programs' messages fall
\* on the topic, for any number of pages: a look-up that names a place names the
\* newest complete copy, none in the pages read is missed, and a receipt that is
\* committed has the result its submit returned.
THEOREM LookupTruth == TopicSpec => []LookupTellsTheTruth
<1>1. TopicInv => LookupTellsTheTruth
  <2> SUFFICES ASSUME TopicInv, NEW r \in Receipts, NEW pages \in 0 .. MaxPages
               PROVE  LET answer == lookup(r, pages)
                      IN  /\ answer # NotFound => Newest(r, answer)
                          /\ \A copy \in Copies(r) :
                                copy.transaction > Len(topic) - pages * PageSize
                                => answer # NotFound
                          /\ r \in ToSet(log) => results[r] \in Copies(r)
    BY DEF LookupTellsTheTruth, Newest
  <2>1. r \in ToSet(log) => Newest(r, results[r])
    BY DEF TopicInv, ResultsOk
  <2>2. CASE r \in ToSet(done)
    <3>1. lookup(r, pages) = results[r] /\ Newest(r, results[r])
      BY <2>1, <2>2 DEF lookup, TopicInv, ResultsOk
    <3>2. results[r] # NotFound
      BY <3>1, CopiesAre DEF Newest, NotFound, TopicInv
    <3> QED BY <2>1, <3>1, <3>2 DEF Newest
  <2>3. CASE r \notin ToSet(done)
    <3>1. lookup(r, pages) = mirrorLookup(r, pages)
      BY <2>3 DEF lookup
    <3>2. pages \in Nat
      BY TopicAssumption
    <3> QED BY <2>1, <3>1, <3>2, MirrorTells DEF Newest
  <2> QED BY <2>2, <2>3
<1> QED BY <1>1, TopicInvariant, PTL

-----------------------------------------------------------------------------
(* The settlement correlation: HederaRail                                   *)

LEMMA PutType ==
    ASSUME RailAssumption, now \in Nat, NEW map \in [Txs -> Entry],
           NEW t \in Txs, NEW r \in Requests
    PROVE  Put(map, t, r) \in [Txs -> Entry]
<1>1. Gone \in Entry /\ [owner |-> r, until |-> now + Ttl] \in Entry
  BY DEF Gone, Entry, RailAssumption
<1> QED BY <1>1 DEF Put

LEMMA CleanupType ==
    ASSUME payers \in [Txs -> Entry], receipts \in [Txs -> Entry], NEW t, Cleanup(t)
    PROVE  payers' \in [Txs -> Entry] /\ receipts' \in [Txs -> Entry]
<1>1. Gone \in Entry
  BY DEF Gone, Entry
<1> QED BY <1>1 DEF Cleanup, Delete

\* A receipt that can still be read has an owner: nothing else is ever handed over.
OwnerKnown == \A t \in Txs : receipts[t] # Gone => receipts[t].owner \in Requests

Typed == RailTypeOK /\ OwnerKnown

\* The initial state and every step respect the types of the variables; what
\* onSettled is called with is always a receipt.
THEOREM RailTypeCorrect == RailSpec => []RailTypeOK
<1> USE RailAssumption
<1>1. RailInit => Typed
  <2> SUFFICES ASSUME RailInit PROVE Typed
    OBVIOUS
  <2>1. Gone \in Entry
    BY DEF Gone, Entry
  <2>2. handed \in Seq([receipt: Requests, tx: Txs])
    BY EmptySeq DEF RailInit
  <2>3. OwnerKnown
    BY DEF RailInit, OwnerKnown
  <2> QED BY <2>1, <2>2, <2>3 DEF RailInit, RailTypeOK, Typed, Stages
<1>2. Typed /\ [RailNext]_railVars => Typed'
  <2> SUFFICES ASSUME Typed, [RailNext]_railVars PROVE Typed'
    OBVIOUS
  <2> USE DEF RailTypeOK, Typed
  <2>1. ASSUME NEW r \in Requests, Verified(r) PROVE Typed'
    <3>4. Put(payers, TxOf[r], r) \in [Txs -> Entry]
      BY PutType
    <3>1. payers' \in [Txs -> Entry]
      BY <2>1, <3>4 DEF Verified
    <3>3. written' \in [payers: Nat, receipts: Nat]
      BY <2>1 DEF Verified
    <3>2. OwnerKnown'
      BY <2>1 DEF Verified, OwnerKnown
    <3> QED BY <2>1, <3>1, <3>2, <3>3 DEF Verified, Stages
  <2>2. ASSUME NEW r \in Requests, WorkFails(r) PROVE Typed'
    BY <2>2 DEF WorkFails, Stages, OwnerKnown
  <2>3. ASSUME NEW r \in Requests, Answers(r) PROVE Typed'
    BY <2>3 DEF Answers, Stages, OwnerKnown
  <2>4. ASSUME NEW r \in Requests, StoreReceipt(r) PROVE Typed'
    <3>1. receipts' \in [Txs -> Entry] /\ written' \in [payers: Nat, receipts: Nat]
      BY <2>4, PutType DEF StoreReceipt
    <3>2. OwnerKnown'
      BY <2>4 DEF StoreReceipt, OwnerKnown, Put
    <3> QED BY <2>4, <3>1, <3>2 DEF StoreReceipt
  <2>5. ASSUME NEW r \in Requests, SendSettle(r) PROVE Typed'
    BY <2>5 DEF SendSettle, OwnerKnown
  <2>6. ASSUME NEW r \in Requests, SettleOk(r) PROVE Typed'
    <3>1. payers' \in [Txs -> Entry] /\ receipts' \in [Txs -> Entry]
      BY <2>6, CleanupType DEF SettleOk
    <3>2. IsFresh(receipts, TxOf[r]) => receipts[TxOf[r]].owner \in Requests
      BY DEF IsFresh, OwnerKnown, Gone
    <3>3. handed' \in Seq([receipt: Requests, tx: Txs])
      BY <2>6, <3>2, AppendProperties DEF SettleOk
    <3>4. OwnerKnown'
      BY <2>6 DEF SettleOk, Cleanup, Delete, OwnerKnown
    <3> QED BY <2>6, <3>1, <3>3, <3>4 DEF SettleOk, Stages
  <2>7. ASSUME NEW r \in Requests, SettleFails(r) PROVE Typed'
    <3>1. payers' \in [Txs -> Entry] /\ receipts' \in [Txs -> Entry]
      BY <2>7, CleanupType DEF SettleFails
    <3>2. OwnerKnown'
      BY <2>7 DEF SettleFails, Cleanup, Delete, OwnerKnown
    <3> QED BY <2>7, <3>1, <3>2 DEF SettleFails, Stages
  <2>8. CASE Tick
    BY <2>8 DEF Tick, OwnerKnown
  <2>9. CASE UNCHANGED railVars
    BY <2>9 DEF railVars, OwnerKnown
  <2> QED BY <2>1, <2>2, <2>3, <2>4, <2>5, <2>6, <2>7, <2>8, <2>9 DEF RailNext
<1>3. Typed => RailTypeOK
  BY DEF Typed
<1> QED BY <1>1, <1>2, <1>3, PTL DEF RailSpec

-----------------------------------------------------------------------------
(* The receipt of a settled payment                                         *)

\* What each request's progress says of the queue, the clock and the map.
Progress(r) ==
    /\ \A c \in {"store", "send"} : <<r, c>> \in micro => stage[r] = "answered"
    /\ stage[r] = "answered" =>
          /\ since[r] <= now /\ now <= since[r] + SettleMax
          /\ <<r, "store">> \in micro => since[r] = now
          /\ Unshared(r) /\ <<r, "store">> \notin micro =>
                receipts[TxOf[r]] = [owner |-> r, until |-> since[r] + Ttl]

\* An entry lies under its owner's payment, and so does a receipt handed over.
Owned ==
    /\ \A t \in Txs : receipts[t] # Gone =>
          receipts[t].owner \in Requests /\ TxOf[receipts[t].owner] = t
    /\ \A i \in 1 .. Len(handed) :
          handed[i].tx = TxOf[handed[i].receipt] /\ handed[i].tx \in settled

RailInv ==
    /\ RailTypeOK
    /\ \A r \in Requests : Progress(r)
    /\ Owned
    /\ ServedIsAnchored
    /\ OneReceiptPerPayment
    /\ SettledLeavesNothing

\* What both settle hooks do to the maps.
Cleaned(r) ==
    /\ payers'[TxOf[r]] = Gone /\ receipts'[TxOf[r]] = Gone
    /\ \A t \in Txs \ {TxOf[r]} : payers'[t] = payers[t] /\ receipts'[t] = receipts[t]

\* A settle hook takes no entry that another request with its own payment needs.
LEMMA CleanedProgress ==
    ASSUME RailAssumption, RailTypeOK, NEW r \in Requests, Cleaned(r),
           \A c \in Requests : Progress(c),
           micro = {}, stage'[r] # "answered",
           \A c \in Requests \ {r} : stage'[c] = stage[c],
           UNCHANGED <<since, micro, now>>
    PROVE  \A c \in Requests : Progress(c)'
<1> SUFFICES ASSUME NEW c \in Requests PROVE Progress(c)'
  OBVIOUS
<1>1. CASE c = r
  BY <1>1 DEF Progress
<1>2. CASE c # r
  <2>1. Unshared(c) => TxOf[c] # TxOf[r] /\ TxOf[c] \in Txs
    BY <1>2 DEF Unshared, RailAssumption
  <2> QED BY <1>2, <2>1 DEF Progress, Cleaned, Unshared
<1> QED BY <1>1, <1>2

LEMMA RailInvariant == RailSpec => []RailInv
<1> USE RailAssumption
<1>1. RailInit /\ RailTypeOK => RailInv
  <2> SUFFICES ASSUME RailInit, RailTypeOK PROVE RailInv
    OBVIOUS
  <2>1. Len(handed) = 0
    BY DEF RailInit
  <2>2. Owned /\ ServedIsAnchored /\ OneReceiptPerPayment /\ SettledLeavesNothing
    BY <2>1 DEF RailInit, Owned, ServedIsAnchored, HandedFor, OneReceiptPerPayment,
                SettledLeavesNothing
  <2>3. \A r \in Requests : Progress(r)
    BY DEF RailInit, Progress
  <2> QED BY <2>2, <2>3 DEF RailInv
<1>2. RailInv /\ RailTypeOK /\ RailTypeOK' /\ [RailNext]_railVars => RailInv'
  <2> SUFFICES ASSUME RailInv, RailTypeOK, RailTypeOK', [RailNext]_railVars PROVE RailInv'
    OBVIOUS
  <2> USE DEF RailInv
  <2>1. ASSUME NEW r \in Requests, Verified(r) PROVE RailInv'
    <3>1. \A c \in Requests : Progress(c)'
      BY <2>1 DEF Verified, Progress, RailTypeOK, Unshared
    <3>2. Owned' /\ OneReceiptPerPayment'
      BY <2>1 DEF Verified, Owned, OneReceiptPerPayment
    <3>3. stage[r] # "served" /\ stage'[r] # "served" /\ \A c \in Requests \ {r} : stage'[c] = stage[c]
      BY <2>1 DEF Verified, RailTypeOK
    <3>4. ServedIsAnchored'
      BY <2>1, <3>3 DEF Verified, ServedIsAnchored, HandedFor, Unshared
    <3>5. ASSUME NEW c \in Requests, Unshared(c), stage'[c] \in {"served", "unpaid"}
          PROVE  payers'[TxOf[c]] = Gone /\ receipts'[TxOf[c]] = Gone
      <4>1. c # r /\ stage[c] = stage'[c] /\ TxOf[c] # TxOf[r] /\ TxOf[c] \in Txs
        BY <2>1, <3>5 DEF Verified, RailTypeOK, Unshared
      <4>2. payers[TxOf[c]] = Gone /\ receipts[TxOf[c]] = Gone
        BY <3>5, <4>1 DEF SettledLeavesNothing
      <4> QED BY <2>1, <4>1, <4>2 DEF Verified, Put
    <3> QED BY <3>1, <3>2, <3>4, <3>5 DEF SettledLeavesNothing, Unshared
  <2>2. ASSUME NEW r \in Requests, WorkFails(r) PROVE RailInv'
    <3>1. \A c \in Requests : Progress(c)'
      BY <2>2 DEF WorkFails, Progress, RailTypeOK, Unshared
    <3>2. Owned' /\ OneReceiptPerPayment'
      BY <2>2 DEF WorkFails, Owned, OneReceiptPerPayment
    <3>3. ServedIsAnchored'
      BY <2>2 DEF WorkFails, ServedIsAnchored, HandedFor, Unshared, RailTypeOK
    <3>4. SettledLeavesNothing'
      BY <2>2 DEF WorkFails, SettledLeavesNothing, Unshared, RailTypeOK
    <3> QED BY <3>1, <3>2, <3>3, <3>4
  <2>3. ASSUME NEW r \in Requests, Answers(r) PROVE RailInv'
    <3>1. \A c \in Requests : Progress(c)'
      BY <2>3 DEF Answers, Progress, RailTypeOK, Unshared
    <3>2. Owned' /\ OneReceiptPerPayment'
      BY <2>3 DEF Answers, Owned, OneReceiptPerPayment
    <3>3. ServedIsAnchored'
      BY <2>3 DEF Answers, ServedIsAnchored, HandedFor, Unshared, RailTypeOK
    <3>4. SettledLeavesNothing'
      BY <2>3 DEF Answers, SettledLeavesNothing, Unshared, RailTypeOK
    <3> QED BY <3>1, <3>2, <3>3, <3>4
  <2>4. ASSUME NEW r \in Requests, StoreReceipt(r) PROVE RailInv'
    <3>1. stage[r] = "answered" /\ UNCHANGED <<stage, since, settled, handed, now, payers>>
      BY <2>4 DEF StoreReceipt, Progress
    <3>2. /\ receipts'[TxOf[r]] = [owner |-> r, until |-> now + Ttl]
          /\ \A t \in Txs \ {TxOf[r]} :
                receipts'[t] = IF receipts[t].until <= now THEN Gone ELSE receipts[t]
      BY <2>4 DEF StoreReceipt, Put
    <3>3. ASSUME NEW c \in Requests PROVE Progress(c)'
      <4>1. \A k \in {"store", "send"} : <<c, k>> \in micro' => stage'[c] = "answered"
        BY <2>4, <3>1 DEF StoreReceipt, Progress
      <4>2. ASSUME stage'[c] = "answered", Unshared(c), <<c, "store">> \notin micro'
            PROVE  receipts'[TxOf[c]] = [owner |-> c, until |-> since[c] + Ttl]
        <5>1. CASE c = r
          <6>1. since[r] = now
            BY <2>4, <3>1 DEF StoreReceipt, Progress
          <6> QED BY <3>2, <5>1, <6>1
        <5>2. CASE c # r
          <6>1. TxOf[c] # TxOf[r] /\ TxOf[c] \in Txs /\ <<c, "store">> \notin micro
            BY <2>4, <4>2, <5>2 DEF Unshared, StoreReceipt
          <6>2. /\ receipts[TxOf[c]] = [owner |-> c, until |-> since[c] + Ttl]
                /\ now <= since[c] + SettleMax
            BY <3>1, <4>2, <6>1 DEF Progress
          <6>3. ~(since[c] + Ttl <= now)
            BY <6>2 DEF RailTypeOK
          <6> QED BY <3>2, <6>1, <6>2, <6>3
        <5> QED BY <5>1, <5>2
      <4>3. stage'[c] = "answered" =>
               /\ since[c] <= now /\ now <= since[c] + SettleMax
               /\ <<c, "store">> \in micro' => since[c] = now
        BY <2>4, <3>1 DEF StoreReceipt, Progress
      <4> QED BY <3>1, <4>1, <4>2, <4>3 DEF Progress, Unshared
    <3>4. Owned'
      BY <3>1, <3>2 DEF Owned
    <3>5. ServedIsAnchored' /\ OneReceiptPerPayment'
      BY <3>1 DEF ServedIsAnchored, OneReceiptPerPayment, HandedFor, Unshared
    <3>6. SettledLeavesNothing'
      BY <3>1, <3>2 DEF SettledLeavesNothing, Unshared
    <3> QED BY <3>3, <3>4, <3>5, <3>6
  <2>5. ASSUME NEW r \in Requests, SendSettle(r) PROVE RailInv'
    <3>1. \A c \in Requests : Progress(c)'
      BY <2>5 DEF SendSettle, Progress, Unshared
    <3>2. Owned' /\ OneReceiptPerPayment' /\ ServedIsAnchored' /\ SettledLeavesNothing'
      BY <2>5 DEF SendSettle, Owned, OneReceiptPerPayment, ServedIsAnchored, HandedFor,
                  SettledLeavesNothing, Unshared
    <3> QED BY <3>1, <3>2
  <2>6. ASSUME NEW r \in Requests, SettleOk(r) PROVE RailInv'
    <3>1. /\ stage[r] = "answered" /\ micro = {} /\ TxOf[r] \notin settled /\ TxOf[r] \in Txs
          /\ stage'[r] = "served" /\ \A c \in Requests \ {r} : stage'[c] = stage[c]
          /\ settled' = settled \cup {TxOf[r]}
          /\ UNCHANGED <<since, micro, now>>
      BY <2>6 DEF SettleOk, Settling, RailTypeOK
    <3>2. Cleaned(r)
      BY <2>6, <3>1 DEF SettleOk, Cleanup, Delete, Cleaned, RailTypeOK
    <3>3. \A c \in Requests : Progress(c)'
      BY <3>1, <3>2, CleanedProgress
    <3>4. CASE ~IsFresh(receipts, TxOf[r])
      <4>1. handed' = handed
        BY <2>6, <3>4 DEF SettleOk
      <4>2. Owned' /\ OneReceiptPerPayment'
        BY <3>1, <3>2, <4>1 DEF Owned, OneReceiptPerPayment, Cleaned
      <4>3. ~Unshared(r)
        <5> SUFFICES ASSUME Unshared(r) PROVE FALSE
          OBVIOUS
        <5>1. /\ receipts[TxOf[r]] = [owner |-> r, until |-> since[r] + Ttl]
              /\ now <= since[r] + SettleMax
          BY <3>1 DEF Progress
        <5>2. since[r] + Ttl > now
          BY <5>1 DEF RailTypeOK
        <5> QED BY <3>4, <5>1, <5>2 DEF IsFresh
      <4>4. ServedIsAnchored'
        BY <3>1, <4>1, <4>3 DEF ServedIsAnchored, HandedFor, Unshared
      <4>5. SettledLeavesNothing'
        BY <3>1, <3>2, <4>3 DEF SettledLeavesNothing, Cleaned, Unshared, RailTypeOK
      <4> QED BY <3>3, <4>2, <4>4, <4>5
    <3>5. CASE IsFresh(receipts, TxOf[r])
      <4> DEFINE e == [receipt |-> receipts[TxOf[r]].owner, tx |-> TxOf[r]]
      <4>1. /\ e.receipt \in Requests /\ TxOf[e.receipt] = e.tx /\ e.tx = TxOf[r]
            /\ Unshared(r) => e.receipt = r
        <5>1. receipts[TxOf[r]] # Gone
          BY <3>5 DEF IsFresh, Gone, RailTypeOK
        <5> QED BY <3>1, <5>1 DEF Owned, Unshared
      <4>2. /\ Len(handed') = Len(handed) + 1 /\ Len(handed) \in Nat
            /\ \A i \in 1 .. Len(handed) : handed'[i] = handed[i]
            /\ handed'[Len(handed) + 1] = e
        BY <2>6, <3>5, AppendProperties, LenProperties DEF SettleOk, RailTypeOK
      <4> HIDE DEF e
      <4>3. Owned'
        BY <3>1, <3>2, <4>1, <4>2 DEF Owned, Cleaned
      <4>4. OneReceiptPerPayment'
        BY <3>1, <4>1, <4>2 DEF Owned, OneReceiptPerPayment
      <4>5. ASSUME NEW c \in Requests, Unshared(c)
            PROVE  /\ stage'[c] = "served" <=> \E i \in 1 .. Len(handed') : handed'[i].receipt = c
                   /\ \A i \in 1 .. Len(handed') : handed'[i].receipt = c => handed'[i].tx = TxOf[c]
        <5>1. /\ stage[c] = "served" <=> \E i \in 1 .. Len(handed) : handed[i].receipt = c
              /\ \A i \in 1 .. Len(handed) : handed[i].receipt = c => handed[i].tx = TxOf[c]
          BY <4>5 DEF ServedIsAnchored, HandedFor
        <5>2. c # r => e.receipt # c
          BY <4>1, <4>5, <3>1 DEF Unshared
        <5>3. CASE c = r
          BY <3>1, <4>1, <4>2, <4>5, <5>1, <5>3
        <5>4. CASE c # r
          BY <3>1, <4>1, <4>2, <4>5, <5>1, <5>2, <5>4
        <5> QED BY <5>3, <5>4
      <4>6. ServedIsAnchored'
        BY <4>5 DEF ServedIsAnchored, HandedFor, Unshared
      <4>7. SettledLeavesNothing'
        BY <3>1, <3>2 DEF SettledLeavesNothing, Cleaned, Unshared, RailTypeOK
      <4> QED BY <3>3, <4>3, <4>4, <4>6, <4>7
    <3> QED BY <3>4, <3>5
  <2>7. ASSUME NEW r \in Requests, SettleFails(r) PROVE RailInv'
    <3>1. /\ stage[r] = "answered" /\ micro = {} /\ TxOf[r] \in Txs
          /\ stage'[r] = "unpaid" /\ \A c \in Requests \ {r} : stage'[c] = stage[c]
          /\ settled \subseteq settled'
          /\ UNCHANGED <<since, micro, handed, now>>
      BY <2>7 DEF SettleFails, Settling, RailTypeOK
    <3>2. Cleaned(r)
      BY <2>7, <3>1 DEF SettleFails, Cleanup, Delete, Cleaned, RailTypeOK
    <3>3. \A c \in Requests : Progress(c)'
      BY <3>1, <3>2, CleanedProgress
    <3>4. Owned' /\ OneReceiptPerPayment'
      BY <3>1, <3>2 DEF Owned, OneReceiptPerPayment, Cleaned
    <3>5. ServedIsAnchored'
      BY <3>1 DEF ServedIsAnchored, HandedFor, Unshared
    <3>6. SettledLeavesNothing'
      BY <3>1, <3>2 DEF SettledLeavesNothing, Cleaned, Unshared, RailTypeOK
    <3> QED BY <3>3, <3>4, <3>5, <3>6
  <2>8. CASE Tick
    <3>1. \A c \in Requests : Progress(c)'
      BY <2>8 DEF Tick, Progress, Unshared, RailTypeOK
    <3>2. Owned' /\ OneReceiptPerPayment' /\ ServedIsAnchored' /\ SettledLeavesNothing'
      BY <2>8 DEF Tick, Owned, OneReceiptPerPayment, ServedIsAnchored, HandedFor,
                  SettledLeavesNothing, Unshared
    <3> QED BY <3>1, <3>2
  <2>9. CASE UNCHANGED railVars
    BY <2>9 DEF railVars, Progress, Owned, OneReceiptPerPayment, ServedIsAnchored, HandedFor,
                SettledLeavesNothing, Unshared
  <2> QED BY <2>1, <2>2, <2>3, <2>4, <2>5, <2>6, <2>7, <2>8, <2>9 DEF RailNext
<1> QED BY <1>1, <1>2, RailTypeCorrect, PTL DEF RailSpec

\* A request with a payment of its own is answered 200 exactly when its receipt,
\* under its own transaction, has been handed over for anchoring.
THEOREM Anchored == RailSpec => []ServedIsAnchored
<1>1. RailInv => ServedIsAnchored
  BY DEF RailInv
<1> QED BY <1>1, RailInvariant, PTL

\* One payment anchors one receipt, whatever requests carry it.
THEOREM OneReceipt == RailSpec => []OneReceiptPerPayment
<1>1. RailInv => OneReceiptPerPayment
  BY DEF RailInv
<1> QED BY <1>1, RailInvariant, PTL

\* The settle hooks leave neither map an entry of a request they ended.
THEOREM NoLeak == RailSpec => []SettledLeavesNothing
<1>1. RailInv => SettledLeavesNothing
  BY DEF RailInv
<1> QED BY <1>1, RailInvariant, PTL

-----------------------------------------------------------------------------
(* The sweep                                                                *)

SweepInv == RailTypeOK /\ InsertionSweeps /\ written.payers <= now /\ written.receipts <= now

LEMMA PutSweeps ==
    ASSUME RailAssumption, now \in Nat, NEW map \in [Txs -> Entry], NEW t \in Txs, NEW r,
           Ttl # 0
    PROVE  \A x \in Txs : Put(map, t, r)[x] # Gone => Put(map, t, r)[x].until > now
BY DEF RailAssumption, Put, Entry

\* What the settle hooks never remove is removed by the next insertion after its
\* time, in every state that follows it.
THEOREM Swept == RailSpec => []InsertionSweeps
<1> USE RailAssumption
<1>1. RailInit => InsertionSweeps /\ written.payers <= now /\ written.receipts <= now
  BY DEF RailInit, InsertionSweeps
<1>2. RailTypeOK /\ RailTypeOK' /\ SweepInv /\ [RailNext]_railVars => SweepInv'
  <2> SUFFICES ASSUME RailTypeOK, RailTypeOK', SweepInv, [RailNext]_railVars PROVE SweepInv'
    OBVIOUS
  <2> USE DEF SweepInv
  <2>0. Ttl # 0
    BY DEF RailAssumption
  <2>1. ASSUME NEW r \in Requests, Verified(r) PROVE SweepInv'
    <3>1. UNCHANGED <<receipts, now>> /\ written'.receipts = written.receipts
      BY <2>1 DEF Verified, RailTypeOK
    <3>2. CASE UNCHANGED <<payers, written>>
      BY <3>1, <3>2 DEF InsertionSweeps
    <3>3. CASE payers' = Put(payers, TxOf[r], r) /\ written' = [written EXCEPT !.payers = now]
      <4>1. \A t \in Txs : payers'[t] # Gone => payers'[t].until > now
        BY <2>0, <3>3, PutSweeps DEF RailTypeOK
      <4>2. written'.payers = now
        BY <3>3 DEF RailTypeOK
      <4> QED BY <3>1, <4>1, <4>2 DEF InsertionSweeps, RailTypeOK
    <3> QED BY <2>1, <3>2, <3>3 DEF Verified
  <2>2. ASSUME NEW r \in Requests, StoreReceipt(r) PROVE SweepInv'
    <3>1. UNCHANGED <<payers, now>> /\ written'.payers = written.payers /\ written'.receipts = now
      BY <2>2 DEF StoreReceipt, RailTypeOK
    <3>2. \A t \in Txs : receipts'[t] # Gone => receipts'[t].until > now
      BY <2>0, <2>2, PutSweeps DEF RailTypeOK, StoreReceipt
    <3> QED BY <3>1, <3>2 DEF InsertionSweeps, RailTypeOK
  <2>3. ASSUME NEW r \in Requests, SettleOk(r) \/ SettleFails(r) PROVE SweepInv'
    <3>1. Cleanup(TxOf[r]) /\ UNCHANGED <<written, now>>
      BY <2>3 DEF SettleOk, SettleFails
    <3> QED BY <3>1 DEF Cleanup, Delete, InsertionSweeps, RailTypeOK
  <2>4. CASE Tick
    BY <2>4 DEF Tick, InsertionSweeps, RailTypeOK
  <2>5. CASE UNCHANGED <<payers, receipts, written, now>>
    BY <2>5 DEF InsertionSweeps
  <2> QED BY <2>1, <2>2, <2>3, <2>4, <2>5 DEF RailNext, WorkFails, Answers, SendSettle, railVars
<1> QED BY <1>1, <1>2, RailTypeCorrect, PTL DEF RailSpec, SweepInv
=============================================================================
