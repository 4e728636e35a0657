-------------------------- MODULE VaultSink_proofs --------------------------
(***************************************************************************)
(* Proofs about VaultSink, for every set of vaults, owners and logs, every *)
(* refresh period and every outcome of the eth_calls.                      *)
(***************************************************************************)
EXTENDS VaultSink, Lemmas, FiniteSetTheorems, TLAPS

\* Two blocks on one refresh slot are a whole period apart.
LEMMA ModGap ==
  ASSUME NEW n \in Int, n > 0, NEW b \in Int, NEW c \in Int,
         b < c, b % n = c % n
  PROVE  c - b >= n
<1>1. PICK p \in Int : b = n * p + (b % n)
  BY DivMod
<1>2. PICK q \in Int : c = n * q + (c % n)
  BY DivMod
<1>3. PICK r \in Int : b = n * p + r /\ c = n * q + r
  BY <1>1, <1>2, DivMod
<1>4. n * p \in Int /\ n * q \in Int
  BY SMT
<1>5. n * p < n * q /\ c - b = n * q - n * p
  BY <1>3, <1>4, SMT
<1> QED BY <1>5, MultiplesGap

-----------------------------------------------------------------------------
(* One block, unfolded                                                      *)

Entry == [block: Nat, log: Log]

\* What the chain is after a block: the old entries, then the block's logs.
Extends(c, d, logs, b) ==
    /\ d \in Seq(Entry)
    /\ \A i \in DOMAIN c : i \in DOMAIN d /\ d[i] = c[i]
    /\ \A i \in DOMAIN logs : /\ Len(c) + i \in DOMAIN d
                             /\ d[Len(c) + i] = [block |-> b, log |-> logs[i]]
    /\ \A j \in DOMAIN d : \/ j \in DOMAIN c
                          \/ \E i \in DOMAIN logs : j = Len(c) + i

LEMMA Extended ==
  ASSUME NEW c \in Seq(Entry), NEW logs \in Seq(Log), NEW b \in Nat
  PROVE  Extends(c, c \o [i \in DOMAIN logs |-> [block |-> b, log |-> logs[i]]],
                 logs, b)
<1> DEFINE new == [i \in DOMAIN logs |-> [block |-> b, log |-> logs[i]]]
           d == c \o new
<1>1. DOMAIN logs = 1 .. Len(logs) /\ Len(logs) \in Nat
  OBVIOUS
<1>2. \A i \in DOMAIN logs : [block |-> b, log |-> logs[i]] \in Entry
  BY DEF Entry
<1>3. new \in Seq(Entry) /\ Len(new) = Len(logs) /\ DOMAIN new = DOMAIN logs
  <2>1. new \in [1 .. Len(logs) -> Entry]
    BY <1>1, <1>2
  <2> QED BY <2>1, <1>1
<1>4. \A i \in DOMAIN logs : new[i] = [block |-> b, log |-> logs[i]]
  OBVIOUS
<1> HIDE DEF new
<1>5. /\ d \in Seq(Entry)
      /\ Len(d) = Len(c) + Len(logs)
      /\ \A i \in 1 .. Len(c) : d[i] = c[i]
      /\ \A i \in 1 .. Len(logs) : d[Len(c) + i] = new[i]
  BY <1>1, <1>3
<1>6. DOMAIN d = 1 .. (Len(c) + Len(logs)) /\ DOMAIN c = 1 .. Len(c) /\ Len(c) \in Nat
  BY <1>5
<1> HIDE DEF d
<1>7. \A i \in DOMAIN c : i \in DOMAIN d /\ d[i] = c[i]
  BY <1>1, <1>5, <1>6
<1>8. \A i \in DOMAIN logs : /\ Len(c) + i \in DOMAIN d
                           /\ d[Len(c) + i] = [block |-> b, log |-> logs[i]]
  <2> TAKE i \in DOMAIN logs
  <2>1. i \in 1 .. Len(logs)
    BY <1>1
  <2>2. d[Len(c) + i] = new[i] /\ new[i] = [block |-> b, log |-> logs[i]]
    BY <2>1, <1>4, <1>5
  <2>3. Len(c) + i \in DOMAIN d
    BY <2>1, <1>1, <1>6
  <2> QED BY <2>2, <2>3
<1>9. \A j \in DOMAIN d : \/ j \in DOMAIN c
                        \/ \E i \in DOMAIN logs : j = Len(c) + i
  <2> TAKE j \in DOMAIN d
  <2>1. CASE j <= Len(c)
    BY <2>1, <1>6
  <2>2. CASE ~(j <= Len(c))
    <3>1. j - Len(c) \in DOMAIN logs /\ j = Len(c) + (j - Len(c))
      BY <2>2, <1>1, <1>6
    <3> QED BY <3>1
  <2> QED BY <2>1, <2>2
<1> QED
  BY <1>5, <1>7, <1>8, <1>9 DEF Extends, d, new

\* Every step is a block, of typed logs.
LEMMA StepIsBlock ==
  ASSUME block \in Nat, Next
  PROVE  \E b \in Nat, logs \in Seq(Log), created \in SUBSET Vaults :
           \E answers : /\ \E A : answers \in [A -> Figures]
                       /\ ProcessBlock(b, logs, created, answers)
<1>0. MaxBlock \in Nat /\ MaxLogs \in Nat /\ Logs \subseteq Log
  BY SinkAssumption DEF SinkAssumption
<1>1. PICK b \in block + 1 .. MaxBlock, logs \in BoundedSeq(Logs, MaxLogs) :
        \E created \in SUBSET NewVaults(logs) :
          \E answered \in SUBSET Due(logs, created, b) :
            \E answers \in [answered -> Figures] :
              ProcessBlock(b, logs, created, answers)
  BY DEF Next
<1>2. PICK created \in SUBSET NewVaults(logs) :
        \E answered \in SUBSET Due(logs, created, b) :
          \E answers \in [answered -> Figures] :
            ProcessBlock(b, logs, created, answers)
  BY <1>1
<1>3. PICK answered \in SUBSET Due(logs, created, b) :
        \E answers \in [answered -> Figures] :
          ProcessBlock(b, logs, created, answers)
  BY <1>2
<1>4. PICK answers \in [answered -> Figures] : ProcessBlock(b, logs, created, answers)
  BY <1>3
<1>5. b \in Nat
  BY <1>0
<1>6. logs \in Seq(Log)
  <2>1. PICK m \in 0 .. MaxLogs : logs \in [1 .. m -> Logs]
    BY DEF BoundedSeq, SeqOf
  <2>2. m \in Nat /\ logs \in [1 .. m -> Log]
    BY <1>0, <2>1
  <2>3. \A n \in Nat : [1 .. n -> Log] \subseteq Seq(Log)
    OBVIOUS
  <2> QED BY <2>2, <2>3
<1>7. created \in SUBSET Vaults
  <2>0. \A i \in DOMAIN logs : logs[i] \in Log
    BY <1>6
  <2>1. \A i \in DOMAIN logs : logs[i].vault \in Vaults
    BY <2>0 DEF Log
  <2> QED BY <2>1, <1>2 DEF NewVaults, Touched, Events
<1> QED BY <1>4, <1>5, <1>6, <1>7

-----------------------------------------------------------------------------
(* The history of the chain                                                 *)

ChainInv ==
    /\ block \in Nat
    /\ chain \in Seq(Entry)
    /\ \A i \in DOMAIN chain : chain[i].block <= block
    /\ \A v \in vaultSeen : v \in Vaults
    /\ \A i \in DOMAIN chain : chain[i].log.parses => chain[i].log.vault \in vaultSeen

\* What the other lemmas need of a step.
Block(b, logs, created, answers) ==
    /\ b \in Nat /\ logs \in Seq(Log) /\ created \subseteq Vaults
    /\ \E A : answers \in [A -> Figures]
    /\ b > block
    /\ created \subseteq NewVaults(logs)
    /\ DOMAIN answers \subseteq Due(logs, created, b)
    /\ SeenStores(logs, created)
    /\ FlowStores(logs)
    /\ lastCall' = Readings(answers, b)
    /\ Tables(logs, created, b)
    /\ block' = b
    /\ Extends(chain, chain', logs, b)
    /\ calls' = calls \cup (Due(logs, created, b) \X {b})

LEMMA StepBlock ==
  ASSUME ChainInv, Next
  PROVE  \E b, logs, created, answers : Block(b, logs, created, answers)
<1>1. block \in Nat /\ chain \in Seq(Entry)
  BY DEF ChainInv
<1>2. PICK b \in Nat, logs \in Seq(Log), created \in SUBSET Vaults :
        \E answers : /\ \E A : answers \in [A -> Figures]
                    /\ ProcessBlock(b, logs, created, answers)
  BY <1>1, StepIsBlock
<1>3. PICK answers : /\ \E A : answers \in [A -> Figures]
                     /\ ProcessBlock(b, logs, created, answers)
  BY <1>2
<1>4. chain' = chain \o [i \in DOMAIN logs |-> [block |-> b, log |-> logs[i]]]
  BY <1>3 DEF ProcessBlock
<1>5. Extends(chain, chain', logs, b)
  BY <1>1, <1>4, Extended
<1>6. Block(b, logs, created, answers)
  BY <1>3, <1>5 DEF Block, ProcessBlock
<1> QED BY <1>6

LEMMA ChainStep ==
  ASSUME ChainInv, NEW b, NEW logs, NEW created, NEW answers,
         Block(b, logs, created, answers)
  PROVE  ChainInv'
<1> USE DEF ChainInv, Block
<1>1. block' \in Nat /\ chain' \in Seq(Entry)
  BY DEF Extends
<1>2. \A i \in DOMAIN logs : logs[i] \in Log
  OBVIOUS
<1>3. \A j \in DOMAIN chain' :
        \/ j \in DOMAIN chain /\ chain'[j] = chain[j]
        \/ \E i \in DOMAIN logs : chain'[j] = [block |-> b, log |-> logs[i]]
  BY DEF Extends
<1>4. \A j \in DOMAIN chain' : chain'[j].block <= block'
  <2>1. \A j \in DOMAIN chain : chain[j].block \in Nat
    <3>1. \A j \in DOMAIN chain : chain[j] \in Entry
      OBVIOUS
    <3> QED BY <3>1 DEF Entry
  <2>2. \A j \in DOMAIN chain : chain[j].block <= block'
    BY <2>1
  <2> QED BY <1>3, <2>2
<1>5. vaultSeen' = vaultSeen \cup Touched(logs)
  BY DEF SeenStores
<1>6. \A v \in Touched(logs) : v \in Vaults
  BY <1>2 DEF Touched, Events, Log
<1>7. \A i \in DOMAIN logs : logs[i].parses => logs[i].vault \in Touched(logs)
  BY DEF Touched, Events
<1>8. \A j \in DOMAIN chain' :
        chain'[j].log.parses => chain'[j].log.vault \in vaultSeen'
  <2> TAKE j \in DOMAIN chain'
  <2>1. CASE j \in DOMAIN chain /\ chain'[j] = chain[j]
    BY <2>1, <1>5
  <2>2. CASE \E i \in DOMAIN logs : chain'[j] = [block |-> b, log |-> logs[i]]
    <3>1. PICK i \in DOMAIN logs : chain'[j] = [block |-> b, log |-> logs[i]]
      BY <2>2
    <3>2. chain'[j].log = logs[i]
      BY <3>1
    <3> HIDE DEF ChainInv, Block
    <3> QED BY <3>2, <1>5, <1>7
  <2> QED BY <1>3, <2>1, <2>2
<1> QED
  BY <1>1, <1>4, <1>5, <1>6, <1>8

THEOREM ChainSound == Spec => []ChainInv
<1>1. Init => ChainInv
  BY DEF Init, ChainInv
<1>2. ChainInv /\ [Next]_vars => ChainInv'
  <2> SUFFICES ASSUME ChainInv, [Next]_vars PROVE ChainInv'
    OBVIOUS
  <2>1. CASE Next
    BY <2>1, StepBlock, ChainStep
  <2>2. CASE UNCHANGED vars
    BY <2>2 DEF vars, stores, ChainInv
  <2> QED BY <2>1, <2>2
<1> QED BY <1>1, <1>2, PTL DEF Spec

-----------------------------------------------------------------------------
(* Depositors                                                               *)

KeysOf(S, v) == {k \in S : k[1] = v}

LEMMA KeysFinite ==
  ASSUME NEW S \in SUBSET (Vaults \X Owners), NEW v
  PROVE  IsFiniteSet(KeysOf(S, v))
<1>1. IsFiniteSet({v}) /\ IsFiniteSet(Owners)
  BY FS_Singleton, SinkAssumption DEF SinkAssumption
<1>2. IsFiniteSet({v} \X Owners)
  BY <1>1, FS_Product
<1>3. KeysOf(S, v) \subseteq {v} \X Owners
  BY DEF KeysOf
<1> QED BY <1>2, <1>3, FS_Subset

\* Counting the new keys of a vault on top of the old ones counts their union.
LEMMA KeysAdd ==
  ASSUME NEW S \in SUBSET (Vaults \X Owners), NEW T \in SUBSET (Vaults \X Owners),
         S \cap T = {}, NEW v
  PROVE  /\ Cardinality(KeysOf(S \cup T, v))
              = Cardinality(KeysOf(S, v)) + Cardinality(KeysOf(T, v))
         /\ Cardinality(KeysOf(S, v)) \in Nat
         /\ Cardinality(KeysOf(T, v)) \in Nat
<1>1. IsFiniteSet(KeysOf(S, v)) /\ IsFiniteSet(KeysOf(T, v))
  BY KeysFinite
<1>2. KeysOf(S \cup T, v) = KeysOf(S, v) \cup KeysOf(T, v)
  BY DEF KeysOf
<1>3. KeysOf(S, v) \cap KeysOf(T, v) = {}
  BY DEF KeysOf
<1>4. Cardinality(KeysOf(S, v) \cup KeysOf(T, v))
        = Cardinality(KeysOf(S, v)) + Cardinality(KeysOf(T, v)) - Cardinality({})
  BY <1>1, <1>3, FS_Union
<1>5. Cardinality(KeysOf(S, v)) \in Nat /\ Cardinality(KeysOf(T, v)) \in Nat
  BY <1>1, FS_CardinalityType
<1>6. Cardinality({}) = 0
  BY FS_EmptySet
<1>7. \A x, y, z, e \in Int : x = y + z - e /\ e = 0 => x = y + z
  OBVIOUS
<1>8. Cardinality(KeysOf(S, v) \cup KeysOf(T, v)) \in Nat
  BY <1>1, FS_Union, FS_CardinalityType
<1>9. Cardinality(KeysOf(S, v) \cup KeysOf(T, v))
        = Cardinality(KeysOf(S, v)) + Cardinality(KeysOf(T, v))
  BY <1>4, <1>5, <1>6, <1>7, <1>8
<1> QED BY <1>2, <1>5, <1>9, Zenon

CountInv ==
    /\ depositorSeen \subseteq Vaults \X Owners
    /\ depositorSeen = Deposited
    /\ \A v \in Vaults : count[v] = Cardinality(KeysOf(depositorSeen, v))
    /\ \A v \in Vaults \cap DOMAIN vaultLatest : vaultLatest[v].count = count[v]

\* The keys a block's deposits name, created before or not.
Named(logs) ==
    {<<logs[i].vault, logs[i].owner>> :
        i \in {j \in Events(logs) : logs[j].kind = "deposit"}}

LEMMA NamedTyped ==
  ASSUME NEW logs \in Seq(Log)
  PROVE  /\ Named(logs) \subseteq Vaults \X Owners
         /\ \A k \in Named(logs) : k[1] \in Touched(logs)
<1>1. \A i \in DOMAIN logs : logs[i] \in Log
  OBVIOUS
<1> QED BY <1>1 DEF Named, Events, Touched, Log

LEMMA DepositedGrows ==
  ASSUME ChainInv, NEW b, NEW logs, NEW created, NEW answers,
         Block(b, logs, created, answers)
  PROVE  Deposited' = Deposited \cup Named(logs)
<1> DEFINE key(d, j) == <<d[j].log.vault, d[j].log.owner>>
           dep1(d, j) == d[j].log.parses /\ d[j].log.kind = "deposit"
<1>1. Extends(chain, chain', logs, b)
  BY DEF Block
<1>2. ASSUME NEW k \in Deposited PROVE k \in Deposited'
  <2>1. PICK j \in DOMAIN chain : dep1(chain, j) /\ k = key(chain, j)
    BY <1>2 DEF Deposited
  <2>2. j \in DOMAIN chain' /\ chain'[j] = chain[j]
    BY <1>1 DEF Extends
  <2> QED BY <2>1, <2>2 DEF Deposited
<1>3. ASSUME NEW k \in Named(logs) PROVE k \in Deposited'
  <2>1. PICK i \in DOMAIN logs : /\ logs[i].parses /\ logs[i].kind = "deposit"
                                /\ k = <<logs[i].vault, logs[i].owner>>
    BY <1>3 DEF Named, Events
  <2>2. /\ Len(chain) + i \in DOMAIN chain'
        /\ chain'[Len(chain) + i] = [block |-> b, log |-> logs[i]]
    BY <1>1 DEF Extends
  <2>3. chain'[Len(chain) + i].log = logs[i]
    BY <2>2
  <2> QED BY <2>1, <2>2, <2>3 DEF Deposited
<1>4. ASSUME NEW k \in Deposited' PROVE k \in Deposited \cup Named(logs)
  <2>1. PICK j \in DOMAIN chain' : dep1(chain', j) /\ k = key(chain', j)
    BY <1>4 DEF Deposited
  <2>2. CASE j \in DOMAIN chain
    <3>1. chain'[j] = chain[j]
      BY <1>1, <2>2 DEF Extends
    <3> QED BY <2>1, <2>2, <3>1 DEF Deposited
  <2>3. CASE \E i \in DOMAIN logs : j = Len(chain) + i
    <3>1. PICK i \in DOMAIN logs : j = Len(chain) + i
      BY <2>3
    <3>2. chain'[j] = [block |-> b, log |-> logs[i]]
      BY <1>1, <3>1 DEF Extends
    <3>3. chain'[j].log = logs[i]
      BY <3>2
    <3> QED BY <2>1, <3>3 DEF Named, Events
  <2> QED BY <1>1, <2>2, <2>3 DEF Extends
<1> QED BY <1>2, <1>3, <1>4

LEMMA CountStep ==
  ASSUME ChainInv, CountInv, NEW b, NEW logs, NEW created, NEW answers,
         Block(b, logs, created, answers)
  PROVE  CountInv'
<1> DEFINE new == Named(logs) \ depositorSeen
<1>1. logs \in Seq(Log)
  BY DEF Block
<1>2. NewDepositors(logs) = new
  BY DEF NewDepositors, Named
<1>3. new \in SUBSET (Vaults \X Owners) /\ new \cap depositorSeen = {}
  BY <1>1, NamedTyped
<1>4. depositorSeen' = depositorSeen \cup new
  BY <1>2 DEF Block, SeenStores
<1>5. depositorSeen' = Deposited'
  BY <1>4, DepositedGrows DEF CountInv
<1>6. depositorSeen' \subseteq Vaults \X Owners
  BY <1>3, <1>4 DEF CountInv
<1>7. \A v \in Vaults : count'[v] = count[v] + Cardinality(KeysOf(new, v))
  BY <1>2 DEF Block, SeenStores, KeysOf
<1>8. \A v \in Vaults : count'[v] = Cardinality(KeysOf(depositorSeen', v))
  <2> TAKE v \in Vaults
  <2>1. depositorSeen \in SUBSET (Vaults \X Owners)
    BY DEF CountInv
  <2>2. Cardinality(KeysOf(depositorSeen \cup new, v))
          = Cardinality(KeysOf(depositorSeen, v)) + Cardinality(KeysOf(new, v))
    BY <2>1, <1>3, KeysAdd
  <2> QED BY <1>4, <1>7, <2>2 DEF CountInv
<1>9. \A v \in Vaults \cap DOMAIN vaultLatest' : vaultLatest'[v].count = count'[v]
  <2> TAKE v \in Vaults \cap DOMAIN vaultLatest'
  <2>1. CASE v \in Touched(logs)
    <3>1. vaultLatest'[v] = Upserted(Metrics(logs, v, b))
      BY <2>1 DEF Block, Tables
    <3>2. Metrics(logs, v, b).count = count'[v]
      BY DEF Metrics
    <3>3. Upserted(Metrics(logs, v, b)).count = Metrics(logs, v, b).count
      BY DEF Upserted, Metrics
    <3> QED BY <3>1, <3>2, <3>3
  <2>2. CASE v \notin Touched(logs)
    <3>1. v \in DOMAIN vaultLatest /\ vaultLatest'[v] = vaultLatest[v]
      BY <2>2 DEF Block, Tables
    <3>2. KeysOf(new, v) = {}
      BY <2>2, <1>1, NamedTyped DEF KeysOf
    <3>3. count[v] \in Nat
      BY <1>3, KeysFinite, FS_CardinalityType DEF CountInv
    <3>4. Cardinality(KeysOf(new, v)) = 0
      BY <3>2, FS_EmptySet
    <3>5. vaultLatest[v].count = count[v]
      BY <3>1 DEF CountInv
    <3>6. count'[v] = count[v] + 0
      BY <1>7, <3>4
    <3> QED BY <3>1, <3>3, <3>5, <3>6
  <2> QED BY <2>1, <2>2
<1> QED BY <1>5, <1>6, <1>8, <1>9 DEF CountInv

\* The depositor counts in the stores and in the tables are the number of
\* distinct owners the chain's deposits name (store_depositor_count).
THEOREM CountsCorrect == Spec => []CountsDistinctDepositors
<1>1. Init => CountInv
  BY FS_EmptySet DEF Init, CountInv, Deposited, KeysOf
<1>2. ChainInv /\ CountInv /\ [Next]_vars => CountInv'
  <2> SUFFICES ASSUME ChainInv, CountInv, [Next]_vars PROVE CountInv'
    OBVIOUS
  <2>1. CASE Next
    BY <2>1, StepBlock, CountStep
  <2>2. CASE UNCHANGED vars
    BY <2>2 DEF vars, stores, tables, CountInv, Deposited
  <2> QED BY <2>1, <2>2
<1>3. CountInv => CountsDistinctDepositors
  BY DEF CountInv, CountsDistinctDepositors, KeysOf
<1> QED BY <1>1, <1>2, <1>3, ChainSound, PTL DEF Spec

-----------------------------------------------------------------------------
(* Calls                                                                    *)

TouchedAt(v, b) == \E i \in LogsOf(v) : chain[i].block = b

CallInv ==
    \A k \in calls :
      /\ k \in Vaults \X Nat
      /\ k[2] <= block
      /\ TouchedAt(k[1], k[2])
      /\ FirstTouch(k[1], k[2]) \/ k[2] % CallEvery = CallPhase(k[1])

\* The logs of a vault after a block are the old ones and the block's own.
LEMMA LogsGrow ==
  ASSUME ChainInv, NEW b, NEW logs, NEW created, NEW answers,
         Block(b, logs, created, answers), NEW v
  PROVE  /\ \A i \in LogsOf(v) : /\ i \in LogsOf(v)'
                                /\ chain'[i].block = chain[i].block
         /\ \A j \in LogsOf(v)' : j \in LogsOf(v) \/ chain'[j].block = b
         /\ v \in Touched(logs) => TouchedAt(v, b)'
<1>1. Extends(chain, chain', logs, b)
  BY DEF Block
<1>2. \A i \in LogsOf(v) : /\ i \in LogsOf(v)'
                         /\ chain'[i].block = chain[i].block
  BY <1>1 DEF Extends, LogsOf
<1>3. ASSUME NEW j \in LogsOf(v)' PROVE j \in LogsOf(v) \/ chain'[j].block = b
  <2>1. j \in DOMAIN chain'
    BY DEF LogsOf
  <2>2. CASE j \in DOMAIN chain
    BY <1>1, <2>2 DEF Extends, LogsOf
  <2>3. CASE \E i \in DOMAIN logs : j = Len(chain) + i
    <3>1. PICK i \in DOMAIN logs : j = Len(chain) + i
      BY <2>3
    <3>2. chain'[j] = [block |-> b, log |-> logs[i]]
      BY <1>1, <3>1 DEF Extends
    <3> QED BY <3>2
  <2> QED BY <1>1, <2>1, <2>2, <2>3 DEF Extends
<1>4. ASSUME v \in Touched(logs) PROVE TouchedAt(v, b)'
  <2>1. PICK i \in DOMAIN logs : logs[i].parses /\ logs[i].vault = v
    BY <1>4 DEF Touched, Events
  <2>2. /\ Len(chain) + i \in DOMAIN chain'
        /\ chain'[Len(chain) + i] = [block |-> b, log |-> logs[i]]
    BY <1>1 DEF Extends
  <2>3. /\ chain'[Len(chain) + i].log = logs[i]
        /\ chain'[Len(chain) + i].block = b
    BY <2>2
  <2> QED BY <2>1, <2>2, <2>3 DEF TouchedAt, LogsOf
<1> QED BY <1>2, <1>3, <1>4

\* A block that does not touch a vault adds nothing to its logs.
LEMMA LogsKept ==
  ASSUME NEW b, NEW logs, Extends(chain, chain', logs, b),
         NEW v, v \notin Touched(logs), NEW j \in LogsOf(v)'
  PROVE  j \in LogsOf(v)
<1>1. j \in DOMAIN chain' /\ chain'[j].log.vault = v /\ chain'[j].log.parses
  BY DEF LogsOf
<1>2. CASE j \in DOMAIN chain
  BY <1>1, <1>2 DEF Extends, LogsOf
<1>3. CASE \E i \in DOMAIN logs : j = Len(chain) + i
  <2>1. PICK i \in DOMAIN logs : j = Len(chain) + i
    BY <1>3
  <2>2. chain'[j] = [block |-> b, log |-> logs[i]]
    BY <2>1 DEF Extends
  <2>3. chain'[j].log = logs[i]
    BY <2>2
  <2> QED BY <1>1, <2>3 DEF Touched, Events
<1> QED BY <1>1, <1>2, <1>3 DEF Extends

LEMMA CallStep ==
  ASSUME ChainInv, ChainInv', CallInv, NEW b, NEW logs, NEW created, NEW answers,
         Block(b, logs, created, answers)
  PROVE  CallInv'
<1>1. b \in Nat /\ block \in Nat /\ b > block /\ block' = b /\ logs \in Seq(Log)
  BY DEF Block, ChainInv
<1>2. SUFFICES ASSUME NEW k \in calls'
               PROVE  /\ k \in Vaults \X Nat /\ k[2] <= block'
                      /\ TouchedAt(k[1], k[2])'
                      /\ FirstTouch(k[1], k[2])' \/ k[2] % CallEvery = CallPhase(k[1])
  BY DEF CallInv
<1>3. calls' = calls \cup (Due(logs, created, b) \X {b})
  BY DEF Block
<1>4. \A i \in DOMAIN chain : chain[i].block <= block
  BY DEF ChainInv
<1>5. CASE k \in calls
  <2>1. k \in Vaults \X Nat /\ k[2] \in Nat /\ k[2] <= block /\ TouchedAt(k[1], k[2])
    BY <1>5 DEF CallInv
  <2>2. TouchedAt(k[1], k[2])'
    BY <2>1, LogsGrow DEF TouchedAt
  <2>3. FirstTouch(k[1], k[2]) => FirstTouch(k[1], k[2])'
    <3> SUFFICES ASSUME FirstTouch(k[1], k[2]), NEW j \in LogsOf(k[1])'
                 PROVE  chain'[j].block >= k[2]
      BY DEF FirstTouch
    <3>1. CASE j \in LogsOf(k[1])
      <4>1. chain'[j].block = chain[j].block
        BY <3>1, LogsGrow
      <4> QED BY <3>1, <4>1 DEF FirstTouch
    <3>2. CASE chain'[j].block = b
      BY <3>2, <1>1, <2>1
    <3> QED BY <3>1, <3>2, LogsGrow
  <2>4. FirstTouch(k[1], k[2]) \/ k[2] % CallEvery = CallPhase(k[1])
    BY <1>5 DEF CallInv
  <2> QED BY <1>1, <2>1, <2>2, <2>3, <2>4
<1>6. CASE k \in Due(logs, created, b) \X {b}
  <2>1. PICK v \in Due(logs, created, b) : k = <<v, b>>
    BY <1>6
  <2>2. v \in Touched(logs) /\ (v \in created \/ b % CallEvery = CallPhase(v))
    BY <2>1 DEF Due
  <2>3. v \in Vaults
    <3>1. \A i \in DOMAIN logs : logs[i] \in Log
      BY <1>1
    <3> QED BY <2>2, <3>1 DEF Touched, Events, Log
  <2>4. TouchedAt(v, b)'
    BY <2>2, LogsGrow
  <2>5. v \in created => FirstTouch(v, b)'
    <3> SUFFICES ASSUME v \in created, NEW j \in LogsOf(v)'
                 PROVE  chain'[j].block >= b
      BY DEF FirstTouch
    <3>1. v \notin vaultSeen
      BY DEF Block, NewVaults
    <3>2. LogsOf(v) = {}
      BY <3>1 DEF ChainInv, LogsOf
    <3>3. chain'[j].block = b
      BY <3>2, LogsGrow
    <3> QED BY <1>1, <3>3
  <2>6. /\ k[1] = v /\ k[2] = b /\ k \in Vaults \X Nat
        /\ k[2] <= block'
    BY <1>1, <2>1, <2>3
  <2>7. FirstTouch(v, b)' \/ b % CallEvery = CallPhase(v)
    BY <2>2, <2>5
  <2> QED BY <2>4, <2>6, <2>7
<1> QED BY <1>3, <1>5, <1>6

\* Beyond first sight, a vault's totals are asked for at most once a period
\* (store_last_call, which cannot read its own store).
THEOREM CallsCorrect == Spec => []CallsAreRationed
<1>1. Init => CallInv
  BY DEF Init, CallInv
<1>2. ChainInv /\ ChainInv' /\ CallInv /\ [Next]_vars => CallInv'
  <2> SUFFICES ASSUME ChainInv, ChainInv', CallInv, [Next]_vars PROVE CallInv'
    OBVIOUS
  <2>1. CASE Next
    BY <2>1, StepBlock, CallStep
  <2>2. CASE UNCHANGED vars
    BY <2>2 DEF vars, stores, CallInv, TouchedAt, FirstTouch, LogsOf
  <2> QED BY <2>1, <2>2
<1>3. CallInv => CallsAreRationed
  <2> SUFFICES ASSUME CallInv, NEW v \in Vaults, NEW b, NEW c,
                      <<v, b>> \in calls, <<v, c>> \in calls, b < c,
                      ~FirstTouch(v, b)
               PROVE  c - b >= CallEvery
    BY DEF CallsAreRationed
  <2>1. b \in Nat /\ c \in Nat
    BY DEF CallInv
  <2>2. b % CallEvery = CallPhase(v)
    BY DEF CallInv
  <2>3. ~FirstTouch(v, c)
    <3>1. TouchedAt(v, b)
      BY DEF CallInv
    <3>2. PICK i \in LogsOf(v) : chain[i].block = b
      BY <3>1 DEF TouchedAt
    <3>3. ~(chain[i].block >= c)
      BY <2>1, <3>2
    <3> QED BY <3>2, <3>3 DEF FirstTouch
  <2>4. c % CallEvery = CallPhase(v)
    BY <2>3 DEF CallInv
  <2>5. CallEvery \in Int /\ CallEvery > 0
    BY SinkAssumption DEF SinkAssumption
  <2> QED BY <2>1, <2>2, <2>4, <2>5, ModGap
<1> QED BY <1>1, <1>2, <1>3, ChainSound, PTL DEF Spec

-----------------------------------------------------------------------------
(* Totals                                                                   *)

ReadOf(v) == {r \in vaultMetrics : r.vault = v /\ r.source = "call"}

LatestTotals(v) ==
    \/ ReadOf(v) = {} /\ vaultLatest[v].totals = NoTotals
    \/ \E r \in ReadOf(v) : /\ \A s \in ReadOf(v) : s.block <= r.block
                          /\ vaultLatest[v].totals = r.totals

TotalsInv ==
    /\ \A v \in DOMAIN lastCall :
         lastCall[v].block \in Nat /\ lastCall[v].block <= block
    /\ \A r \in vaultMetrics :
         /\ r.block \in Nat /\ r.block <= block
         /\ r.vault \in DOMAIN vaultLatest
         /\ r.source = "call" => <<r.vault, r.block>> \in calls
         /\ (r.source = "call") = (r.totals.supply > 0)
    /\ \A v \in DOMAIN vaultLatest : LatestTotals(v)

\* What a block's row says of its source.
LEMMA RowSource ==
  ASSUME ChainInv, TotalsInv, NEW b, NEW logs, NEW created, NEW answers,
         Block(b, logs, created, answers), NEW v
  PROVE  /\ Metrics(logs, v, b).vault = v
         /\ Metrics(logs, v, b).block = b
         /\ \/ /\ Metrics(logs, v, b).source = "call"
               /\ Metrics(logs, v, b).totals.supply > 0
               /\ v \in Due(logs, created, b)
            \/ /\ Metrics(logs, v, b).source = "event"
               /\ Metrics(logs, v, b).totals = NoTotals
<1> DEFINE row == Metrics(logs, v, b)
<1>1. row.vault = v /\ row.block = b
  BY DEF Metrics
<1>2. CASE Verified(lastCall', v, b)
  <2>1. /\ row.source = "call"
        /\ row.totals.supply = lastCall'[v].supply
    BY <1>2 DEF Metrics
  <2>2. v \in DOMAIN lastCall' /\ lastCall'[v].block = b
    BY <1>2 DEF Verified
  <2>3. lastCall' = Readings(answers, b)
    BY DEF Block
  <2>4. v \in Refreshed(answers)
    <3> SUFFICES ASSUME v \notin Refreshed(answers) PROVE FALSE
      OBVIOUS
    <3>1. v \in DOMAIN lastCall /\ lastCall'[v] = lastCall[v]
      BY <2>2, <2>3 DEF Readings
    <3>2. lastCall[v].block <= block /\ lastCall[v].block \in Nat
      BY <3>1 DEF TotalsInv
    <3> QED BY <2>2, <3>1, <3>2 DEF Block, ChainInv
  <2>5. lastCall'[v].supply = answers[v].supply
    BY <2>3, <2>4 DEF Readings
  <2>6. answers[v].supply > 0 /\ v \in DOMAIN answers
    BY <2>4 DEF Refreshed
  <2>7. v \in Due(logs, created, b)
    BY <2>6 DEF Block
  <2> QED BY <1>1, <2>1, <2>5, <2>6, <2>7
<1>3. CASE ~Verified(lastCall', v, b)
  BY <1>1, <1>3 DEF Metrics
<1> QED BY <1>2, <1>3

LEMMA TotalsStep ==
  ASSUME ChainInv, TotalsInv, NEW b, NEW logs, NEW created, NEW answers,
         Block(b, logs, created, answers)
  PROVE  TotalsInv'
<1> DEFINE touched == Touched(logs)
           row(v) == Metrics(logs, v, b)
<1>1. b \in Nat /\ block \in Nat /\ b > block /\ block' = b
  BY DEF Block, ChainInv
<1>2. /\ vaultMetrics' = vaultMetrics \cup {row(v) : v \in touched}
      /\ DOMAIN vaultLatest' = DOMAIN vaultLatest \cup touched
      /\ \A v \in touched : vaultLatest'[v] = Upserted(row(v))
      /\ \A v \in DOMAIN vaultLatest \ touched : vaultLatest'[v] = vaultLatest[v]
  BY DEF Block, Tables
<1>3. calls' = calls \cup (Due(logs, created, b) \X {b})
  BY DEF Block
<1>4. \A v \in DOMAIN lastCall' :
        lastCall'[v].block \in Nat /\ lastCall'[v].block <= block'
  <2> TAKE v \in DOMAIN lastCall'
  <2>1. lastCall' = Readings(answers, b)
    BY DEF Block
  <2>2. CASE v \in Refreshed(answers)
    BY <1>1, <2>1, <2>2 DEF Readings
  <2>3. CASE v \notin Refreshed(answers)
    <3>1. v \in DOMAIN lastCall /\ lastCall'[v] = lastCall[v]
      BY <2>1, <2>3 DEF Readings
    <3> QED BY <1>1, <3>1 DEF TotalsInv
  <2> QED BY <2>2, <2>3
<1> HIDE DEF row
<1>5. \A v : /\ row(v).vault = v /\ row(v).block = b
            /\ \/ /\ row(v).source = "call" /\ row(v).totals.supply > 0
                  /\ v \in Due(logs, created, b)
               \/ row(v).source = "event" /\ row(v).totals = NoTotals
  BY RowSource DEF row
<1>6. \A r \in vaultMetrics' :
        /\ r.block \in Nat /\ r.block <= block'
        /\ r.vault \in DOMAIN vaultLatest'
        /\ r.source = "call" => <<r.vault, r.block>> \in calls'
        /\ (r.source = "call") = (r.totals.supply > 0)
  <2> TAKE r \in vaultMetrics'
  <2>1. CASE r \in vaultMetrics
    BY <1>1, <1>2, <1>3, <2>1 DEF TotalsInv
  <2>2. CASE \E v \in touched : r = row(v)
    <3>1. PICK v \in touched : r = row(v)
      BY <2>2
    <3>2. r.block \in Nat /\ r.block <= block' /\ r.vault \in DOMAIN vaultLatest'
      BY <1>1, <1>2, <1>5, <3>1
    <3>3. r.source = "call" => <<r.vault, r.block>> \in calls'
      BY <1>3, <1>5, <3>1
    <3>4. (r.source = "call") = (r.totals.supply > 0)
      BY <1>5, <3>1 DEF NoTotals
    <3> QED BY <3>2, <3>3, <3>4
  <2> QED BY <1>2, <2>1, <2>2
<1>7. \A r \in vaultMetrics : r.block \in Nat /\ r.block <= block
  BY DEF TotalsInv
<1>8. \A v \in DOMAIN vaultLatest' : LatestTotals(v)'
  <2> TAKE v \in DOMAIN vaultLatest'
  <2>1. CASE v \notin touched
    <3>1. ReadOf(v)' = ReadOf(v)
      BY <1>2, <1>5, <2>1 DEF ReadOf
    <3>2. v \in DOMAIN vaultLatest /\ vaultLatest'[v] = vaultLatest[v]
      BY <1>2, <2>1
    <3>3. LatestTotals(v)
      BY <3>2 DEF TotalsInv
    <3> QED BY <3>1, <3>2, <3>3 DEF LatestTotals
  <2>2. CASE v \in touched /\ row(v).source = "call"
    <3>1. vaultLatest'[v] = row(v)
      BY <1>2, <2>2 DEF Upserted
    <3>2. row(v) \in ReadOf(v)'
      BY <1>2, <1>5, <2>2 DEF ReadOf
    <3>3. \A s \in ReadOf(v)' : s.block <= row(v).block
      BY <1>1, <1>2, <1>5, <1>7 DEF ReadOf
    <3> QED BY <3>1, <3>2, <3>3 DEF LatestTotals
  <2>3. CASE v \in touched /\ row(v).source = "event"
    <3>1. ReadOf(v)' = ReadOf(v)
      BY <1>2, <1>5, <2>3 DEF ReadOf
    <3>2. CASE v \in DOMAIN vaultLatest
      <4>1. vaultLatest'[v].totals = vaultLatest[v].totals
        <5>1. vaultLatest'[v]
                = [row(v) EXCEPT !.totals = vaultLatest[row(v).vault].totals]
          BY <1>2, <1>5, <2>3, <3>2 DEF Upserted
        <5>2. \A x : [row(v) EXCEPT !.totals = x].totals = x
          BY DEF row, Metrics
        <5>3. vaultLatest[row(v).vault].totals = vaultLatest[v].totals
          BY <1>5
        <5> QED BY <5>1, <5>2, <5>3
      <4>2. LatestTotals(v)
        BY <3>2 DEF TotalsInv
      <4> QED BY <3>1, <4>1, <4>2 DEF LatestTotals
    <3>3. CASE v \notin DOMAIN vaultLatest
      <4>1. ReadOf(v) = {}
        BY <3>3 DEF TotalsInv, ReadOf
      <4>2. vaultLatest'[v] = row(v)
        BY <1>2, <1>5, <2>3, <3>3 DEF Upserted
      <4>3. vaultLatest'[v].totals = NoTotals
        BY <4>2, <1>5, <2>3
      <4> QED BY <3>1, <4>1, <4>3 DEF LatestTotals
    <3> QED BY <3>2, <3>3
  <2> QED BY <1>5, <2>1, <2>2, <2>3
<1> QED BY <1>4, <1>6, <1>8 DEF TotalsInv

\* Readings, rows and the latest row stay in step (store_last_call, db_out).
THEOREM TotalsSound == Spec => []TotalsInv
<1>1. Init => TotalsInv
  BY DEF Init, TotalsInv
<1>2. ChainInv /\ TotalsInv /\ [Next]_vars => TotalsInv'
  <2> SUFFICES ASSUME ChainInv, TotalsInv, [Next]_vars PROVE TotalsInv'
    OBVIOUS
  <2>1. CASE Next
    BY <2>1, StepBlock, TotalsStep
  <2>2. CASE UNCHANGED vars
    BY <2>2 DEF vars, stores, tables, TotalsInv, LatestTotals, ReadOf
  <2> QED BY <2>1, <2>2
<1> QED BY <1>1, <1>2, ChainSound, PTL DEF Spec

\* The totals in vault_latest are those of the newest row a call stands behind
\* (map_vault_metrics, and the columns db_out leaves out of an upsert).
THEOREM TotalsCorrect == Spec => []TotalsAreTheNewestReading
<1>1. TotalsInv => TotalsAreTheNewestReading
  <2> SUFFICES ASSUME TotalsInv PROVE TotalsAreTheNewestReading
    OBVIOUS
  <2>1. \A r \in vaultMetrics : /\ r.source = "call" => <<r.vault, r.block>> \in calls
                              /\ (r.source = "call") = (r.totals.supply > 0)
    BY DEF TotalsInv
  <2>2. \A v \in DOMAIN vaultLatest : LatestTotals(v)
    BY DEF TotalsInv
  <2> QED BY <2>1, <2>2, Zenon DEF TotalsAreTheNewestReading, LatestTotals, ReadOf
<1> QED BY <1>1, TotalsSound, PTL

-----------------------------------------------------------------------------
(* Flows                                                                    *)

\* The entries of a chain that a vault's flow of one kind is made of.
FlowIdx(c, v, k) ==
    {j \in {i \in DOMAIN c : c[i].log.vault = v /\ c[i].log.parses} :
        c[j].log.kind = k}

FlowOn(c, v, k) ==
    SumFunctionOnSet([i \in FlowIdx(c, v, k) |-> c[i].log.assets], FlowIdx(c, v, k))

LEMMA FlowIs ==
  /\ \A v, k : SumOver(v, k) = FlowOn(chain, v, k)
  /\ \A v, k : SumOver(v, k)' = FlowOn(chain', v, k)
BY DEF SumOver, SumFunction, FlowOn, FlowIdx, LogsOf

LEMMA AssetsIs ==
  ASSUME NEW logs, NEW v, NEW k
  PROVE  Assets(logs, v, k)
           = SumFunctionOnSet([i \in OfKind(logs, v, k) |-> logs[i].assets],
                              OfKind(logs, v, k))
BY DEF Assets, SumFunction

\* What a kind adds up to is a figure, over a chain and over a block.
LEMMA FlowTyped ==
  ASSUME NEW c \in Seq(Entry), NEW v, NEW k
  PROVE  IsFiniteSet(FlowIdx(c, v, k)) /\ FlowOn(c, v, k) \in Nat
<1> DEFINE I == FlowIdx(c, v, k)
           w == [i \in I |-> c[i].log.assets]
<1>1. I \subseteq 1 .. Len(c) /\ Len(c) \in Nat
  BY DEF FlowIdx
<1>2. IsFiniteSet(I)
  <2>1. IsFiniteSet(1 .. Len(c))
    BY <1>1, FS_Interval
  <2> QED BY <1>1, <2>1, FS_Subset
<1>3. \A i \in I : c[i] \in Entry
  BY <1>1
<1>4. \A i \in I : w[i] \in Nat
  BY <1>3 DEF Entry, Log
<1>5. SumFunctionOnSet(w, I) \in Nat
  <2> HIDE DEF w, I
  <2> QED BY <1>2, <1>4, SumNat
<1> QED BY <1>2, <1>5 DEF FlowOn

LEMMA AssetsTyped ==
  ASSUME NEW logs \in Seq(Log), NEW v, NEW k
  PROVE  IsFiniteSet(OfKind(logs, v, k)) /\ Assets(logs, v, k) \in Nat
<1> DEFINE I == OfKind(logs, v, k)
           w == [i \in I |-> logs[i].assets]
<1>1. I \subseteq 1 .. Len(logs) /\ Len(logs) \in Nat
  BY DEF OfKind, OfVault, Events
<1>2. IsFiniteSet(I)
  <2>1. IsFiniteSet(1 .. Len(logs))
    BY <1>1, FS_Interval
  <2> QED BY <1>1, <2>1, FS_Subset
<1>3. \A i \in I : logs[i] \in Log
  BY <1>1
<1>4. \A i \in I : w[i] \in Nat
  BY <1>3 DEF Log
<1>5. SumFunctionOnSet(w, I) \in Nat
  <2> HIDE DEF w, I
  <2> QED BY <1>2, <1>4, SumNat
<1> QED BY <1>2, <1>5, AssetsIs

\* A vault a block does not touch has no assets moved in it.
LEMMA AssetsNone ==
  ASSUME NEW logs, NEW v, v \notin Touched(logs), NEW k
  PROVE  Assets(logs, v, k) = 0
<1>1. OfKind(logs, v, k) = {}
  BY DEF OfKind, OfVault, Touched, Events
<1> QED BY <1>1, AssetsIs, SumEmpty

Shifted(n, S) == {n + i : i \in S}

\* The entries of a kind after a block: the old ones and the block's, shifted.
LEMMA FlowIdxGrows ==
  ASSUME NEW c \in Seq(Entry), NEW d, NEW logs \in Seq(Log), NEW b \in Nat,
         Extends(c, d, logs, b), NEW v, NEW k
  PROVE  /\ FlowIdx(c, v, k) \subseteq FlowIdx(d, v, k)
         /\ FlowIdx(d, v, k) \ FlowIdx(c, v, k)
              = Shifted(Len(c), OfKind(logs, v, k))
<1> DEFINE I == FlowIdx(c, v, k)
           J == FlowIdx(d, v, k)
           new == {Len(c) + i : i \in OfKind(logs, v, k)}
<1>1. I \subseteq J
  BY DEF Extends, FlowIdx
<1>2. \A i \in DOMAIN logs : i \in Nat /\ i > 0 /\ Len(c) + i \notin DOMAIN c
  OBVIOUS
<1>3. \A i \in DOMAIN logs : /\ Len(c) + i \in DOMAIN d
                             /\ d[Len(c) + i].log = logs[i]
  <2> TAKE i \in DOMAIN logs
  <2>1. /\ Len(c) + i \in DOMAIN d
        /\ d[Len(c) + i] = [block |-> b, log |-> logs[i]]
    BY DEF Extends
  <2> QED BY <2>1
<1>4. \A i \in OfKind(logs, v, k) :
        /\ i \in DOMAIN logs
        /\ logs[i].vault = v /\ logs[i].parses /\ logs[i].kind = k
  BY DEF OfKind, OfVault, Events
<1>5. ASSUME NEW j \in new PROVE j \in J \ I
  <2>1. PICK i \in OfKind(logs, v, k) : j = Len(c) + i
    BY <1>5
  <2>2. j \in DOMAIN d /\ d[j].log = logs[i] /\ j \notin DOMAIN c
    BY <1>2, <1>3, <1>4, <2>1
  <2>3. j \in J
    BY <1>4, <2>2 DEF FlowIdx
  <2> QED BY <2>2, <2>3 DEF FlowIdx
<1>6. ASSUME NEW j \in J \ I PROVE j \in new
  <2>1. /\ j \in DOMAIN d
        /\ d[j].log.vault = v /\ d[j].log.parses /\ d[j].log.kind = k
    BY DEF FlowIdx
  <2>2. j \notin DOMAIN c
    <3> SUFFICES ASSUME j \in DOMAIN c PROVE FALSE
      OBVIOUS
    <3>1. d[j] = c[j]
      BY DEF Extends
    <3> QED BY <2>1, <3>1 DEF FlowIdx
  <2>3. PICK i \in DOMAIN logs : j = Len(c) + i
    BY <2>1, <2>2 DEF Extends
  <2>4. d[j].log = logs[i]
    BY <1>3, <2>3
  <2>5. i \in OfKind(logs, v, k)
    BY <2>1, <2>4 DEF OfKind, OfVault, Events
  <2> QED BY <2>3, <2>5
<1>7. J \ I = new
  BY <1>5, <1>6
<1> QED BY <1>1, <1>7 DEF Shifted

\* A block adds to the chain's flow of a kind what its events add up to.
LEMMA FlowGrows ==
  ASSUME NEW c \in Seq(Entry), NEW d, NEW logs \in Seq(Log), NEW b \in Nat,
         Extends(c, d, logs, b), NEW v, NEW k
  PROVE  FlowOn(d, v, k) = FlowOn(c, v, k) + Assets(logs, v, k)
<1>0a. FlowIdx(c, v, k) \subseteq FlowIdx(d, v, k)
  BY FlowIdxGrows
<1>0b. FlowIdx(d, v, k) \ FlowIdx(c, v, k) = Shifted(Len(c), OfKind(logs, v, k))
  BY FlowIdxGrows
<1> DEFINE I == FlowIdx(c, v, k)
           J == FlowIdx(d, v, k)
           O == OfKind(logs, v, k)
           wc == [i \in I |-> c[i].log.assets]
           wd1 == [i \in J |-> d[i].log.assets]
           wo == [i \in O |-> logs[i].assets]
           f == [i \in O |-> Len(c) + i]
<1>1. I \subseteq J /\ J \ I = {Len(c) + i : i \in O}
  BY <1>0a, <1>0b DEF Shifted
<1>2. {f[i] : i \in O} = J \ I
  BY <1>1
<1>3. d \in Seq(Entry)
  BY DEF Extends
<1>4. IsFiniteSet(I) /\ IsFiniteSet(J) /\ IsFiniteSet(O)
  BY <1>3, FlowTyped, AssetsTyped
<1>5. O \subseteq DOMAIN logs /\ O \subseteq Nat /\ Len(c) \in Nat
  BY DEF OfKind, OfVault, Events
<1>6. \A j \in J : wd1[j] \in Nat
  <2>1. \A j \in J : d[j] \in Entry
    BY <1>3 DEF FlowIdx
  <2> QED BY <2>1 DEF Entry, Log
<1>7. \A i \in I : wd1[i] = wc[i]
  <2>1. \A i \in I : i \in J /\ d[i] = c[i]
    BY <1>1 DEF FlowIdx, Extends
  <2> QED BY <2>1
<1>8. \A i \in O : wo[i] \in Int /\ wd1[f[i]] = wo[i]
  <2> TAKE i \in O
  <2>1. f[i] = Len(c) + i /\ f[i] \in J
    BY <1>2
  <2>2. d[f[i]] = [block |-> b, log |-> logs[i]]
    BY <1>5, <2>1 DEF Extends
  <2>3. wd1[f[i]] = logs[i].assets
    BY <2>1, <2>2
  <2>4. logs[i] \in Log
    BY <1>5
  <2> QED BY <2>3, <2>4 DEF Log
<1>9. \A x, y \in O : f[x] = f[y] => x = y
  BY <1>5
<1> HIDE DEF f, wc, wd1, wo, I, J, O
<1>10. SumFunctionOnSet(wd1, J)
         = SumFunctionOnSet(wd1, I) + SumFunctionOnSet(wd1, J \ I)
  BY <1>1, <1>4, <1>6, SumSplit
<1>11. SumFunctionOnSet(wd1, I) = SumFunctionOnSet(wc, I)
  BY <1>4, <1>7, SumSame
<1>12. SumFunctionOnSet(wd1, {f[i] : i \in O}) = SumFunctionOnSet(wo, O)
  BY <1>4, <1>8, <1>9, SumImage
<1>13. /\ FlowOn(d, v, k) = SumFunctionOnSet(wd1, J)
       /\ FlowOn(c, v, k) = SumFunctionOnSet(wc, I)
       /\ Assets(logs, v, k) = SumFunctionOnSet(wo, O)
  BY AssetsIs DEF FlowOn, wd1, wc, wo, I, J, O
<1> QED BY <1>2, <1>10, <1>11, <1>12, <1>13

RowsOf(v) == {r \in vaultMetrics : r.vault = v}

FlowOf(v) == SumFunctionOnSet([r \in RowsOf(v) |-> r.flow], RowsOf(v))

FlowInv ==
    /\ DOMAIN vaultLatest \subseteq Vaults
    /\ \A v \in Vaults : /\ dep[v] = SumOver(v, "deposit")
                         /\ wd[v] = SumOver(v, "withdraw")
                         /\ dep[v] - wd[v] = FlowOf(v)
                         /\ {r.block : r \in RowsOf(v)}
                              = {chain[i].block : i \in LogsOf(v)}
    /\ \A v \in DOMAIN vaultLatest : vaultLatest[v].net = dep[v] - wd[v]
    /\ IsFiniteSet(vaultMetrics)
    /\ \A r \in vaultMetrics : r.flow \in Int
    /\ \A v \in Vaults : dep[v] \in Nat /\ wd[v] \in Nat

\* What a block's row says of its vault's flow.
LEMMA RowFlow ==
  ASSUME NEW logs, NEW v, NEW b
  PROVE  /\ Metrics(logs, v, b).vault = v
         /\ Metrics(logs, v, b).block = b
         /\ Metrics(logs, v, b).net = dep'[v] - wd'[v]
         /\ Metrics(logs, v, b).flow
              = Assets(logs, v, "deposit") - Assets(logs, v, "withdraw")
         /\ Upserted(Metrics(logs, v, b)).net = dep'[v] - wd'[v]
<1> DEFINE row == Metrics(logs, v, b)
<1>1. /\ row.vault = v /\ row.block = b /\ row.net = dep'[v] - wd'[v]
      /\ row.flow = Assets(logs, v, "deposit") - Assets(logs, v, "withdraw")
  BY DEF Metrics
<1>2. \A x : [row EXCEPT !.totals = x].net = row.net
  BY DEF Metrics
<1>3. Upserted(row).net = row.net
  <2> HIDE DEF row
  <2> QED BY <1>2 DEF Upserted
<1> QED BY <1>1, <1>3

LEMMA FlowStep ==
  ASSUME ChainInv, TotalsInv, FlowInv, NEW b, NEW logs, NEW created, NEW answers,
         Block(b, logs, created, answers)
  PROVE  FlowInv'
<1> DEFINE touched == Touched(logs)
           row(v) == Metrics(logs, v, b)
           A(v) == Assets(logs, v, "deposit")
           B(v) == Assets(logs, v, "withdraw")
<1>1. /\ b \in Nat /\ logs \in Seq(Log) /\ block \in Nat /\ b > block
      /\ chain \in Seq(Entry) /\ Extends(chain, chain', logs, b)
  BY DEF Block, ChainInv
<1>2. /\ vaultMetrics' = vaultMetrics \cup {row(v) : v \in touched}
      /\ DOMAIN vaultLatest' = DOMAIN vaultLatest \cup touched
      /\ \A v \in touched : vaultLatest'[v] = Upserted(row(v))
      /\ \A v \in DOMAIN vaultLatest \ touched : vaultLatest'[v] = vaultLatest[v]
  BY DEF Block, Tables
<1>3. \A v \in Vaults : dep'[v] = dep[v] + A(v) /\ wd'[v] = wd[v] + B(v)
  BY DEF Block, FlowStores
<1>4. \A v : A(v) \in Nat /\ B(v) \in Nat
  BY <1>1, AssetsTyped
<1>5. \A v : v \notin touched => A(v) = 0 /\ B(v) = 0
  BY AssetsNone
<1>6. touched \subseteq Vaults
  <2>1. \A i \in DOMAIN logs : logs[i] \in Log
    BY <1>1
  <2> QED BY <2>1 DEF Touched, Events, Log
<1>7. \A v : /\ row(v).vault = v /\ row(v).block = b
             /\ row(v).net = dep'[v] - wd'[v] /\ row(v).flow = A(v) - B(v)
             /\ Upserted(row(v)).net = dep'[v] - wd'[v]
  BY RowFlow
<1>8. \A v, k : SumOver(v, k)' = SumOver(v, k) + Assets(logs, v, k)
  BY <1>1, FlowGrows, FlowIs
<1>9. \A v \in Vaults : /\ dep'[v] = SumOver(v, "deposit")'
                        /\ wd'[v] = SumOver(v, "withdraw")'
                        /\ dep'[v] \in Nat /\ wd'[v] \in Nat
  BY <1>3, <1>4, <1>8 DEF FlowInv
<1> HIDE DEF A, B, row, touched
<1>10. \A v \in DOMAIN vaultLatest' : vaultLatest'[v].net = dep'[v] - wd'[v]
  <2> TAKE v \in DOMAIN vaultLatest'
  <2>1. CASE v \in touched
    BY <1>2, <1>7, <2>1
  <2>2. CASE v \notin touched
    <3>1. v \in DOMAIN vaultLatest /\ vaultLatest'[v] = vaultLatest[v]
      BY <1>2, <2>2
    <3>2. v \in Vaults /\ vaultLatest[v].net = dep[v] - wd[v]
      BY <3>1 DEF FlowInv
    <3>3. dep'[v] = dep[v] /\ wd'[v] = wd[v]
      BY <1>3, <1>5, <2>2, <3>2 DEF FlowInv
    <3> QED BY <3>1, <3>2, <3>3
  <2> QED BY <2>1, <2>2
<1>11. IsFiniteSet(vaultMetrics')
  <2>1. IsFiniteSet(touched)
    <3> DEFINE g == [i \in Events(logs) |-> logs[i].vault]
    <3>1. Events(logs) \subseteq 1 .. Len(logs) /\ Len(logs) \in Nat
      BY <1>1 DEF Events
    <3>2. IsFiniteSet(Events(logs))
      <4>1. IsFiniteSet(1 .. Len(logs))
        BY <3>1, FS_Interval
      <4> QED BY <3>1, <4>1, FS_Subset
    <3>3. g \in Surjection(Events(logs), touched)
      BY DEF Surjection, touched, Touched
    <3> QED BY <3>2, <3>3, FS_Surjection
  <2> DEFINE h == [v \in touched |-> row(v)]
  <2>2. h \in Surjection(touched, {row(v) : v \in touched})
    BY DEF Surjection
  <2>3. IsFiniteSet({row(v) : v \in touched})
    BY <2>1, <2>2, FS_Surjection
  <2> QED BY <1>2, <2>3, FS_Union DEF FlowInv
<1>12. \A r \in vaultMetrics' : r.flow \in Int
  BY <1>2, <1>4, <1>7 DEF FlowInv
<1>13. \A v \in Vaults : v \notin touched => RowsOf(v)' = RowsOf(v)
  BY <1>2, <1>7 DEF RowsOf
<1>14. \A v \in Vaults : v \in touched => /\ RowsOf(v)' = RowsOf(v) \cup {row(v)}
                                          /\ row(v) \notin RowsOf(v)
  <2>1. \A r \in vaultMetrics : r.block \in Nat /\ r.block <= block
    BY DEF TotalsInv
  <2> QED BY <1>1, <1>2, <1>7, <2>1 DEF RowsOf
<1>15. \A v \in Vaults : dep'[v] - wd'[v] = FlowOf(v)'
  <2> TAKE v \in Vaults
  <2>1. CASE v \notin touched
    <3>1. FlowOf(v)' = FlowOf(v)
      BY <1>13, <2>1 DEF FlowOf
    <3>2. dep'[v] = dep[v] /\ wd'[v] = wd[v]
      BY <1>3, <1>5, <2>1 DEF FlowInv
    <3> QED BY <3>1, <3>2 DEF FlowInv
  <2>2. CASE v \in touched
    <3> DEFINE R == RowsOf(v)
               w == [r \in R |-> r.flow]
               w1 == [r \in R \cup {row(v)} |-> r.flow]
    <3>1. IsFiniteSet(R) /\ row(v) \notin R
      BY <1>14, <2>2, FS_Subset DEF FlowInv, RowsOf
    <3>2. \A r \in R \cup {row(v)} : w1[r] \in Int
      <4>1. \A r \in R : r.flow \in Int
        BY DEF RowsOf, FlowInv
      <4>2. row(v).flow \in Int
        BY <1>4, <1>7
      <4> QED BY <4>1, <4>2
    <3>3. \A r \in R : w1[r] = w[r] /\ w[r] \in Int
      BY <3>2
    <3>4. w1[row(v)] = A(v) - B(v)
      BY <1>7
    <3>5. FlowOf(v) = SumFunctionOnSet(w, R)
      BY DEF FlowOf
    <3>6. FlowOf(v)' = SumFunctionOnSet(w1, R \cup {row(v)})
      BY <1>14, <2>2 DEF FlowOf
    <3> HIDE DEF w, w1, R
    <3>7. SumFunctionOnSet(w1, R \cup {row(v)})
            = w1[row(v)] + SumFunctionOnSet(w1, R)
      BY <3>1, <3>2, SumAdd
    <3>8. SumFunctionOnSet(w1, R) = SumFunctionOnSet(w, R)
      BY <3>1, <3>3, SumSame
    <3>9. FlowOf(v)' = (A(v) - B(v)) + FlowOf(v)
      BY <3>4, <3>5, <3>6, <3>7, <3>8
    <3>10. FlowOf(v) = dep[v] - wd[v] /\ dep[v] \in Nat /\ wd[v] \in Nat
      BY DEF FlowInv
    <3> QED BY <1>3, <1>4, <3>9, <3>10
  <2> QED BY <2>1, <2>2
<1>16. \A v \in Vaults : {r.block : r \in RowsOf(v)'}
                           = {chain'[i].block : i \in LogsOf(v)'}
  <2> TAKE v \in Vaults
  <2>1. {r.block : r \in RowsOf(v)} = {chain[i].block : i \in LogsOf(v)}
    BY DEF FlowInv
  <2>2. \A i \in LogsOf(v) : i \in LogsOf(v)' /\ chain'[i].block = chain[i].block
    BY LogsGrow
  <2>3. CASE v \notin touched
    <3>1. \A j \in LogsOf(v)' : j \in LogsOf(v)
      BY <2>3, <1>1, LogsKept DEF touched
    <3> QED BY <1>13, <2>1, <2>2, <2>3, <3>1
  <2>4. CASE v \in touched
    <3>1. {r.block : r \in RowsOf(v)'} = {r.block : r \in RowsOf(v)} \cup {b}
      BY <1>7, <1>14, <2>4
    <3>2. \A j \in LogsOf(v)' : j \in LogsOf(v) \/ chain'[j].block = b
      BY LogsGrow
    <3>3. \E j \in LogsOf(v)' : chain'[j].block = b
      BY <2>4, LogsGrow DEF TouchedAt, touched
    <3>4. {chain'[i].block : i \in LogsOf(v)'}
            = {chain[i].block : i \in LogsOf(v)} \cup {b}
      BY <2>2, <3>2, <3>3
    <3> QED BY <2>1, <3>1, <3>4
  <2> QED BY <2>3, <2>4
<1>17. DOMAIN vaultLatest' \subseteq Vaults
  BY <1>2, <1>6 DEF FlowInv
<1> QED
  BY <1>9, <1>10, <1>11, <1>12, <1>15, <1>16, <1>17 DEF FlowInv

\* vault_latest's net flow, the flows of vault_metrics and the blocks of its
\* rows are those of the chain's logs (store_vault_flows, map_vault_metrics and
\* db_out, each of which adds up the events for itself).
THEOREM TablesCorrect == Spec => []TablesSumToTheChain
<1>1. Init => FlowInv
  <2> SUFFICES ASSUME Init PROVE FlowInv
    OBVIOUS
  <2>1. \A v : RowsOf(v) = {} /\ LogsOf(v) = {}
    BY DEF Init, RowsOf, LogsOf
  <2>2. \A v, k : SumOver(v, k) = 0
    <3>1. \A v, k : {j \in LogsOf(v) : chain[j].log.kind = k} = {}
      BY <2>1
    <3> QED BY <3>1, SumEmpty DEF SumOver, SumFunction
  <2>3. \A v : FlowOf(v) = 0
    BY <2>1, SumEmpty DEF FlowOf
  <2>4. IsFiniteSet(vaultMetrics)
    BY FS_EmptySet DEF Init
  <2>5. \A v \in Vaults : dep[v] = 0 /\ wd[v] = 0
    BY DEF Init
  <2> QED BY <2>1, <2>2, <2>3, <2>4, <2>5 DEF Init, FlowInv
<1>2. ChainInv /\ TotalsInv /\ FlowInv /\ [Next]_vars => FlowInv'
  <2> SUFFICES ASSUME ChainInv, TotalsInv, FlowInv, [Next]_vars PROVE FlowInv'
    OBVIOUS
  <2>1. CASE Next
    BY <2>1, StepBlock, FlowStep
  <2>2. CASE UNCHANGED vars
    <3>1. UNCHANGED <<dep, wd, vaultMetrics, vaultLatest, chain>>
      BY <2>2 DEF vars, stores, tables
    <3>2. \A v : RowsOf(v)' = RowsOf(v) /\ LogsOf(v)' = LogsOf(v)
      BY <3>1 DEF RowsOf, LogsOf
    <3>3. \A v : FlowOf(v)' = FlowOf(v)
      BY <3>2 DEF FlowOf
    <3>4. \A v, k : SumOver(v, k)' = SumOver(v, k)
      BY <3>1, FlowIs
    <3> QED BY <3>1, <3>2, <3>3, <3>4 DEF FlowInv
  <2> QED BY <2>1, <2>2
<1>3. FlowInv => TablesSumToTheChain
  <2> SUFFICES ASSUME FlowInv, NEW v \in DOMAIN vaultLatest
               PROVE  /\ vaultLatest[v].net
                           = SumOver(v, "deposit") - SumOver(v, "withdraw")
                      /\ vaultLatest[v].net
                           = SumFunction([r \in RowsOf(v) |-> r.flow])
                      /\ {r.block : r \in RowsOf(v)}
                           = {chain[i].block : i \in LogsOf(v)}
    BY DEF TablesSumToTheChain, RowsOf
  <2>1. v \in Vaults /\ vaultLatest[v].net = dep[v] - wd[v]
    BY DEF FlowInv
  <2>2. /\ dep[v] = SumOver(v, "deposit") /\ wd[v] = SumOver(v, "withdraw")
        /\ dep[v] - wd[v] = FlowOf(v)
        /\ {r.block : r \in RowsOf(v)} = {chain[i].block : i \in LogsOf(v)}
    BY <2>1 DEF FlowInv
  <2>3. FlowOf(v) = SumFunction([r \in RowsOf(v) |-> r.flow])
    BY DEF FlowOf, SumFunction
  <2> QED BY <2>1, <2>2, <2>3
<1> QED BY <1>1, <1>2, <1>3, ChainSound, TotalsSound, PTL DEF Spec
=============================================================================
