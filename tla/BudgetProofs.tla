---------------------------- MODULE BudgetProofs ----------------------------
(***************************************************************************)
(* Proofs about Budget.tla.  A caller's copy of a ledger row is the row    *)
(* itself for as long as the versions agree, so a transaction that fits    *)
(* adds to, or takes from, what the ledger holds now; an id's receipt goes *)
(* from nothing to reserved to settled, and only the caller that inserted  *)
(* it ever calls or settles.  The ledger of a month is then a sum over the *)
(* receipts, of which each transaction changes one term.  The first part   *)
(* is about such sums over a finite set.                                   *)
(***************************************************************************)
EXTENDS Budget, FiniteSetTheorems, WellFoundedInduction, TLAPS

(* Sums. *)

Pick(s) == CHOOSE x \in s : TRUE

\* g holds the sum of f over every subset of S.
Adds(f, S, g) ==
    g = [s \in SUBSET S |-> IF s = {} THEN 0 ELSE f[Pick(s)] + g[s \ {Pick(s)}]]

Total(f, S) ==
    LET g[s \in SUBSET S] == IF s = {} THEN 0 ELSE f[Pick(s)] + g[s \ {Pick(s)}]
    IN  g[S]

-----------------------------------------------------------------------------
(* The inductive invariant. *)

\* What receipt r adds to the ledger of month m, and by how much the call it
\* stands for cost more than was reserved.
ChargeIn(r, m) == IF r.ver # Absent /\ r.month = m THEN Charged(r) ELSE 0
ExcessIn(r, m) == IF r.month = m /\ r.actual > r.reserved THEN r.actual - r.reserved ELSE 0

\* An id has no receipt, one that is reserved (version 1), or settled (2).
ReceiptInv(r) ==
    /\ r.ver \in {Absent, 1, 2}
    /\ r.ver = Absent => r = NoReceipt
    /\ r.settled <=> r.ver = 2
    /\ r.ver = 1 => r.actual = 0

Balanced == \A m \in Month : ledger[m].used = Total([i \in Id |-> ChargeIn(receipt[i], m)], Id)

Bounded ==
    \A m \in Month : ledger[m].used <= Limit + Total([i \in Id |-> ExcessIn(receipt[i], m)], Id)

\* The ledger row that k read is the row of its month, or an older version.
Seen(k, led) ==
    /\ k.ledger.ver <= led[k.month].ver
    /\ k.ledger.ver = led[k.month].ver => k.ledger = led[k.month]

\* Caller c in local state k, with the ledger rows, the receipt of its id and
\* the histories of calls and answers.
CallerInv(c, k, led, r, called, answered) ==
    /\ k.pc \in {"reserve", "receipt", "commit"} => k.amount \in Amount
    /\ k.pc \in {"receipt", "commit"} => Seen(k, led) /\ FitsLimit(k.ledger.used, k.amount)
    /\ k.pc \in {"settle", "ledger", "charge"} => c \in answered /\ k.cost \in Cost
    /\ k.pc \in {"ledger", "charge"} =>
           /\ k.receipt.ver = 1 /\ k.receipt.reserved = k.amount
           /\ r.ver \in {1, 2}
           /\ r.ver = 1 => r = k.receipt
    /\ k.pc = "charge" => Seen(k, led) /\ k.month = k.receipt.month
    /\ k.pc \in {"start", "reserve", "receipt", "commit", "call"} => c \notin called
    /\ k.pc = "call" \/ c \in called => r.ver # Absent
    /\ k.pc = "call" \/ c \in called \ answered => r.ver = 1 /\ r.reserved = k.amount

\* The callers that were authorized: their reservation was committed.
Holds(c) == At(c, "call") \/ c \in calls

Exclusive == \A c, d \in Caller : Holds(c) /\ Holds(d) /\ IdOf[c] = IdOf[d] => c = d

IInv ==
    /\ TypeOK
    /\ \A i \in Id : ReceiptInv(receipt[i])
    /\ Balanced
    /\ Bounded
    /\ \A c \in Caller : CallerInv(c, caller[c], ledger, receipt[IdOf[c]], calls, answers)
    /\ Exclusive

-----------------------------------------------------------------------------
(* Lemmas about sums. *)

LEMMA Least ==
    ASSUME NEW T \in SUBSET Nat, T # {}
    PROVE  \E n \in T : \A m \in T : n <= m
<1>1. \E n \in T : \A m \in T : ~ (<<m, n>> \in OpToRel(<, Nat))
  BY WFMin, NatLessThanWellFounded, Zenon
<1>2. \A m, n \in T : <<m, n>> \in OpToRel(<, Nat) <=> m < n
  BY DEF OpToRel
<1>3. PICK n \in T : \A m \in T : ~ (<<m, n>> \in OpToRel(<, Nat))
  BY <1>1
<1>4. \A m \in T : ~(m < n)
  BY <1>2, <1>3, Zenon
<1>5. \A m \in T : m \in Nat /\ n \in Nat
  OBVIOUS
<1> QED  BY <1>4, <1>5

LEMMA SetInduction ==
    ASSUME NEW S, IsFiniteSet(S), NEW G,
           {} \in G,
           \A s \in SUBSET S : s # {} /\ (\A x \in s : s \ {x} \in G) => s \in G
    PROVE  \A s \in SUBSET S : s \in G
<1> DEFINE Bad == {s \in SUBSET S : s \notin G}
           T == {Cardinality(s) : s \in Bad}
<1>1. \A s \in SUBSET S : IsFiniteSet(s) /\ Cardinality(s) \in Nat
  BY FS_Subset, FS_CardinalityType
<1>2. T \in SUBSET Nat
  BY <1>1
<1>3. T = {}
  <2> SUFFICES ASSUME T # {} PROVE FALSE
    OBVIOUS
  <2>1. PICK n \in T : \A m \in T : n <= m
    BY <1>2, Least
  <2>2. PICK s \in Bad : Cardinality(s) = n
    BY <2>1
  <2>3. PICK x \in s : s \ {x} \in Bad
    BY <2>2
  <2>4. Cardinality(s \ {x}) = Cardinality(s) - 1
    BY <1>1, <2>2, <2>3, FS_RemoveElement
  <2> QED  BY <1>1, <2>1, <2>2, <2>3, <2>4
<1> QED  BY <1>3

LEMMA AddsExists ==
    ASSUME NEW f, NEW S, IsFiniteSet(S)
    PROVE  \E g : Adds(f, S, g)
<1> DEFINE Level(n) == {s \in SUBSET S : Cardinality(s) <= n}
           Good(n) == \E g : g = [s \in Level(n) |->
                          IF s = {} THEN 0 ELSE f[Pick(s)] + g[s \ {Pick(s)}]]
           T == {n \in Nat : ~Good(n)}
<1>a. \A s \in SUBSET S : Cardinality(s) \in Nat /\ Cardinality(s) <= Cardinality(S)
  BY FS_Subset, FS_CardinalityType
<1>b. \A s \in SUBSET S : Cardinality(s) = 0 => s = {}
  BY FS_Subset, FS_EmptySet
<1>c. \A s \in SUBSET S : s # {} =>
          Pick(s) \in s /\ Cardinality(s \ {Pick(s)}) = Cardinality(s) - 1
  BY FS_Subset, FS_RemoveElement DEF Pick
<1>1. Good(0)
  <2> DEFINE g == [s \in Level(0) |-> 0]
  <2>1. \A s \in Level(0) : s = {}
    BY <1>a, <1>b
  <2>2. g = [s \in Level(0) |-> IF s = {} THEN 0 ELSE f[Pick(s)] + g[s \ {Pick(s)}]]
    BY <2>1
  <2> HIDE DEF g
  <2> QED  BY <2>2
<1>2. ASSUME NEW n \in Nat, Good(n) PROVE Good(n + 1)
  <2> PICK g : g = [s \in Level(n) |->
                      IF s = {} THEN 0 ELSE f[Pick(s)] + g[s \ {Pick(s)}]]
    BY <1>2
  <2> DEFINE h == [s \in Level(n + 1) |->
                      IF s = {} THEN 0 ELSE f[Pick(s)] + g[s \ {Pick(s)}]]
  <2>1. \A s \in Level(n + 1) : s # {} => s \ {Pick(s)} \in Level(n)
    BY <1>a, <1>c
  <2>2. \A s \in Level(n) : s \in Level(n + 1)
    BY <1>a
  <2>4. \A s \in Level(n) : h[s] = g[s]
    <3> TAKE s \in Level(n)
    <3>1. h[s] = IF s = {} THEN 0 ELSE f[Pick(s)] + g[s \ {Pick(s)}]
      BY <2>2
    <3>2. g[s] = IF s = {} THEN 0 ELSE f[Pick(s)] + g[s \ {Pick(s)}]
      BY Zenon
    <3> QED  BY <3>1, <3>2
  <2>3. h = [s \in Level(n + 1) |->
                      IF s = {} THEN 0 ELSE f[Pick(s)] + h[s \ {Pick(s)}]]
    BY <2>1, <2>4
  <2> HIDE DEF h
  <2> QED  BY <2>3
<1>3. T = {}
  <2> SUFFICES ASSUME T # {} PROVE FALSE
    OBVIOUS
  <2> HIDE DEF Good
  <2>1. PICK n \in T : \A m \in T : n <= m
    BY Least
  <2>2. n \in Nat /\ n # 0 /\ n - 1 \in Nat /\ n - 1 \notin T
    BY <2>1, <1>1
  <2>3. Good(n - 1)
    BY <2>2
  <2>4. Good((n - 1) + 1)
    BY <2>2, <2>3, <1>2
  <2> QED  BY <2>2, <2>4
<1>4. Cardinality(S) \in Nat /\ Level(Cardinality(S)) = SUBSET S
  BY <1>a, FS_CardinalityType
<1>5. Good(Cardinality(S))
  BY <1>3, <1>4
<1> QED  BY <1>4, <1>5 DEF Adds

LEMMA AddsOnce ==
    ASSUME NEW f, NEW S, IsFiniteSet(S), NEW R, NEW g, NEW h,
           Adds(f, S, g), Adds(f, R, h), S \subseteq R
    PROVE  \A s \in SUBSET S : g[s] = h[s]
<1> DEFINE G == {s \in SUBSET S : g[s] = h[s]}
<1>1. \A s \in SUBSET S : /\ g[s] = IF s = {} THEN 0 ELSE f[Pick(s)] + g[s \ {Pick(s)}]
                          /\ h[s] = IF s = {} THEN 0 ELSE f[Pick(s)] + h[s \ {Pick(s)}]
  <2> TAKE s \in SUBSET S
  <2>1. g[s] = IF s = {} THEN 0 ELSE f[Pick(s)] + g[s \ {Pick(s)}]
    BY Zenon DEF Adds
  <2>2. s \in SUBSET R
    OBVIOUS
  <2>3. h[s] = IF s = {} THEN 0 ELSE f[Pick(s)] + h[s \ {Pick(s)}]
    BY <2>2, Zenon DEF Adds
  <2> QED  BY <2>1, <2>3
<1>2. {} \in G
  BY <1>1
<1>3. ASSUME NEW s \in SUBSET S, s # {}, \A x \in s : s \ {x} \in G
      PROVE  s \in G
  <2>1. Pick(s) \in s
    BY <1>3 DEF Pick
  <2>2. g[s \ {Pick(s)}] = h[s \ {Pick(s)}]
    BY <1>3, <2>1
  <2> QED  BY <1>1, <1>3, <2>2
<1>4. \A s \in SUBSET S : s \in G
  <2> HIDE DEF G
  <2> QED  BY <1>2, <1>3, SetInduction
<1> QED  BY <1>4

LEMMA TotalIs ==
    ASSUME NEW f, NEW S, IsFiniteSet(S), NEW g, Adds(f, S, g)
    PROVE  \A s \in SUBSET S : Total(f, s) = g[s]
<1> TAKE s \in SUBSET S
<1>1. IsFiniteSet(s)
  BY FS_Subset
<1>2. PICK h : Adds(f, s, h) /\ Total(f, s) = h[s]
  <2>1. Adds(f, s, CHOOSE h : Adds(f, s, h))
    BY <1>1, AddsExists
  <2>2. Total(f, s) = (CHOOSE h : Adds(f, s, h))[s]
    BY DEF Total, Adds
  <2> QED  BY <2>1, <2>2
<1>3. \A t \in SUBSET s : h[t] = g[t]
  BY <1>1, <1>2, AddsOnce
<1> QED  BY <1>2, <1>3

LEMMA TotalEmpty == ASSUME NEW f PROVE Total(f, {}) = 0
<1>1. PICK g : Adds(f, {}, g)
  BY AddsExists, FS_EmptySet
<1>2. g[{}] = 0
  BY <1>1 DEF Adds
<1> QED  BY <1>1, <1>2, TotalIs, FS_EmptySet

LEMMA TotalPick ==
    ASSUME NEW f, NEW S, IsFiniteSet(S), S # {}
    PROVE  Pick(S) \in S /\ Total(f, S) = f[Pick(S)] + Total(f, S \ {Pick(S)})
<1>1. PICK g : Adds(f, S, g)
  BY AddsExists
<1>2. \A s \in SUBSET S : g[s] = IF s = {} THEN 0 ELSE f[Pick(s)] + g[s \ {Pick(s)}]
  BY <1>1, Zenon DEF Adds
<1>3. \A s \in SUBSET S : Total(f, s) = g[s]
  BY <1>1, TotalIs
<1>4. Pick(S) \in S
  BY DEF Pick
<1> QED  BY <1>2, <1>3, <1>4

LEMMA TotalInt ==
    ASSUME NEW S, IsFiniteSet(S), NEW f \in [S -> Int]
    PROVE  \A s \in SUBSET S : Total(f, s) \in Int
<1> DEFINE G == {s \in SUBSET S : Total(f, s) \in Int}
<1>1. {} \in G
  BY TotalEmpty
<1>2. ASSUME NEW s \in SUBSET S, s # {}, \A x \in s : s \ {x} \in G
      PROVE  s \in G
  <2> DEFINE p == Pick(s)
  <2>1. p \in s /\ Total(f, s) = f[p] + Total(f, s \ {p})
    BY <1>2, FS_Subset, TotalPick
  <2> HIDE DEF p
  <2>2. f[p] \in Int /\ Total(f, s \ {p}) \in Int
    BY <1>2, <2>1
  <2> QED  BY <2>1, <2>2
<1>3. \A s \in SUBSET S : s \in G
  <2> HIDE DEF G
  <2> QED  BY <1>1, <1>2, SetInduction
<1> QED  BY <1>3

LEMMA TotalNonneg ==
    ASSUME NEW S, IsFiniteSet(S), NEW f \in [S -> Nat]
    PROVE  Total(f, S) \in Nat
<1> DEFINE G == {s \in SUBSET S : Total(f, s) \in Nat}
<1>1. {} \in G
  BY TotalEmpty
<1>2. ASSUME NEW s \in SUBSET S, s # {}, \A x \in s : s \ {x} \in G
      PROVE  s \in G
  <2> DEFINE p == Pick(s)
  <2>1. p \in s /\ Total(f, s) = f[p] + Total(f, s \ {p})
    BY <1>2, FS_Subset, TotalPick
  <2> HIDE DEF p
  <2>2. f[p] \in Nat /\ Total(f, s \ {p}) \in Nat
    BY <1>2, <2>1
  <2> QED  BY <2>1, <2>2
<1>3. \A s \in SUBSET S : s \in G
  <2> HIDE DEF G
  <2> QED  BY <1>1, <1>2, SetInduction
<1> QED  BY <1>3

LEMMA TotalChange ==
    ASSUME NEW S, IsFiniteSet(S), NEW f \in [S -> Int], NEW g \in [S -> Int],
           NEW i \in S, \A j \in S \ {i} : g[j] = f[j]
    PROVE  Total(g, S) = Total(f, S) - f[i] + g[i]
<1> DEFINE G == {s \in SUBSET S :
                    Total(g, s) = IF i \in s THEN Total(f, s) - f[i] + g[i] ELSE Total(f, s)}
<1>1. {} \in G
  BY TotalEmpty
<1>2. ASSUME NEW s \in SUBSET S, s # {}, \A x \in s : s \ {x} \in G
      PROVE  s \in G
  <2> DEFINE p == Pick(s)
  <2>1. /\ p \in s
        /\ Total(f, s) = f[p] + Total(f, s \ {p})
        /\ Total(g, s) = g[p] + Total(g, s \ {p})
    BY <1>2, FS_Subset, TotalPick
  <2>2. Total(f, s \ {p}) \in Int /\ Total(g, s \ {p}) \in Int
    BY TotalInt
  <2>3. s \ {p} \in G
    BY <1>2, <2>1
  <2> HIDE DEF p
  <2>4. Total(g, s \ {p}) = IF i \in s \ {p} THEN Total(f, s \ {p}) - f[i] + g[i]
                                            ELSE Total(f, s \ {p})
    BY <2>3
  <2>5. Total(g, s) = IF i \in s THEN Total(f, s) - f[i] + g[i] ELSE Total(f, s)
    <3>1. CASE p = i
      BY <2>1, <2>2, <2>4, <3>1
    <3>2. CASE p # i
      <4>1. g[p] = f[p] /\ f[p] \in Int /\ f[i] \in Int /\ g[i] \in Int
        BY <2>1, <3>2
      <4>2. i \in s <=> i \in s \ {p}
        BY <3>2
      <4> QED  BY <2>1, <2>2, <2>4, <4>1, <4>2
    <3> QED  BY <3>1, <3>2
  <2> QED  BY <2>5
<1>3. \A s \in SUBSET S : s \in G
  <2> HIDE DEF G
  <2> QED  BY <1>1, <1>2, SetInduction
<1> QED  BY <1>3

LEMMA TotalRemove ==
    ASSUME NEW S, IsFiniteSet(S), NEW f \in [S -> Int]
    PROVE  \A s \in SUBSET S : \A x \in s : Total(f, s) = f[x] + Total(f, s \ {x})
<1> DEFINE G == {s \in SUBSET S : \A x \in s : Total(f, s) = f[x] + Total(f, s \ {x})}
<1>1. {} \in G
  OBVIOUS
<1>2. ASSUME NEW s \in SUBSET S, s # {}, \A x \in s : s \ {x} \in G
      PROVE  s \in G
  <2> SUFFICES ASSUME NEW x \in s PROVE Total(f, s) = f[x] + Total(f, s \ {x})
    OBVIOUS
  <2> DEFINE p == Pick(s)
  <2>1. p \in s /\ Total(f, s) = f[p] + Total(f, s \ {p})
    BY <1>2, FS_Subset, TotalPick
  <2> HIDE DEF p
  <2>2. CASE p = x
    BY <2>1, <2>2
  <2>3. CASE p # x
    <3>1. s \ {p} \in G /\ s \ {x} \in G
      BY <1>2, <2>1
    <3>2. Total(f, s \ {p}) = f[x] + Total(f, (s \ {p}) \ {x})
      BY <2>3, <3>1
    <3>3. Total(f, s \ {x}) = f[p] + Total(f, (s \ {x}) \ {p})
      BY <2>1, <2>3, <3>1
    <3>4. (s \ {p}) \ {x} = (s \ {x}) \ {p}
      OBVIOUS
    <3>5. Total(f, (s \ {p}) \ {x}) = Total(f, (s \ {x}) \ {p})
      BY <3>4, Zenon
    <3>6. f[p] \in Int /\ f[x] \in Int /\ Total(f, (s \ {x}) \ {p}) \in Int
      BY <2>1, TotalInt
    <3> HIDE DEF G
    <3> QED  BY <2>1, <3>2, <3>3, <3>5, <3>6
  <2> QED  BY <2>2, <2>3
<1>3. \A s \in SUBSET S : s \in G
  <2> HIDE DEF G
  <2> QED  BY <1>1, <1>2, SetInduction
<1> QED  BY <1>3

LEMMA TotalFilter ==
    ASSUME NEW S, IsFiniteSet(S), NEW f \in [S -> Int], NEW T \in SUBSET S,
           \A i \in S \ T : f[i] = 0
    PROVE  Total(f, S) = Total(f, T)
<1> DEFINE G == {s \in SUBSET S : Total(f, s) = Total(f, s \cap T)}
<1>1. {} \in G
  <2>1. {} \cap T = {}
    OBVIOUS
  <2> QED  BY <2>1
<1>2. ASSUME NEW s \in SUBSET S, s # {}, \A x \in s : s \ {x} \in G
      PROVE  s \in G
  <2> DEFINE p == Pick(s)
  <2>1. p \in s /\ Total(f, s) = f[p] + Total(f, s \ {p})
    BY <1>2, FS_Subset, TotalPick
  <2> HIDE DEF p
  <2>2. Total(f, s \ {p}) = Total(f, (s \ {p}) \cap T)
    BY <1>2, <2>1
  <2>3. CASE p \in T
    <3>1. (s \ {p}) \cap T = (s \cap T) \ {p}
      OBVIOUS
    <3>2. Total(f, s \cap T) = f[p] + Total(f, (s \cap T) \ {p})
      <4>1. s \cap T \in SUBSET S /\ p \in s \cap T
        BY <2>1, <2>3
      <4> HIDE DEF G
      <4> QED  BY <4>1, TotalRemove
    <3>3. Total(f, (s \ {p}) \cap T) = Total(f, (s \cap T) \ {p})
      BY <3>1, Zenon
    <3> QED  BY <2>1, <2>2, <3>2, <3>3
  <2>4. CASE p \notin T
    <3>1. (s \ {p}) \cap T = s \cap T
      BY <2>4
    <3>2. f[p] = 0 /\ Total(f, s \ {p}) \in Int
      BY <2>1, <2>4, TotalInt
    <3>3. Total(f, (s \ {p}) \cap T) = Total(f, s \cap T)
      BY <3>1, Zenon
    <3> QED  BY <2>1, <2>2, <3>2, <3>3
  <2> QED  BY <2>3, <2>4
<1>3. \A s \in SUBSET S : s \in G
  <2> HIDE DEF G
  <2> QED  BY <1>1, <1>2, SetInduction
<1>4. S \cap T = T
  OBVIOUS
<1>5. S \in G
  BY <1>3
<1> QED  BY <1>4, <1>5

LEMMA TotalAgree ==
    ASSUME NEW S, IsFiniteSet(S), NEW f, NEW g, \A i \in S : f[i] = g[i]
    PROVE  Total(f, S) = Total(g, S)
<1> DEFINE G == {s \in SUBSET S : Total(f, s) = Total(g, s)}
<1>1. {} \in G
  BY TotalEmpty
<1>2. ASSUME NEW s \in SUBSET S, s # {}, \A x \in s : s \ {x} \in G
      PROVE  s \in G
  <2> DEFINE p == Pick(s)
  <2>1. /\ p \in s
        /\ Total(f, s) = f[p] + Total(f, s \ {p})
        /\ Total(g, s) = g[p] + Total(g, s \ {p})
    BY <1>2, FS_Subset, TotalPick
  <2> HIDE DEF p
  <2>2. Total(f, s \ {p}) = Total(g, s \ {p})
    BY <1>2, <2>1
  <2> QED  BY <2>1, <2>2
<1>3. \A s \in SUBSET S : s \in G
  <2> HIDE DEF G
  <2> QED  BY <1>1, <1>2, SetInduction
<1> QED  BY <1>3

-----------------------------------------------------------------------------
(* What the two transactions write. *)

Reserves(m, i, a) ==
    /\ m \in Month /\ i \in Id /\ a \in Amount
    /\ receipt[i] = NoReceipt
    /\ FitsLimit(ledger[m].used, a)
    /\ ledger' = [ledger EXCEPT ![m] = [ver |-> ledger[m].ver + 1, used |-> ledger[m].used + a]]
    /\ receipt' = [receipt EXCEPT ![i] =
          [ver |-> 1, month |-> m, reserved |-> a, settled |-> FALSE, actual |-> 0]]

Settles(m, i, x) ==
    /\ m \in Month /\ i \in Id /\ x \in Cost
    /\ receipt[i].ver = 1 /\ receipt[i].month = m
    /\ ledger' = [ledger EXCEPT ![m] = [ver |-> ledger[m].ver + 1,
                                        used |-> ledger[m].used - receipt[i].reserved + x]]
    /\ receipt' = [receipt EXCEPT ![i] =
          [ver |-> 2, month |-> m, reserved |-> receipt[i].reserved, settled |-> TRUE, actual |-> x]]

CallerRecord ==
    [pc: Pc, month: Month, amount: Amount \cup {0}, cost: Cost \cup {0},
     tries: 0 .. MaxTries - 1, ledger: Ledger, receipt: Receipt]

LEMMA Numbers ==
    /\ \A a \in Amount : a \in Nat /\ a # 0
    /\ \A x \in Cost : x \in Nat
    /\ \A k \in CallerRecord : k.amount \in Nat /\ k.cost \in Nat /\ k.month \in Month
                               /\ k.ledger \in Ledger /\ k.receipt \in Receipt
    /\ \A r \in Receipt : r.reserved \in Nat /\ r.actual \in Nat
    /\ LastMonth \in Nat /\ Limit \in Nat /\ Month \subseteq Nat
<1>1. /\ \A a \in Amount : a \in Nat /\ a # 0
      /\ \A x \in Cost : x \in Nat
      /\ LastMonth \in Nat /\ Limit \in Nat
  BY BudgetAssumption
<1>2. \A k \in CallerRecord : /\ k.amount \in Amount \cup {0} /\ k.cost \in Cost \cup {0}
                              /\ k.month \in Month
                              /\ k.ledger \in Ledger /\ k.receipt \in Receipt
  BY DEF CallerRecord
<1>3. \A r \in Receipt : r.reserved \in Amount \cup {0} /\ r.actual \in Cost \cup {0}
  BY DEF Receipt
<1> QED  BY <1>1, <1>2, <1>3 DEF Month

LEMMA LedgerStored ==
    ASSUME NEW l \in Ledger, NEW u \in Int, NEW v \in Nat
    PROVE  Stored([l EXCEPT !.used = u], v) = [ver |-> v + 1, used |-> u]
<1> DEFINE d == [l EXCEPT !.used = u]
<1>1. d \in Ledger /\ d.used = u
  BY DEF Ledger
<1> HIDE DEF d
<1>2. Stored(d, v) \in Ledger /\ Stored(d, v).ver = v + 1 /\ Stored(d, v).used = u
  BY <1>1 DEF Stored, Ledger
<1> QED  BY <1>2 DEF d, Ledger

LEMMA ReceiptInserted ==
    ASSUME NEW m \in Month, NEW a \in Amount
    PROVE  Stored([NoReceipt EXCEPT !.month = m, !.reserved = a], Absent) =
               [ver |-> 1, month |-> m, reserved |-> a, settled |-> FALSE, actual |-> 0]
<1> DEFINE d == [NoReceipt EXCEPT !.month = m, !.reserved = a]
           e == Stored(d, Absent)
<1>0. NoReceipt \in Receipt
  BY BudgetAssumption DEF NoReceipt, Receipt, Month, Absent
<1>1. /\ d \in Receipt /\ d.month = m /\ d.reserved = a
      /\ d.settled = NoReceipt.settled /\ d.actual = NoReceipt.actual
  BY <1>0 DEF Receipt
<1> HIDE DEF d
<1>2. /\ e \in Receipt /\ e.ver = 1 /\ e.month = m /\ e.reserved = a
      /\ e.settled = d.settled /\ e.actual = d.actual
  BY <1>1 DEF Stored, Receipt, Absent
<1>3. NoReceipt.settled = FALSE /\ NoReceipt.actual = 0
  BY DEF NoReceipt
<1> HIDE DEF e
<1>4. e = [ver |-> 1, month |-> m, reserved |-> a, settled |-> FALSE, actual |-> 0]
  BY <1>1, <1>2, <1>3 DEF Receipt
<1> QED  BY <1>4 DEF e, d

LEMMA ReceiptSettled ==
    ASSUME NEW r \in Receipt, NEW x \in Cost, NEW v \in Nat
    PROVE  Stored([r EXCEPT !.settled = TRUE, !.actual = x], v) =
               [ver |-> v + 1, month |-> r.month, reserved |-> r.reserved,
                settled |-> TRUE, actual |-> x]
<1> DEFINE d == [r EXCEPT !.settled = TRUE, !.actual = x]
           e == Stored(d, v)
<1>1. /\ d \in Receipt /\ d.month = r.month /\ d.reserved = r.reserved
      /\ d.settled = TRUE /\ d.actual = x
  BY DEF Receipt
<1> HIDE DEF d
<1>2. /\ e \in Receipt /\ e.ver = v + 1 /\ e.month = d.month /\ e.reserved = d.reserved
      /\ e.settled = d.settled /\ e.actual = d.actual
  BY <1>1 DEF Stored, Receipt
<1> HIDE DEF e
<1>3. e = [ver |-> v + 1, month |-> r.month, reserved |-> r.reserved,
           settled |-> TRUE, actual |-> x]
  BY <1>1, <1>2 DEF Receipt
<1> QED  BY <1>3 DEF e, d

LEMMA ReservationWrites ==
    ASSUME IInv, NEW c \in Caller, At(c, "commit"),
           TransactionFits(Both(caller[c].month, IdOf[c]), Reservation(c)),
           Commit(caller[c].month, IdOf[c], Reservation(c))
    PROVE  Reserves(caller[c].month, IdOf[c], caller[c].amount)
<1> DEFINE k == caller[c]
           m == k.month
           i == IdOf[c]
           old == ledger[m]
<1>0. /\ k \in CallerRecord
      /\ i \in Id /\ m \in Month
      /\ old \in Ledger /\ receipt[i] \in Receipt
      /\ ReceiptInv(receipt[i])
      /\ CallerInv(c, k, ledger, receipt[i], calls, answers)
  BY BudgetAssumption DEF IInv, TypeOK, CallerRecord
<1>t. k.ledger \in Ledger /\ k.amount \in Nat
  BY <1>0, Numbers
<1>1. k.amount \in Amount /\ Seen(k, ledger) /\ FitsLimit(k.ledger.used, k.amount)
  BY <1>0 DEF CallerInv, At
<1>2. old.ver = k.ledger.ver /\ receipt[i].ver = Absent
  BY DEF TransactionFits, Both, Reservation, Writes, Matches, ReservationExpects
<1>3. old = k.ledger /\ receipt[i] = NoReceipt
  BY <1>0, <1>1, <1>2 DEF Seen, ReceiptInv
<1>4. ledger' = [ledger EXCEPT ![m] = [ver |-> old.ver + 1, used |-> old.used + k.amount]]
  <2> DEFINE row == [old EXCEPT !.used = k.ledger.used + k.amount]
  <2>1. Stored(row, k.ledger.ver) = [ver |-> old.ver + 1, used |-> old.used + k.amount]
    <3>1. k.ledger.used + k.amount \in Int /\ k.ledger.ver \in Nat
      BY <1>t DEF Ledger
    <3> QED  BY <1>0, <1>3, <3>1, LedgerStored
  <2>2. ledger' = [ledger EXCEPT ![m] = Stored(row, k.ledger.ver)]
    BY DEF Commit, Transaction, Both, Reservation, Writes
  <2> QED  BY <2>1, <2>2
<1>5. receipt' = [receipt EXCEPT ![i] =
          [ver |-> 1, month |-> m, reserved |-> k.amount, settled |-> FALSE, actual |-> 0]]
  <2> DEFINE row == [NoReceipt EXCEPT !.month = m, !.reserved = k.amount]
  <2>1. Stored(row, Absent) =
          [ver |-> 1, month |-> m, reserved |-> k.amount, settled |-> FALSE, actual |-> 0]
    BY <1>0, <1>1, ReceiptInserted
  <2>2. receipt' = [receipt EXCEPT ![i] = Stored(row, Absent)]
    BY DEF Commit, Transaction, Both, Reservation, Writes, ReservationExpects
  <2> QED  BY <2>1, <2>2
<1> QED  BY <1>0, <1>1, <1>3, <1>4, <1>5 DEF Reserves

LEMMA SettlementWrites ==
    ASSUME IInv, NEW c \in Caller, At(c, "charge"),
           TransactionFits(Both(caller[c].month, IdOf[c]), Settlement(c)),
           Commit(caller[c].month, IdOf[c], Settlement(c))
    PROVE  Settles(caller[c].month, IdOf[c], caller[c].cost)
<1> DEFINE k == caller[c]
           m == k.month
           i == IdOf[c]
           old == ledger[m]
           r == receipt[i]
<1>0. /\ k \in CallerRecord
      /\ i \in Id /\ m \in Month
      /\ old \in Ledger /\ r \in Receipt
      /\ CallerInv(c, k, ledger, r, calls, answers)
  BY BudgetAssumption DEF IInv, TypeOK, CallerRecord
<1>t. k.ledger \in Ledger /\ k.receipt \in Receipt /\ k.amount \in Nat /\ k.cost \in Nat
  BY <1>0, Numbers
<1>1. /\ k.cost \in Cost /\ Seen(k, ledger) /\ k.month = k.receipt.month
      /\ k.receipt.ver = 1 /\ k.receipt.reserved = k.amount
      /\ r.ver = 1 => r = k.receipt
  BY <1>0 DEF CallerInv, At
<1>2. old.ver = k.ledger.ver /\ r.ver = k.receipt.ver
  BY DEF TransactionFits, Both, Settlement, Writes, Matches
<1>3. old = k.ledger /\ r = k.receipt
  BY <1>0, <1>1, <1>2 DEF Seen
<1>4. ledger' = [ledger EXCEPT ![m] = [ver |-> old.ver + 1, used |-> old.used - r.reserved + k.cost]]
  <2> DEFINE row == [k.ledger EXCEPT !.used = SettledUse(c)]
  <2>1. Stored(row, k.ledger.ver) = [ver |-> old.ver + 1, used |-> old.used - r.reserved + k.cost]
    <3>1. SettledUse(c) = old.used - r.reserved + k.cost
      BY <1>1, <1>3 DEF SettledUse
    <3>2. SettledUse(c) \in Int /\ k.ledger.ver \in Nat
      BY <1>t DEF Ledger, SettledUse
    <3> QED  BY <1>0, <1>3, <3>1, <3>2, LedgerStored
  <2>2. ledger' = [ledger EXCEPT ![m] = Stored(row, k.ledger.ver)]
    BY DEF Commit, Transaction, Both, Settlement, Writes
  <2> QED  BY <2>1, <2>2
<1>5. receipt' = [receipt EXCEPT ![i] =
          [ver |-> 2, month |-> m, reserved |-> r.reserved, settled |-> TRUE, actual |-> k.cost]]
  <2> DEFINE row == [k.receipt EXCEPT !.settled = TRUE, !.actual = k.cost]
  <2>1. Stored(row, k.receipt.ver) =
          [ver |-> 2, month |-> m, reserved |-> r.reserved, settled |-> TRUE, actual |-> k.cost]
    <3>1. Stored(row, 1) = [ver |-> 1 + 1, month |-> k.receipt.month,
                            reserved |-> k.receipt.reserved, settled |-> TRUE, actual |-> k.cost]
      BY <1>t, <1>1, ReceiptSettled
    <3> HIDE DEF row
    <3>2. Stored(row, k.receipt.ver) = Stored(row, 1)
      BY <1>1
    <3> QED  BY <1>1, <1>3, <3>1, <3>2
  <2>2. receipt' = [receipt EXCEPT ![i] = Stored(row, k.receipt.ver)]
    BY DEF Commit, Transaction, Both, Settlement, Writes
  <2> QED  BY <2>1, <2>2
<1> QED  BY <1>0, <1>1, <1>2, <1>3, <1>4, <1>5 DEF Settles

-----------------------------------------------------------------------------
(* One transaction changes one term of the sums. *)

Rows ==
    /\ ledger \in [Month -> Ledger]
    /\ receipt \in [Id -> Receipt]
    /\ \A i \in Id : ReceiptInv(receipt[i])

\* The terms of the sums are integers.
LEMMA Terms ==
    ASSUME NEW rows \in [Id -> Receipt], NEW m
    PROVE  /\ [i \in Id |-> ChargeIn(rows[i], m)] \in [Id -> Int]
           /\ [i \in Id |-> ExcessIn(rows[i], m)] \in [Id -> Nat]
<1>1. ASSUME NEW i \in Id PROVE ChargeIn(rows[i], m) \in Int /\ ExcessIn(rows[i], m) \in Nat
  <2>1. rows[i].reserved \in Nat /\ rows[i].actual \in Nat
    BY Numbers
  <2> QED  BY <2>1 DEF ChargeIn, ExcessIn, Charged
<1> QED  BY <1>1

LEMMA ReservationBalances ==
    ASSUME NEW m, NEW i, NEW a, Reserves(m, i, a), Rows, Rows', Balanced, Bounded
    PROVE  Balanced' /\ Bounded'
<1>0. IsFiniteSet(Id)
  BY BudgetAssumption
<1>t. m \in Month /\ i \in Id /\ a \in Nat /\ ledger[m].used \in Int /\ Limit \in Nat
  BY Numbers DEF Reserves, Rows, Ledger
<1>1. \A j \in Id \ {i} : receipt'[j] = receipt[j]
  BY DEF Reserves, Rows
<1>2. \A n \in Month \ {m} : ledger'[n] = ledger[n]
  BY DEF Reserves, Rows
<1>3. receipt[i] = NoReceipt
  BY DEF Reserves
<1>4. receipt'[i] = [ver |-> 1, month |-> m, reserved |-> a, settled |-> FALSE, actual |-> 0]
  BY DEF Reserves, Rows
<1>5. ledger'[m].used = ledger[m].used + a /\ ledger[m].used + a <= Limit
  BY <1>t DEF Reserves, Rows, FitsLimit
<1>6. ASSUME NEW n \in Month
      PROVE  /\ ledger'[n].used = Total([j \in Id |-> ChargeIn(receipt'[j], n)], Id)
             /\ ledger'[n].used <= Limit + Total([j \in Id |-> ExcessIn(receipt'[j], n)], Id)
  <2> DEFINE f == [j \in Id |-> ChargeIn(receipt[j], n)]
             g == [j \in Id |-> ChargeIn(receipt'[j], n)]
             e == [j \in Id |-> ExcessIn(receipt[j], n)]
             h == [j \in Id |-> ExcessIn(receipt'[j], n)]
  <2>1. f \in [Id -> Int] /\ g \in [Id -> Int] /\ h \in [Id -> Nat]
    BY Terms DEF Rows
  <2>2. \A j \in Id \ {i} : g[j] = f[j] /\ h[j] = e[j]
    BY <1>1
  <2>3. f[i] = 0 /\ e[i] = 0
    BY <1>t, <1>3 DEF ChargeIn, ExcessIn, NoReceipt, Absent
  <2>4. h[i] = 0 /\ g[i] = IF n = m THEN a ELSE 0
    BY <1>t, <1>4 DEF ChargeIn, ExcessIn, Charged, Absent
  <2>5. ledger[n].used = Total(f, Id) /\ ledger[n].used <= Limit + Total(e, Id)
    BY DEF Balanced, Bounded
  <2>6. Total(f, Id) \in Int /\ Total(h, Id) \in Nat
    <3> HIDE DEF f, g, e, h
    <3> QED  BY <1>0, <2>1, TotalInt, TotalNonneg
  <2> HIDE DEF f, g, e, h
  <2>7. Total(g, Id) = Total(f, Id) - f[i] + g[i]
    BY <1>0, <1>t, <2>1, <2>2, TotalChange
  <2>8. Total(h, Id) = Total(e, Id)
    <3>1. \A j \in Id : h[j] = e[j]
      BY <2>2, <2>3, <2>4
    <3> QED  BY <1>0, <3>1, TotalAgree
  <2>9. ledger'[n].used = Total(g, Id)
    BY <1>2, <1>5, <2>3, <2>4, <2>5, <2>6, <2>7
  <2>10. ledger'[n].used <= Limit + Total(h, Id)
    BY <1>2, <1>5, <1>t, <2>5, <2>6, <2>8
  <2> QED  BY <2>9, <2>10 DEF g, h
<1> QED  BY <1>6 DEF Balanced, Bounded

LEMMA SettlementBalances ==
    ASSUME NEW m, NEW i, NEW x, Settles(m, i, x), Rows, Rows', Balanced, Bounded
    PROVE  Balanced' /\ Bounded'
<1> DEFINE a == receipt[i].reserved
<1>0. IsFiniteSet(Id)
  BY BudgetAssumption
<1>t. m \in Month /\ i \in Id /\ x \in Nat /\ a \in Nat /\ ledger[m].used \in Int /\ Limit \in Nat
  BY Numbers DEF Settles, Rows, Ledger
<1>1. \A j \in Id \ {i} : receipt'[j] = receipt[j]
  BY DEF Settles, Rows
<1>2. \A n \in Month \ {m} : ledger'[n] = ledger[n]
  BY DEF Settles, Rows
<1>3. receipt[i].ver = 1 /\ receipt[i].month = m /\ receipt[i].actual = 0 /\ ~receipt[i].settled
  BY <1>t DEF Settles, Rows, ReceiptInv
<1>4. receipt'[i] = [ver |-> 2, month |-> m, reserved |-> a, settled |-> TRUE, actual |-> x]
  BY DEF Settles, Rows
<1>5. ledger'[m].used = ledger[m].used - a + x
  BY <1>t DEF Settles, Rows
<1>6. ASSUME NEW n \in Month
      PROVE  /\ ledger'[n].used = Total([j \in Id |-> ChargeIn(receipt'[j], n)], Id)
             /\ ledger'[n].used <= Limit + Total([j \in Id |-> ExcessIn(receipt'[j], n)], Id)
  <2> DEFINE f == [j \in Id |-> ChargeIn(receipt[j], n)]
             g == [j \in Id |-> ChargeIn(receipt'[j], n)]
             e == [j \in Id |-> ExcessIn(receipt[j], n)]
             h == [j \in Id |-> ExcessIn(receipt'[j], n)]
  <2>1. f \in [Id -> Int] /\ g \in [Id -> Int] /\ e \in [Id -> Int] /\ h \in [Id -> Int]
    <3>1. e \in [Id -> Nat] /\ h \in [Id -> Nat] /\ f \in [Id -> Int] /\ g \in [Id -> Int]
      BY Terms DEF Rows
    <3> HIDE DEF f, g, e, h
    <3> QED  BY <3>1
  <2>2. \A j \in Id \ {i} : g[j] = f[j] /\ h[j] = e[j]
    BY <1>1
  <2>3. e[i] = 0 /\ f[i] = IF n = m THEN a ELSE 0
    BY <1>t, <1>3 DEF ChargeIn, ExcessIn, Charged, Absent
  <2>4. /\ h[i] = IF n = m /\ x > a THEN x - a ELSE 0
        /\ g[i] = IF n = m THEN x ELSE 0
    BY <1>t, <1>4 DEF ChargeIn, ExcessIn, Charged, Absent
  <2>5. ledger[n].used = Total(f, Id) /\ ledger[n].used <= Limit + Total(e, Id)
    BY DEF Balanced, Bounded
  <2> HIDE DEF f, g, e, h
  <2>6. Total(f, Id) \in Int /\ Total(e, Id) \in Int
    BY <1>0, <2>1, TotalInt
  <2>7. Total(g, Id) = Total(f, Id) - f[i] + g[i]
    BY <1>0, <1>t, <2>1, <2>2, TotalChange
  <2>8. Total(h, Id) = Total(e, Id) - e[i] + h[i]
    BY <1>0, <1>t, <2>1, <2>2, TotalChange
  <2>9. CASE n = m
    BY <1>5, <1>t, <2>3, <2>4, <2>5, <2>6, <2>7, <2>8, <2>9 DEF g, h
  <2>10. CASE n # m
    BY <1>2, <1>t, <2>3, <2>4, <2>5, <2>6, <2>7, <2>8, <2>10 DEF g, h
  <2> QED  BY <2>9, <2>10
<1> QED  BY <1>6 DEF Balanced, Bounded

-----------------------------------------------------------------------------
(* What a step of one caller leaves alone. *)

Moves(c) ==
    /\ caller' \in [Caller -> CallerRecord]
    /\ \A d \in Caller \ {c} : caller'[d] = caller[d]

\* c goes on without writing a row and without making the call.
LEMMA QuietStep ==
    ASSUME IInv, NEW c \in Caller, Moves(c),
           UNCHANGED <<ledger, receipt, month, calls, answers>>,
           CallerInv(c, caller'[c], ledger, receipt[IdOf[c]], calls, answers),
           caller'[c].pc # "call"
    PROVE  IInv'
<1>1. TypeOK'
  BY DEF IInv, TypeOK, Moves, CallerRecord
<1>2. /\ \A i \in Id : ReceiptInv(receipt'[i])
      /\ Balanced' /\ Bounded'
  BY DEF IInv, Balanced, Bounded
<1>3. \A d \in Caller : CallerInv(d, caller'[d], ledger', receipt'[IdOf[d]], calls', answers')
  <2> TAKE d \in Caller
  <2>1. CASE d = c
    BY <2>1
  <2>2. CASE d # c
    <3>1. caller'[d] = caller[d]
      BY <2>2 DEF Moves
    <3> QED  BY <3>1 DEF IInv
  <2> QED  BY <2>1, <2>2
<1>4. Exclusive'
  <2>1. \A d \in Caller : Holds(d)' => Holds(d)
    BY DEF Holds, At, Moves
  <2> QED  BY <2>1 DEF IInv, Exclusive
<1> QED  BY <1>1, <1>2, <1>3, <1>4 DEF IInv

LEMMA EndMoves ==
    ASSUME TypeOK, NEW c \in Caller, NEW pc \in Pc, End(c, pc)
    PROVE  /\ Moves(c)
           /\ caller'[c].pc = pc
           /\ caller'[c].amount = caller[c].amount
<1> DEFINE d == [Fresh EXCEPT !.pc = pc, !.amount = caller[c].amount]
<1>0. 0 \in 0 .. MaxTries - 1 /\ 0 \in Month
  BY BudgetAssumption DEF Month
<1>1. Fresh \in CallerRecord
  BY <1>0 DEF Fresh, CallerRecord, Pc, NoLedger, Ledger, NoReceipt, Receipt, Absent
<1>2. caller \in [Caller -> CallerRecord] /\ caller[c].amount \in Amount \cup {0}
  BY DEF TypeOK, CallerRecord
<1>3. d \in CallerRecord /\ d.pc = pc /\ d.amount = caller[c].amount
  BY <1>1, <1>2 DEF CallerRecord
<1>4. caller' = [caller EXCEPT ![c] = d]
  BY DEF End
<1> HIDE DEF d
<1> QED  BY <1>2, <1>3, <1>4 DEF Moves

\* An operation that ends where it authorizes nothing.
LEMMA EndKeeps ==
    ASSUME IInv, NEW c \in Caller, NEW pc \in {"failed", "paid", "unknown"}, End(c, pc),
           UNCHANGED <<ledger, receipt, month, calls, answers>>
    PROVE  IInv'
<1>1. Moves(c) /\ caller'[c].pc = pc /\ caller'[c].amount = caller[c].amount
  BY EndMoves DEF IInv, Pc
<1>2. CallerInv(c, caller[c], ledger, receipt[IdOf[c]], calls, answers)
  BY DEF IInv
<1>3. CallerInv(c, caller'[c], ledger, receipt[IdOf[c]], calls, answers)
  BY <1>1, <1>2 DEF CallerInv
<1> QED  BY <1>1, <1>3, QuietStep

LEMMA RetryKeeps ==
    ASSUME IInv, NEW c \in Caller, NEW again,
           \/ At(c, "commit") /\ again = "reserve"
           \/ At(c, "charge") /\ again = "settle",
           Retry(c, again),
           UNCHANGED <<ledger, receipt, month, calls, answers>>
    PROVE  IInv'
<1>1. CASE End(c, "failed")
  BY <1>1, EndKeeps
<1>2. CASE caller[c].tries + 1 < MaxTries /\ ~End(c, "failed")
  <2>0. /\ caller \in [Caller -> CallerRecord]
        /\ NoLedger \in Ledger /\ NoReceipt \in Receipt
        /\ caller[c].tries + 1 \in 0 .. MaxTries - 1
        /\ again \in Pc
    <3>1. caller \in [Caller -> CallerRecord]
      BY DEF IInv, TypeOK, CallerRecord
    <3>2. caller[c].tries \in 0 .. MaxTries - 1
      BY <3>1 DEF CallerRecord
    <3> QED  BY <1>2, <3>1, <3>2, BudgetAssumption
             DEF NoLedger, Ledger, NoReceipt, Receipt, Absent, Month, Pc
  <2>1. caller' = [caller EXCEPT ![c].pc = again, ![c].tries = @ + 1,
                                 ![c].ledger = NoLedger, ![c].receipt = NoReceipt]
    BY <1>2 DEF Retry
  <2>2. /\ Moves(c)
        /\ caller'[c].pc = again
        /\ caller'[c].amount = caller[c].amount /\ caller'[c].cost = caller[c].cost
    BY <2>0, <2>1 DEF Moves, CallerRecord
  <2>3. CallerInv(c, caller[c], ledger, receipt[IdOf[c]], calls, answers)
    BY DEF IInv
  <2>4. CallerInv(c, caller'[c], ledger, receipt[IdOf[c]], calls, answers)
    BY <2>2, <2>3 DEF CallerInv, At
  <2>5. caller'[c].pc # "call"
    BY <2>2
  <2> QED  BY <2>2, <2>4, <2>5, QuietStep
<1> QED  BY <1>1, <1>2 DEF Retry

-----------------------------------------------------------------------------
(* Every action keeps the invariant. *)

LEMMA BeginReserveKeeps ==
    ASSUME IInv, NEW c \in Caller, NEW amount \in Amount, BeginReserve(c, amount)
    PROVE  IInv'
<1>1. caller \in [Caller -> CallerRecord] /\ month \in Month /\ "reserve" \in Pc
  BY DEF IInv, TypeOK, CallerRecord, Pc
<1>2. caller' = [caller EXCEPT ![c].pc = "reserve", ![c].month = month, ![c].amount = amount]
  BY DEF BeginReserve
<1>3. Moves(c) /\ caller'[c].pc = "reserve" /\ caller'[c].amount = amount
  BY <1>1, <1>2 DEF Moves, CallerRecord
<1>4. CallerInv(c, caller[c], ledger, receipt[IdOf[c]], calls, answers)
  BY DEF IInv
<1>5. CallerInv(c, caller'[c], ledger, receipt[IdOf[c]], calls, answers)
  BY <1>3, <1>4 DEF CallerInv, BeginReserve, At
<1> QED  BY <1>3, <1>5, QuietStep DEF BeginReserve

LEMMA ReadLedgerKeeps ==
    ASSUME IInv, NEW c \in Caller, ReadLedger(c)
    PROVE  IInv'
<1>1. CASE End(c, "failed")
  BY <1>1, EndKeeps DEF ReadLedger
<1>2. CASE /\ FitsLimit(ledger[caller[c].month].used, caller[c].amount)
           /\ caller' = [caller EXCEPT ![c].pc = "receipt", ![c].ledger = ledger[caller[c].month]]
  <2>1. /\ caller \in [Caller -> CallerRecord] /\ caller[c].month \in Month
        /\ ledger[caller[c].month] \in Ledger /\ "receipt" \in Pc
    BY DEF IInv, TypeOK, CallerRecord, Pc
  <2>2. /\ Moves(c)
        /\ caller'[c].pc = "receipt" /\ caller'[c].ledger = ledger[caller[c].month]
        /\ caller'[c].month = caller[c].month /\ caller'[c].amount = caller[c].amount
    BY <1>2, <2>1 DEF Moves, CallerRecord
  <2>3. CallerInv(c, caller[c], ledger, receipt[IdOf[c]], calls, answers)
    BY DEF IInv
  <2>4. CallerInv(c, caller'[c], ledger, receipt[IdOf[c]], calls, answers)
    <3>1. Seen(caller'[c], ledger)
      BY <2>1, <2>2 DEF Seen, Ledger
    <3> QED  BY <1>2, <2>2, <2>3, <3>1 DEF CallerInv, ReadLedger, At
  <2> QED  BY <2>2, <2>4, QuietStep DEF ReadLedger
<1> QED  BY <1>1, <1>2 DEF ReadLedger

LEMMA CheckReceiptKeeps ==
    ASSUME IInv, NEW c \in Caller, CheckReceipt(c)
    PROVE  IInv'
<1>1. CASE End(c, "failed")
  BY <1>1, EndKeeps DEF CheckReceipt
<1>2. CASE Goto(c, "commit")
  <2>1. caller \in [Caller -> CallerRecord] /\ "commit" \in Pc
    BY DEF IInv, TypeOK, CallerRecord, Pc
  <2>2. /\ Moves(c)
        /\ caller'[c].pc = "commit" /\ caller'[c].ledger = caller[c].ledger
        /\ caller'[c].month = caller[c].month /\ caller'[c].amount = caller[c].amount
    BY <1>2, <2>1 DEF Moves, CallerRecord, Goto
  <2>3. CallerInv(c, caller[c], ledger, receipt[IdOf[c]], calls, answers)
    BY DEF IInv
  <2>4. CallerInv(c, caller'[c], ledger, receipt[IdOf[c]], calls, answers)
    BY <2>2, <2>3 DEF CallerInv, Seen, CheckReceipt, At
  <2> QED  BY <2>2, <2>4, QuietStep DEF CheckReceipt
<1> QED  BY <1>1, <1>2 DEF CheckReceipt

LEMMA ReadReceiptKeeps ==
    ASSUME IInv, NEW c \in Caller, ReadReceipt(c)
    PROVE  IInv'
<1> DEFINE seen == receipt[IdOf[c]]
<1>1. CASE End(c, "failed")
  BY <1>1, EndKeeps DEF ReadReceipt
<1>2. CASE End(c, "paid")
  BY <1>2, EndKeeps DEF ReadReceipt
<1>3. CASE /\ seen.ver # Absent /\ ~seen.settled /\ seen.reserved = caller[c].amount
           /\ caller' = [caller EXCEPT ![c].pc = "ledger", ![c].receipt = seen]
  <2>1. /\ caller \in [Caller -> CallerRecord] /\ "ledger" \in Pc
        /\ seen \in Receipt /\ ReceiptInv(seen)
    BY BudgetAssumption DEF IInv, TypeOK, CallerRecord, Pc
  <2>2. /\ Moves(c)
        /\ caller'[c].pc = "ledger" /\ caller'[c].receipt = seen
        /\ caller'[c].amount = caller[c].amount /\ caller'[c].cost = caller[c].cost
    BY <1>3, <2>1 DEF Moves, CallerRecord
  <2>3. CallerInv(c, caller[c], ledger, seen, calls, answers)
    BY DEF IInv
  <2>4. seen.ver = 1
    BY <1>3, <2>1 DEF ReceiptInv
  <2>5. CallerInv(c, caller'[c], ledger, seen, calls, answers)
    BY <1>3, <2>2, <2>3, <2>4 DEF CallerInv, ReadReceipt, At
  <2> QED  BY <2>2, <2>5, QuietStep DEF ReadReceipt
<1> QED  BY <1>1, <1>2, <1>3 DEF ReadReceipt

LEMMA ReadSettleLedgerKeeps ==
    ASSUME IInv, NEW c \in Caller, ReadSettleLedger(c)
    PROVE  IInv'
<1> DEFINE m == caller[c].receipt.month
<1>1. CASE End(c, "failed")
  BY <1>1, EndKeeps DEF ReadSettleLedger
<1>2. CASE caller' = [caller EXCEPT ![c].pc = "charge", ![c].month = m, ![c].ledger = ledger[m]]
  <2>1. /\ caller \in [Caller -> CallerRecord] /\ "charge" \in Pc
        /\ m \in Month /\ ledger[m] \in Ledger
    BY DEF IInv, TypeOK, CallerRecord, Receipt, Pc
  <2>2. /\ Moves(c)
        /\ caller'[c].pc = "charge" /\ caller'[c].month = m /\ caller'[c].ledger = ledger[m]
        /\ caller'[c].receipt = caller[c].receipt
        /\ caller'[c].amount = caller[c].amount /\ caller'[c].cost = caller[c].cost
    BY <1>2, <2>1 DEF Moves, CallerRecord
  <2>3. CallerInv(c, caller[c], ledger, receipt[IdOf[c]], calls, answers)
    BY DEF IInv
  <2>4. CallerInv(c, caller'[c], ledger, receipt[IdOf[c]], calls, answers)
    <3>1. Seen(caller'[c], ledger)
      BY <2>1, <2>2 DEF Seen, Ledger
    <3> QED  BY <2>2, <2>3, <3>1 DEF CallerInv, ReadSettleLedger, At
  <2> QED  BY <2>2, <2>4, QuietStep DEF ReadSettleLedger
<1> QED  BY <1>1, <1>2 DEF ReadSettleLedger, SettleMonth

\* The call is made by the one caller that holds the reservation of its id.
LEMMA ConverseKeeps ==
    ASSUME IInv, NEW c \in Caller, Converse(c)
    PROVE  IInv'
<1>0. /\ caller \in [Caller -> CallerRecord] /\ "settle" \in Pc
      /\ CallerInv(c, caller[c], ledger, receipt[IdOf[c]], calls, answers)
      /\ At(c, "call")
  BY DEF IInv, TypeOK, CallerRecord, Pc, Converse
<1>1. /\ Moves(c) /\ caller'[c].amount = caller[c].amount
      /\ \/ caller'[c].pc = "unknown" /\ answers' = answers
         \/ caller'[c].pc = "settle" /\ caller'[c].cost \in Cost /\ answers' = answers \cup {c}
  <2>1. CASE Unanswered(c) /\ UNCHANGED answers
    BY <2>1, EndMoves DEF Unanswered, IInv, Pc
  <2>2. ASSUME NEW cost \in Cost,
               caller' = [caller EXCEPT ![c].pc = "settle", ![c].cost = cost],
               answers' = answers \cup {c}
        PROVE  /\ Moves(c) /\ caller'[c].amount = caller[c].amount
               /\ caller'[c].pc = "settle" /\ caller'[c].cost \in Cost
    BY <1>0, <2>2 DEF Moves, CallerRecord
  <2> QED  BY <2>1, <2>2 DEF Converse
<1>2. /\ calls' = calls \cup {c} /\ UNCHANGED <<ledger, receipt, month>>
  BY DEF Converse
<1>3. TypeOK'
  BY <1>1, <1>2 DEF IInv, TypeOK, Moves, CallerRecord
<1>4. /\ \A i \in Id : ReceiptInv(receipt'[i])
      /\ Balanced' /\ Bounded'
  BY <1>2 DEF IInv, Balanced, Bounded
<1>5. \A d \in Caller : CallerInv(d, caller'[d], ledger', receipt'[IdOf[d]], calls', answers')
  <2> TAKE d \in Caller
  <2>1. CASE d = c
    BY <1>0, <1>1, <1>2, <2>1 DEF CallerInv, At
  <2>2. CASE d # c
    <3>1. /\ caller'[d] = caller[d]
          /\ d \in calls' <=> d \in calls
          /\ d \in answers' <=> d \in answers
      BY <1>1, <1>2, <2>2 DEF Moves
    <3>2. CallerInv(d, caller[d], ledger, receipt[IdOf[d]], calls, answers)
      BY DEF IInv
    <3> QED  BY <1>2, <3>1, <3>2 DEF CallerInv
  <2> QED  BY <2>1, <2>2
<1>6. Exclusive'
  <2>1. \A d \in Caller : Holds(d)' => Holds(d)
    BY <1>0, <1>1, <1>2 DEF Holds, At, Moves
  <2> QED  BY <2>1 DEF IInv, Exclusive
<1> QED  BY <1>3, <1>4, <1>5, <1>6 DEF IInv

LEMMA WritesKeepRows ==
    ASSUME IInv, NEW m, NEW i, NEW a, Reserves(m, i, a) \/ Settles(m, i, a)
    PROVE  /\ Rows /\ Rows'
           /\ ledger' \in [Month -> Ledger] /\ receipt' \in [Id -> Receipt]
           /\ \A n \in Month : ledger'[n] # ledger[n] => ledger'[n].ver > ledger[n].ver
           /\ \A j \in Id \ {i} : receipt'[j] = receipt[j]
<1>0. Rows
  BY DEF IInv, TypeOK, Rows
<1>1. /\ m \in Month /\ i \in Id /\ ledger[m] \in Ledger /\ receipt[i] \in Receipt
      /\ ledger[m].used \in Int /\ ledger[m].ver \in Nat /\ receipt[i].reserved \in Nat
  BY <1>0, Numbers DEF Rows, Reserves, Settles, Ledger
<1>2. CASE Reserves(m, i, a)
  <2>1. [ver |-> ledger[m].ver + 1, used |-> ledger[m].used + a] \in Ledger
    BY <1>1, <1>2, Numbers DEF Ledger, Reserves
  <2> DEFINE r == [ver |-> 1, month |-> m, reserved |-> a, settled |-> FALSE, actual |-> 0]
  <2>2. r \in Receipt /\ ReceiptInv(r)
    BY <1>1, <1>2 DEF Receipt, ReceiptInv, Reserves, Absent
  <2> HIDE DEF r
  <2>3. /\ ledger' = [ledger EXCEPT ![m] = [ver |-> ledger[m].ver + 1,
                                            used |-> ledger[m].used + a]]
        /\ receipt' = [receipt EXCEPT ![i] = r]
    BY <1>2 DEF Reserves, r
  <2> QED  BY <1>0, <1>1, <2>1, <2>2, <2>3 DEF Rows
<1>3. CASE Settles(m, i, a)
  <2> DEFINE l == [ver |-> ledger[m].ver + 1, used |-> ledger[m].used - receipt[i].reserved + a]
             r == [ver |-> 2, month |-> m, reserved |-> receipt[i].reserved,
                   settled |-> TRUE, actual |-> a]
  <2>1. l \in Ledger /\ l.ver > ledger[m].ver
    BY <1>1, <1>3, Numbers DEF Ledger, Settles
  <2>2. r \in Receipt /\ ReceiptInv(r)
    BY <1>1, <1>3 DEF Receipt, ReceiptInv, Settles, Absent
  <2> HIDE DEF l, r
  <2>3. ledger' = [ledger EXCEPT ![m] = l] /\ receipt' = [receipt EXCEPT ![i] = r]
    BY <1>3 DEF Settles, l, r
  <2> QED  BY <1>0, <1>1, <2>1, <2>2, <2>3 DEF Rows
<1> QED  BY <1>2, <1>3

\* Copies that were current are now older versions; no other copy changed.
LEMMA SeenKept ==
    ASSUME IInv, NEW m, NEW i, NEW a, Reserves(m, i, a) \/ Settles(m, i, a),
           NEW k \in CallerRecord, Seen(k, ledger)
    PROVE  Seen(k, ledger')
<1>1. /\ k.month \in Month /\ k.ledger.ver \in Nat
      /\ ledger[k.month].ver \in Nat /\ ledger'[k.month].ver \in Nat
  BY WritesKeepRows, Numbers DEF Rows, Ledger
<1>2. ledger'[k.month] # ledger[k.month] => ledger'[k.month].ver > ledger[k.month].ver
  BY <1>1, WritesKeepRows
<1> QED  BY <1>1, <1>2 DEF Seen

\* The receipt is inserted only where there was none, so nobody else holds it.
LEMMA ReservationKeeps ==
    ASSUME IInv, NEW c \in Caller, At(c, "commit"),
           Reserves(caller[c].month, IdOf[c], caller[c].amount),
           Moves(c), caller'[c].pc \in {"call", "failed"}, caller'[c].amount = caller[c].amount,
           UNCHANGED <<month, calls, answers>>
    PROVE  IInv'
<1> DEFINE m == caller[c].month
           i == IdOf[c]
           a == caller[c].amount
<1>0. /\ Rows /\ Rows'
      /\ ledger' \in [Month -> Ledger] /\ receipt' \in [Id -> Receipt]
      /\ \A j \in Id \ {i} : receipt'[j] = receipt[j]
  BY WritesKeepRows
<1>1. TypeOK'
  BY <1>0 DEF IInv, TypeOK, Moves, CallerRecord
<1>2. Balanced' /\ Bounded'
  BY <1>0, ReservationBalances DEF IInv
<1>3. receipt[i].ver = Absent
  BY DEF Reserves, NoReceipt
<1>4. receipt'[i].ver = 1 /\ receipt'[i].reserved = a
  BY <1>0 DEF Reserves, Rows
<1>5. ASSUME NEW d \in Caller PROVE
         CallerInv(d, caller'[d], ledger', receipt'[IdOf[d]], calls', answers')
  <2>1. CallerInv(d, caller[d], ledger, receipt[IdOf[d]], calls, answers)
    BY DEF IInv
  <2>2. CASE d = c
    BY <1>4, <2>1, <2>2 DEF CallerInv, At, Absent
  <2>3. CASE d # c
    <3>1. caller'[d] = caller[d] /\ caller[d] \in CallerRecord
      BY <2>3 DEF Moves, IInv, TypeOK, CallerRecord
    <3>2. Seen(caller[d], ledger) => Seen(caller[d], ledger')
      BY <3>1, SeenKept
    <3>3. CASE IdOf[d] = i
      <4>1. receipt[IdOf[d]].ver = Absent
        BY <1>3, <3>3
      <4> QED  BY <2>1, <3>1, <3>2, <4>1 DEF CallerInv, Absent
    <3>4. CASE IdOf[d] # i
      <4>1. receipt'[IdOf[d]] = receipt[IdOf[d]]
        BY <1>0, <3>4, BudgetAssumption
      <4> QED  BY <2>1, <3>1, <3>2, <4>1 DEF CallerInv
    <3> QED  BY <3>3, <3>4
  <2> QED  BY <2>2, <2>3
<1>6. Exclusive'
  <2>1. \A d \in Caller \ {c} : Holds(d)' => Holds(d)
    BY DEF Holds, At, Moves
  <2>2. \A d \in Caller : IdOf[d] = i => ~Holds(d)
    <3> SUFFICES ASSUME NEW d \in Caller, IdOf[d] = i PROVE ~Holds(d)
      OBVIOUS
    <3>1. CallerInv(d, caller[d], ledger, receipt[IdOf[d]], calls, answers)
      BY DEF IInv
    <3> QED  BY <1>3, <3>1 DEF CallerInv, Holds, At
  <2> QED  BY <2>1, <2>2 DEF IInv, Exclusive
<1> QED  BY <1>0, <1>1, <1>2, <1>5, <1>6 DEF IInv, Rows

\* Whoever settles was answered, so no other caller of its id made a call.
LEMMA SettlementKeeps ==
    ASSUME IInv, NEW c \in Caller, At(c, "charge"),
           Settles(caller[c].month, IdOf[c], caller[c].cost),
           Moves(c), caller'[c].pc \in {"paid", "failed"}, caller'[c].amount = caller[c].amount,
           UNCHANGED <<month, calls, answers>>
    PROVE  IInv'
<1> DEFINE m == caller[c].month
           i == IdOf[c]
<1>0. /\ Rows /\ Rows'
      /\ ledger' \in [Month -> Ledger] /\ receipt' \in [Id -> Receipt]
      /\ \A j \in Id \ {i} : receipt'[j] = receipt[j]
  BY WritesKeepRows
<1>1. TypeOK'
  BY <1>0 DEF IInv, TypeOK, Moves, CallerRecord
<1>2. Balanced' /\ Bounded'
  BY <1>0, SettlementBalances DEF IInv
<1>3. c \in answers /\ Holds(c)
  <2>1. CallerInv(c, caller[c], ledger, receipt[IdOf[c]], calls, answers)
    BY DEF IInv
  <2>2. c \in answers
    BY <2>1 DEF CallerInv, At
  <2> QED  BY <2>2 DEF IInv, TypeOK, Holds
<1>4. receipt'[i].ver = 2
  BY <1>0 DEF Settles, Rows
<1>5. ASSUME NEW d \in Caller PROVE
         CallerInv(d, caller'[d], ledger', receipt'[IdOf[d]], calls', answers')
  <2>1. CallerInv(d, caller[d], ledger, receipt[IdOf[d]], calls, answers)
    BY DEF IInv
  <2>2. CASE d = c
    BY <1>3, <1>4, <2>1, <2>2 DEF CallerInv, At, Absent
  <2>3. CASE d # c
    <3>1. caller'[d] = caller[d] /\ caller[d] \in CallerRecord
      BY <2>3 DEF Moves, IInv, TypeOK, CallerRecord
    <3>2. Seen(caller[d], ledger) => Seen(caller[d], ledger')
      BY <3>1, SeenKept
    <3>3. CASE IdOf[d] = i
      <4>1. ~Holds(d)
        BY <1>3, <2>3, <3>3 DEF IInv, Exclusive
      <4> QED  BY <1>4, <2>1, <3>1, <3>2, <3>3, <4>1 DEF CallerInv, Holds, At, Absent
    <3>4. CASE IdOf[d] # i
      <4>1. receipt'[IdOf[d]] = receipt[IdOf[d]]
        BY <1>0, <3>4, BudgetAssumption
      <4> QED  BY <2>1, <3>1, <3>2, <4>1 DEF CallerInv
    <3> QED  BY <3>3, <3>4
  <2> QED  BY <2>2, <2>3
<1>6. Exclusive'
  <2>1. \A d \in Caller : Holds(d)' => Holds(d)
    BY DEF Holds, At, Moves
  <2> QED  BY <2>1 DEF IInv, Exclusive
<1> QED  BY <1>0, <1>1, <1>2, <1>5, <1>6 DEF IInv, Rows

LEMMA CommitReservationKeeps ==
    ASSUME IInv, NEW c \in Caller, CommitReservation(c)
    PROVE  IInv'
<1>1. CASE /\ TransactionFits(Both(caller[c].month, IdOf[c]), Reservation(c))
           /\ Commit(caller[c].month, IdOf[c], Reservation(c))
           /\ End(c, "call")
  <2>1. Moves(c) /\ caller'[c].pc = "call" /\ caller'[c].amount = caller[c].amount
    BY <1>1, EndMoves DEF IInv, Pc
  <2>2. At(c, "commit") /\ UNCHANGED <<month, calls, answers>>
    BY DEF CommitReservation
  <2>3. Reserves(caller[c].month, IdOf[c], caller[c].amount)
    BY <1>1, <2>2, ReservationWrites
  <2> QED  BY <2>1, <2>2, <2>3, ReservationKeeps
<1>2. CASE UNCHANGED <<ledger, receipt>> /\ Retry(c, "reserve")
  BY <1>2, RetryKeeps DEF CommitReservation
<1> QED  BY <1>1, <1>2 DEF CommitReservation

LEMMA LoseReservationKeeps ==
    ASSUME IInv, NEW c \in Caller, LoseReservation(c)
    PROVE  IInv'
<1>1. Moves(c) /\ caller'[c].pc = "failed" /\ caller'[c].amount = caller[c].amount
  BY EndMoves DEF IInv, Pc, LoseReservation
<1>2. At(c, "commit") /\ UNCHANGED <<month, calls, answers>>
  BY DEF LoseReservation
<1>3. Reserves(caller[c].month, IdOf[c], caller[c].amount)
  BY <1>2, ReservationWrites DEF LoseReservation
<1> QED  BY <1>1, <1>2, <1>3, ReservationKeeps

LEMMA CommitSettlementKeeps ==
    ASSUME IInv, NEW c \in Caller, CommitSettlement(c)
    PROVE  IInv'
<1>1. CASE /\ TransactionFits(Both(caller[c].month, IdOf[c]), Settlement(c))
           /\ Commit(caller[c].month, IdOf[c], Settlement(c))
           /\ End(c, "paid")
  <2>1. Moves(c) /\ caller'[c].pc = "paid" /\ caller'[c].amount = caller[c].amount
    BY <1>1, EndMoves DEF IInv, Pc
  <2>2. At(c, "charge") /\ UNCHANGED <<month, calls, answers>>
    BY DEF CommitSettlement
  <2>3. Settles(caller[c].month, IdOf[c], caller[c].cost)
    BY <1>1, <2>2, SettlementWrites
  <2> QED  BY <2>1, <2>2, <2>3, SettlementKeeps
<1>2. CASE UNCHANGED <<ledger, receipt>> /\ Retry(c, "settle")
  BY <1>2, RetryKeeps DEF CommitSettlement
<1> QED  BY <1>1, <1>2 DEF CommitSettlement

LEMMA LoseSettlementKeeps ==
    ASSUME IInv, NEW c \in Caller, LoseSettlement(c)
    PROVE  IInv'
<1>1. Moves(c) /\ caller'[c].pc = "failed" /\ caller'[c].amount = caller[c].amount
  BY EndMoves DEF IInv, Pc, LoseSettlement
<1>2. At(c, "charge") /\ UNCHANGED <<month, calls, answers>>
  BY DEF LoseSettlement
<1>3. Settles(caller[c].month, IdOf[c], caller[c].cost)
  BY <1>2, SettlementWrites DEF LoseSettlement
<1> QED  BY <1>1, <1>2, <1>3, SettlementKeeps

LEMMA InitIInv == Init => IInv
<1> SUFFICES ASSUME Init PROVE IInv
  OBVIOUS
<1>0. /\ 0 \in Month /\ 0 \in 0 .. MaxTries - 1 /\ Limit \in Nat /\ IsFiniteSet(Id)
      /\ NoLedger \in Ledger /\ NoReceipt \in Receipt
  BY BudgetAssumption DEF Month, NoLedger, Ledger, NoReceipt, Receipt, Absent
<1>1. TypeOK
  <2>1. Fresh \in CallerRecord
    BY <1>0 DEF Fresh, CallerRecord, Pc
  <2> QED  BY <1>0, <2>1 DEF Init, TypeOK, CallerRecord
<1>2. \A i \in Id : ReceiptInv(receipt[i])
  BY DEF Init, ReceiptInv, NoReceipt, Absent
<1>3. ASSUME NEW m \in Month
      PROVE  /\ ledger[m].used = Total([i \in Id |-> ChargeIn(receipt[i], m)], Id)
             /\ ledger[m].used <= Limit + Total([i \in Id |-> ExcessIn(receipt[i], m)], Id)
  <2> DEFINE f == [i \in Id |-> ChargeIn(receipt[i], m)]
             e == [i \in Id |-> ExcessIn(receipt[i], m)]
  <2>1. \A i \in Id : f[i] = 0
    BY DEF Init, ChargeIn, NoReceipt
  <2>2. f \in [Id -> Int] /\ e \in [Id -> Nat]
    BY <1>1, Terms DEF TypeOK
  <2>3. ledger[m].used = 0
    BY DEF Init, NoLedger
  <2> HIDE DEF f, e
  <2>4. Total(f, Id) = 0
    <3>1. Total(f, Id) = Total(f, {})
      BY <1>0, <2>1, <2>2, TotalFilter
    <3> QED  BY <3>1, TotalEmpty
  <2>5. Total(e, Id) \in Nat
    BY <1>0, <2>2, TotalNonneg
  <2>6. ledger[m].used = Total(f, Id) /\ ledger[m].used <= Limit + Total(e, Id)
    BY <1>0, <2>3, <2>4, <2>5
  <2> QED  BY <2>6 DEF f, e
<1>4. \A c \in Caller : CallerInv(c, caller[c], ledger, receipt[IdOf[c]], calls, answers)
  BY DEF Init, CallerInv, Fresh
<1>5. Exclusive
  BY DEF Init, Exclusive, Holds, At, Fresh
<1> QED  BY <1>1, <1>2, <1>3, <1>4, <1>5 DEF IInv, Balanced, Bounded

LEMMA NextKeeps == IInv /\ [Next]_vars => IInv'
<1> SUFFICES ASSUME IInv, [Next]_vars PROVE IInv'
  OBVIOUS
<1>1. CASE NextMonth
  <2>1. month' \in Month
    <3>1. month \in Month /\ month < LastMonth /\ month' = month + 1
      BY <1>1 DEF IInv, TypeOK, NextMonth
    <3> QED  BY <3>1, Numbers DEF Month
  <2>2. UNCHANGED <<ledger, receipt, caller, calls, answers>>
    BY <1>1 DEF NextMonth
  <2>3. TypeOK'
    BY <2>1, <2>2 DEF IInv, TypeOK
  <2> QED  BY <2>2, <2>3 DEF IInv, Balanced, Bounded, Exclusive, Holds, At
<1>2. ASSUME NEW c \in Caller, Steps(c) PROVE IInv'
  <2>1. CASE Fail(c)
    BY <2>1, EndKeeps DEF Fail
  <2>2. ASSUME NEW amount \in Amount, BeginReserve(c, amount) PROVE IInv'
    BY <2>2, BeginReserveKeeps
  <2> QED  BY <1>2, <2>1, <2>2, ReadLedgerKeeps, CheckReceiptKeeps, CommitReservationKeeps,
              LoseReservationKeeps, ConverseKeeps, ReadReceiptKeeps, ReadSettleLedgerKeeps,
              CommitSettlementKeeps, LoseSettlementKeeps
           DEF Steps
<1>3. CASE UNCHANGED vars
  BY <1>3 DEF vars, IInv, TypeOK, Balanced, Bounded, Exclusive, Holds, At
<1> QED  BY <1>1, <1>2, <1>3 DEF Next

-----------------------------------------------------------------------------
(* Theorems. *)

\* Every reachable state satisfies the inductive invariant: the versions the
\* transactions of budget.rs compare are enough for what the callers read
\* before to be what the rows hold when they write.
THEOREM Inductive == Spec => []IInv
  BY InitIInv, NextKeeps, PTL DEF Spec

\* The rows and the local states of the callers keep their types.
THEOREM TypeCorrect == Spec => []TypeOK
<1>1. IInv => TypeOK
  BY DEF IInv
<1> QED  BY <1>1, Inductive, PTL

\* reserve() inserts a receipt and never replaces one, and the call is made
\* only after it: two invocations of one turn cannot both reach the model.
THEOREM PaidOnce == Spec => []OneCallPerReservation
<1>1. IInv => OneCallPerReservation
  BY DEF IInv, TypeOK, Exclusive, Holds, OneCallPerReservation
<1> QED  BY <1>1, Inductive, PTL

\* settle() runs only with an answer in hand: a call that may have been paid
\* keeps its whole reservation on the ledger.
THEOREM UncertainIsCharged == Spec => []UncertainKeepsReservation
<1>1. IInv => UncertainKeepsReservation
  <2> SUFFICES ASSUME IInv, NEW c \in calls \ answers
               PROVE  /\ ~receipt[IdOf[c]].settled
                      /\ receipt[IdOf[c]].reserved = caller[c].amount
    BY DEF UncertainKeepsReservation
  <2>1. c \in Caller /\ IdOf[c] \in Id
    BY BudgetAssumption DEF IInv, TypeOK
  <2>2. CallerInv(c, caller[c], ledger, receipt[IdOf[c]], calls, answers)
    BY <2>1 DEF IInv
  <2>3. ReceiptInv(receipt[IdOf[c]])
    BY <2>1 DEF IInv
  <2> QED  BY <2>2, <2>3 DEF CallerInv, ReceiptInv
<1> QED  BY <1>1, Inductive, PTL

-----------------------------------------------------------------------------
(* The sums of Budget.tla and BudgetSpec.tla as totals. *)

LEMMA ChargesAreTotal ==
    ASSUME NEW rows, NEW R, NEW S \in SUBSET R, IsFiniteSet(S)
    PROVE  MapThenSumSet(LAMBDA i : Charged(rows[i]), S)
               = Total([i \in R |-> Charged(rows[i])], S)
<1> DEFINE f == [i \in R |-> Charged(rows[i])]
           Rec(g) == g = [s \in SUBSET S |-> IF s = {} THEN 0
                                ELSE Charged(rows[Pick(s)]) + g[s \ {Pick(s)}]]
<1>1. MapThenSumSet(LAMBDA i : Charged(rows[i]), S) = (CHOOSE g : Rec(g))[S]
  BY DEF MapThenSumSet, MapThenFoldSet, Pick
<1>2. ASSUME NEW g PROVE Adds(f, S, g) <=> Rec(g)
  <2>1. \A s \in SUBSET S : s # {} => f[Pick(s)] = Charged(rows[Pick(s)])
    BY DEF Pick
  <2>2. [s \in SUBSET S |-> IF s = {} THEN 0 ELSE f[Pick(s)] + g[s \ {Pick(s)}]]
           = [s \in SUBSET S |-> IF s = {} THEN 0
                                 ELSE Charged(rows[Pick(s)]) + g[s \ {Pick(s)}]]
    <3> HIDE DEF f
    <3> QED  BY <2>1
  <2> QED  BY <2>2, Zenon DEF Adds
<1> HIDE DEF f, Rec
<1>3. Adds(f, S, CHOOSE g : Rec(g))
  <2>1. \E g : Rec(g)
    BY <1>2, AddsExists
  <2>2. Rec(CHOOSE g : Rec(g))
    BY <2>1, Zenon
  <2> QED  BY <1>2, <2>2
<1>4. Total(f, S) = (CHOOSE g : Rec(g))[S]
  BY <1>3, TotalIs
<1> QED  BY <1>1, <1>4 DEF f

LEMMA ExcessesAreTotal ==
    ASSUME NEW rows, NEW R, NEW S \in SUBSET R, IsFiniteSet(S)
    PROVE  MapThenSumSet(LAMBDA i : rows[i].actual - rows[i].reserved, S)
               = Total([i \in R |-> rows[i].actual - rows[i].reserved], S)
<1> DEFINE f == [i \in R |-> rows[i].actual - rows[i].reserved]
           Rec(g) == g = [s \in SUBSET S |-> IF s = {} THEN 0
                    ELSE (rows[Pick(s)].actual - rows[Pick(s)].reserved) + g[s \ {Pick(s)}]]
<1>1. MapThenSumSet(LAMBDA i : rows[i].actual - rows[i].reserved, S) = (CHOOSE g : Rec(g))[S]
  BY DEF MapThenSumSet, MapThenFoldSet, Pick
<1>2. ASSUME NEW g PROVE Adds(f, S, g) <=> Rec(g)
  <2>1. \A s \in SUBSET S : s # {} =>
            f[Pick(s)] = rows[Pick(s)].actual - rows[Pick(s)].reserved
    BY DEF Pick
  <2>2. [s \in SUBSET S |-> IF s = {} THEN 0 ELSE f[Pick(s)] + g[s \ {Pick(s)}]]
           = [s \in SUBSET S |-> IF s = {} THEN 0
                ELSE (rows[Pick(s)].actual - rows[Pick(s)].reserved) + g[s \ {Pick(s)}]]
    <3> HIDE DEF f
    <3> QED  BY <2>1
  <2> QED  BY <2>2, Zenon DEF Adds
<1> HIDE DEF f, Rec
<1>3. Adds(f, S, CHOOSE g : Rec(g))
  <2>1. \E g : Rec(g)
    BY <1>2, AddsExists
  <2>2. Rec(CHOOSE g : Rec(g))
    BY <2>1, Zenon
  <2> QED  BY <1>2, <2>2
<1>4. Total(f, S) = (CHOOSE g : Rec(g))[S]
  BY <1>3, TotalIs
<1> QED  BY <1>1, <1>4 DEF f

LEMMA SpentIsTotal ==
    ASSUME NEW accounts, NEW m
    PROVE  Promise!Spent(accounts, m) = Total([i \in Id |-> Promise!Charge(accounts[i], m)], Id)
<1> DEFINE f == [i \in Id |-> Promise!Charge(accounts[i], m)]
           Rec(g) == g = [s \in SUBSET Id |-> IF s = {} THEN 0
                             ELSE Promise!Charge(accounts[Pick(s)], m) + g[s \ {Pick(s)}]]
<1>0. IsFiniteSet(Id)
  BY BudgetAssumption
<1>1. Promise!Spent(accounts, m) = (CHOOSE g : Rec(g))[Id]
  BY DEF Promise!Spent, Promise!MapThenSumSet, Promise!MapThenFoldSet, Pick
<1>2. ASSUME NEW g PROVE Adds(f, Id, g) <=> Rec(g)
  <2>1. \A s \in SUBSET Id : s # {} => f[Pick(s)] = Promise!Charge(accounts[Pick(s)], m)
    BY DEF Pick
  <2>2. [s \in SUBSET Id |-> IF s = {} THEN 0 ELSE f[Pick(s)] + g[s \ {Pick(s)}]]
           = [s \in SUBSET Id |-> IF s = {} THEN 0
                 ELSE Promise!Charge(accounts[Pick(s)], m) + g[s \ {Pick(s)}]]
    <3> HIDE DEF f
    <3> QED  BY <2>1
  <2> QED  BY <2>2, Zenon DEF Adds
<1> HIDE DEF f, Rec
<1>3. Adds(f, Id, CHOOSE g : Rec(g))
  <2>1. \E g : Rec(g)
    BY <1>0, <1>2, AddsExists
  <2>2. Rec(CHOOSE g : Rec(g))
    BY <2>1, Zenon
  <2> QED  BY <1>2, <2>2
<1>4. Total(f, Id) = (CHOOSE g : Rec(g))[Id]
  BY <1>0, <1>3, TotalIs
<1> QED  BY <1>1, <1>4 DEF f

\* reserve() adds what it records and settle() replaces what was recorded, in
\* the month of the receipt: the ledger is the sum of its receipts.
THEOREM LedgerIsSum == Spec => []LedgerBalances
<1>1. IInv => LedgerBalances
  <2> SUFFICES ASSUME IInv, NEW m \in Month
               PROVE  ledger[m].used = MapThenSumSet(LAMBDA i : Charged(receipt[i]),
                          {i \in Id : receipt[i].ver # Absent /\ receipt[i].month = m})
    BY DEF LedgerBalances
  <2> DEFINE T == {i \in Id : receipt[i].ver # Absent /\ receipt[i].month = m}
             f == [i \in Id |-> ChargeIn(receipt[i], m)]
             g == [i \in Id |-> Charged(receipt[i])]
  <2>0. IsFiniteSet(Id) /\ IsFiniteSet(T)
    BY BudgetAssumption, FS_Subset
  <2>1. f \in [Id -> Int]
    BY Terms DEF IInv, TypeOK
  <2>2. (\A i \in T : f[i] = g[i]) /\ (\A i \in Id \ T : f[i] = 0)
    BY DEF ChargeIn
  <2>3. MapThenSumSet(LAMBDA i : Charged(receipt[i]), T) = Total(g, T)
    BY <2>0, ChargesAreTotal
  <2>4. T \in SUBSET Id /\ ledger[m].used = Total(f, Id)
    BY DEF IInv, Balanced
  <2> HIDE DEF T, f, g
  <2>5. Total(f, T) = Total(g, T)
    BY <2>0, <2>2, TotalAgree
  <2>6. Total(f, Id) = Total(f, T)
    BY <2>0, <2>1, <2>2, <2>4, TotalFilter
  <2> QED  BY <2>3, <2>4, <2>5, <2>6 DEF T
<1> QED  BY <1>1, Inductive, PTL

\* The check of the limit and the write that adds to the ledger are one
\* transaction on the version that was read: only calls that cost more than
\* their reservation overspend a month, and by no more than that.
THEOREM LimitHolds == Spec => []WithinLimit
<1>1. IInv => WithinLimit
  <2> SUFFICES ASSUME IInv, NEW m \in Month
               PROVE  ledger[m].used <= Limit + MapThenSumSet(
                          LAMBDA i : receipt[i].actual - receipt[i].reserved,
                          {i \in Id : receipt[i].month = m /\ receipt[i].actual > receipt[i].reserved})
    BY DEF WithinLimit
  <2> DEFINE T == {i \in Id : receipt[i].month = m /\ receipt[i].actual > receipt[i].reserved}
             f == [i \in Id |-> ExcessIn(receipt[i], m)]
             g == [i \in Id |-> receipt[i].actual - receipt[i].reserved]
  <2>0. IsFiniteSet(Id) /\ IsFiniteSet(T)
    BY BudgetAssumption, FS_Subset
  <2>1. f \in [Id -> Int]
    <3>1. f \in [Id -> Nat]
      BY Terms DEF IInv, TypeOK
    <3> HIDE DEF f
    <3> QED  BY <3>1
  <2>2. (\A i \in T : f[i] = g[i]) /\ (\A i \in Id \ T : f[i] = 0)
    BY DEF ExcessIn
  <2>3. MapThenSumSet(LAMBDA i : receipt[i].actual - receipt[i].reserved, T) = Total(g, T)
    BY <2>0, ExcessesAreTotal
  <2>4. T \in SUBSET Id /\ ledger[m].used <= Limit + Total(f, Id)
    BY DEF IInv, Bounded
  <2> HIDE DEF T, f, g
  <2>5. Total(f, T) = Total(g, T)
    BY <2>0, <2>2, TotalAgree
  <2>6. Total(f, Id) = Total(f, T)
    BY <2>0, <2>1, <2>2, <2>4, TotalFilter
  <2> QED  BY <2>3, <2>4, <2>5, <2>6 DEF T
<1> QED  BY <1>1, Inductive, PTL

-----------------------------------------------------------------------------
(* The abstract budget: a transaction of reserve is a Reserve, one of settle *)
(* a Settle, and every other step changes no account.                        *)

\* The account a receipt stands for.
Account(r) ==
    [state |-> IF r.ver = Absent THEN "none" ELSE IF r.settled THEN "settled" ELSE "reserved",
     month |-> r.month, amount |-> Charged(r)]

Accounts == [i \in Id |-> Account(receipt[i])]

LEMMA AccountsSpent ==
    ASSUME IInv, NEW m \in Month
    PROVE  Promise!Spent(Accounts, m) = ledger[m].used
<1>1. \A i \in Id : Promise!Charge(Accounts[i], m) = ChargeIn(receipt[i], m)
  BY DEF Promise!Charge, Accounts, Account, ChargeIn, Absent
<1>2. [i \in Id |-> Promise!Charge(Accounts[i], m)] = [i \in Id |-> ChargeIn(receipt[i], m)]
  BY <1>1
<1>3. Promise!Spent(Accounts, m) = Total([i \in Id |-> Promise!Charge(Accounts[i], m)], Id)
  BY SpentIsTotal
<1> QED  BY <1>2, <1>3 DEF IInv, Balanced

LEMMA ReservesRefines ==
    ASSUME IInv, NEW m, NEW i, NEW a, Reserves(m, i, a)
    PROVE  /\ m \in Month /\ i \in Id /\ a \in Amount
           /\ Accounts[i] = Promise!None
           /\ Promise!Spent(Accounts, m) + a <= Limit
           /\ Accounts' = [Accounts EXCEPT ![i] =
                               [state |-> "reserved", month |-> m, amount |-> a]]
<1>1. m \in Month /\ i \in Id /\ a \in Amount /\ receipt[i] = NoReceipt
  BY DEF Reserves
<1>2. Accounts[i] = Promise!None
  BY <1>1 DEF Accounts, Account, Promise!None, NoReceipt, Charged, Absent
<1>3. Promise!Spent(Accounts, m) + a <= Limit
  BY <1>1, AccountsSpent DEF Reserves, FitsLimit
<1>4. /\ \A j \in Id \ {i} : receipt'[j] = receipt[j]
      /\ receipt'[i] = [ver |-> 1, month |-> m, reserved |-> a, settled |-> FALSE, actual |-> 0]
  BY <1>1, WritesKeepRows DEF Reserves, Rows
<1>5. /\ \A j \in Id \ {i} : Account(receipt'[j]) = Account(receipt[j])
      /\ Account(receipt'[i]) = [state |-> "reserved", month |-> m, amount |-> a]
  BY <1>4 DEF Account, Charged, Absent
<1>6. Accounts' = [Accounts EXCEPT ![i] = [state |-> "reserved", month |-> m, amount |-> a]]
  BY <1>1, <1>5 DEF Accounts
<1> QED  BY <1>1, <1>2, <1>3, <1>6

LEMMA SettlesRefines ==
    ASSUME IInv, NEW m, NEW i, NEW x, Settles(m, i, x)
    PROVE  /\ i \in Id /\ x \in Cost
           /\ Accounts[i].state = "reserved"
           /\ Accounts' = [Accounts EXCEPT ![i].state = "settled", ![i].amount = x]
<1>1. i \in Id /\ x \in Cost /\ receipt[i].ver = 1 /\ receipt[i].month = m
  BY DEF Settles
<1>2. ~receipt[i].settled
  BY <1>1 DEF IInv, ReceiptInv
<1>3. /\ \A j \in Id \ {i} : receipt'[j] = receipt[j]
      /\ receipt'[i] = [ver |-> 2, month |-> m, reserved |-> receipt[i].reserved,
                        settled |-> TRUE, actual |-> x]
  BY <1>1, WritesKeepRows DEF Settles, Rows
<1>4. /\ \A j \in Id \ {i} : Account(receipt'[j]) = Account(receipt[j])
      /\ Account(receipt'[i]) = [state |-> "settled", month |-> m, amount |-> x]
  BY <1>3 DEF Account, Charged, Absent
<1>5. Accounts[i].state = "reserved" /\ Accounts[i].month = m
  BY <1>1, <1>2 DEF Accounts, Account, Absent
<1>6. [Accounts EXCEPT ![i].state = "settled", ![i].amount = x]
         = [Accounts EXCEPT ![i] = [state |-> "settled", month |-> m, amount |-> x]]
  <2> DEFINE acc == Accounts[i]
             Shape == [state: {"reserved", "settled"}, month: Month, amount: Nat]
             d == [acc EXCEPT !.state = "settled", !.amount = x]
  <2>1. acc \in Shape /\ acc.month = m
    <3>1. receipt[i] \in Receipt
      BY <1>1 DEF IInv, TypeOK
    <3>2. Charged(receipt[i]) \in Nat /\ receipt[i].month \in Month
      BY <3>1, Numbers DEF Charged, Receipt
    <3> QED  BY <1>1, <1>2, <3>2 DEF Accounts, Account, Absent
  <2>2. d \in Shape /\ d.state = "settled" /\ d.month = m /\ d.amount = x
    <3> HIDE DEF acc
    <3> QED  BY <1>1, <2>1, Numbers
  <2>3. d = [state |-> "settled", month |-> m, amount |-> x]
    <3> HIDE DEF d
    <3> QED  BY <2>2
  <2> QED  BY <1>1, <2>3 DEF Accounts
<1>7. Accounts' = [Accounts EXCEPT ![i] = [state |-> "settled", month |-> m, amount |-> x]]
  BY <1>1, <1>4 DEF Accounts
<1> QED  BY <1>1, <1>5, <1>6, <1>7

LEMMA StepRefines ==
    ASSUME IInv, [Next]_vars
    PROVE  [Promise!Next]_Accounts
<1>1. CASE UNCHANGED receipt
  BY <1>1 DEF Accounts
<1>2. ASSUME NEW m, NEW i, NEW a, Reserves(m, i, a) PROVE Promise!Next
  <2>1. m \in Month /\ i \in Id /\ a \in Amount
    BY <1>2, ReservesRefines
  <2>2. Promise!Reserve(i, m, a)
    <3>1. /\ Accounts[i] = Promise!None
          /\ Promise!Spent(Accounts, m) + a <= Limit
          /\ Accounts' = [Accounts EXCEPT ![i] =
                              [state |-> "reserved", month |-> m, amount |-> a]]
      BY <1>2, ReservesRefines
    <3> QED  BY <3>1 DEF Promise!Reserve, Accounts, Account
  <2> QED  BY <2>1, <2>2 DEF Promise!Next
<1>3. ASSUME NEW m, NEW i, NEW x, Settles(m, i, x) PROVE Promise!Next
  BY <1>3, SettlesRefines DEF Promise!Next, Promise!Settle, Accounts, Account
<1>4. ASSUME NEW c \in Caller, Steps(c), ~UNCHANGED receipt PROVE Promise!Next
  <2>1. CASE CommitReservation(c) \/ LoseReservation(c)
    BY <1>2, <1>4, <2>1, ReservationWrites DEF CommitReservation, LoseReservation
  <2>2. CASE CommitSettlement(c) \/ LoseSettlement(c)
    BY <1>3, <1>4, <2>2, SettlementWrites DEF CommitSettlement, LoseSettlement
  <2> QED  BY <1>4, <2>1, <2>2
           DEF Steps, BeginReserve, ReadLedger, CheckReceipt, Converse, ReadReceipt,
               ReadSettleLedger, Fail
<1> QED  BY <1>1, <1>4 DEF Next, NextMonth, vars

\* Ledger and receipts keep the promise of BudgetSpec, for any number of
\* callers, ids and months: a reservation is made once and within the limit of
\* its month, and known usage replaces it once.
THEOREM BudgetRefinement == Spec => ImplementsBudgetSpec
<1>1. Init => Promise!Init
  BY DEF Init, Promise!Init, Promise!None, NoReceipt, Charged, Absent
<1>2. IInv /\ [Next]_vars => [Promise!Next]_Accounts
  BY StepRefines
<1>3. QED
  BY <1>1, <1>2, Inductive, PTL DEF Spec, ImplementsBudgetSpec, Promise!Spec, Accounts, Account
=============================================================================
