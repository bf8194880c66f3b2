-------------------------- MODULE TimeEntriesProofs --------------------------
(***************************************************************************)
(* Theorems about TimeEntries: for any number of entries and any lengths   *)
(* of days, weeks and thresholds, rows keep their types however handlers   *)
(* overlap; one handler at a time, a user has one shift, and a timesheet   *)
(* pays no more at the regular rate than the thresholds allow.             *)
(***************************************************************************)
EXTENDS TimeEntries, FiniteSetTheorems, WellFoundedInduction, TLAPS

-----------------------------------------------------------------------------
(* Sums over a finite set.  Folds are defined by recursion on the set; the *)
(* induction is by a least counterexample.                                 *)
LEMMA LeastExists ==
  ASSUME NEW D, D \subseteq Nat, D # {}
  PROVE  \E n \in D : \A m \in D : n <= m
<1> DEFINE R == OpToRel(<, Nat)
<1>1. IsWellFoundedOn(R, Nat)
  BY NatLessThanWellFounded
<1>2. \A x, y \in Nat : x < y => <<x, y>> \in R
  BY DEF OpToRel
<1> HIDE DEF R
<1>3. PICK n \in D : \A m \in D : ~ (<<m, n>> \in R)
  BY <1>1, WFMin, Zenon
<1>4. \A m \in D : ~ (m < n) /\ m \in Nat /\ n \in Nat
  BY <1>2, <1>3
<1> QED
  BY <1>4

(* Induction over the subsets of a finite set. *)
LEMMA SubsetInduction ==
  ASSUME NEW A, IsFiniteSet(A), NEW G,
         \A s \in SUBSET A : (\A t \in SUBSET s : t # s => t \in G) => s \in G
  PROVE  \A s \in SUBSET A : s \in G
<1> DEFINE Sizes == {Cardinality(s) : s \in (SUBSET A) \ G}
<1>1. \A s \in SUBSET A : IsFiniteSet(s) /\ Cardinality(s) \in Nat
  BY FS_Subset, FS_CardinalityType
<1> SUFFICES ASSUME Sizes # {} PROVE FALSE
  OBVIOUS
<1>2. Sizes \subseteq Nat
  BY <1>1
<1> HIDE DEF Sizes
<1>3. PICK n \in Sizes : \A m \in Sizes : n <= m
  BY <1>2, LeastExists
<1>4. PICK s \in (SUBSET A) \ G : n = Cardinality(s)
  BY <1>3 DEF Sizes
<1>5. ASSUME NEW t \in SUBSET s, t # s, t \notin G PROVE FALSE
  <2>1. Cardinality(t) < n
    BY <1>1, <1>4, <1>5, FS_Subset
  <2>2. Cardinality(t) \in Sizes
    BY <1>4, <1>5 DEF Sizes
  <2>3. n <= Cardinality(t) /\ n \in Nat /\ Cardinality(t) \in Nat
    BY <1>2, <1>3, <2>2
  <2> QED
    BY <2>1, <2>3
<1> QED
  BY <1>4, <1>5

(* The sum of f over each subset of A, one element after the other. *)
Adds(g, f, s) == IF s = {} THEN 0 ELSE LET x == CHOOSE x \in s : TRUE IN f[x] + g[s \ {x}]

Sums(g, f, A) == g = [s \in SUBSET A |-> Adds(g, f, s)]

LEMMA SumsAgree ==
  ASSUME NEW A, IsFiniteSet(A), NEW B \in SUBSET A, NEW f, NEW g, Sums(g, f, A), NEW k, Sums(k, f, B)
  PROVE  \A s \in SUBSET B : k[s] = g[s]
<1> DEFINE G == {s \in SUBSET B : k[s] = g[s]}
<1>1. ASSUME NEW s \in SUBSET B, \A t \in SUBSET s : t # s => t \in G PROVE s \in G
  <2>1. CASE s = {}
    BY <2>1 DEF Sums, Adds
  <2>2. CASE s # {}
    <3> DEFINE x == CHOOSE x \in s : TRUE
    <3>1. x \in s
      BY <2>2
    <3>2. k[s \ {x}] = g[s \ {x}]
      BY <1>1, <3>1
    <3>3. k[s] = f[x] + k[s \ {x}] /\ g[s] = f[x] + g[s \ {x}]
      BY <2>2 DEF Sums, Adds
    <3> QED
      BY <3>2, <3>3
  <2> QED
    BY <2>1, <2>2
<1>2. IsFiniteSet(B)
  BY FS_Subset
<1> HIDE DEF G
<1>3. \A s \in SUBSET B : s \in G
  BY <1>1, <1>2, SubsetInduction
<1> QED
  BY <1>3 DEF G

LEMMA SumsExist ==
  ASSUME NEW A, IsFiniteSet(A), NEW f
  PROVE  \E g : Sums(g, f, A)
<1> DEFINE Upto(n)  == {s \in SUBSET A : Cardinality(s) <= n}
           To(g, n) == g = [s \in Upto(n) |-> Adds(g, f, s)]
           Bad == {n \in Nat : ~\E g : To(g, n)}
<1>1. \A s \in SUBSET A : IsFiniteSet(s) /\ Cardinality(s) \in Nat /\ Cardinality(s) <= Cardinality(A)
  BY FS_Subset, FS_CardinalityType
<1>2. \A s \in SUBSET A : s # {} => LET x == CHOOSE x \in s : TRUE
                                    IN  x \in s /\ Cardinality(s \ {x}) = Cardinality(s) - 1
  BY <1>1, FS_RemoveElement
<1>3. 0 \notin Bad
  <2>1. Upto(0) = {{}}
    <3>1. \A s \in Upto(0) : s = {}
      BY <1>1, FS_EmptySet
    <3> QED
      BY <3>1, FS_EmptySet
  <2> DEFINE k == [s \in {{}} |-> 0]
  <2>2. \A s \in Upto(0) : Adds(k, f, s) = 0
    BY <2>1 DEF Adds
  <2>3. k = [s \in Upto(0) |-> 0]
    BY <2>1
  <2> HIDE DEF k
  <2>4. To(k, 0)
    BY <2>2, <2>3
  <2> QED
    BY <2>4
<1>4. ASSUME NEW n \in Nat, n \notin Bad PROVE n + 1 \notin Bad
  <2>1. PICK g : To(g, n)
    BY <1>4
  <2> DEFINE k == [s \in Upto(n + 1) |-> Adds(g, f, s)]
  <2>2. \A s \in Upto(n) : k[s] = g[s]
    BY <1>1, <2>1
  <2>3. \A s \in Upto(n + 1) : s # {} => s \ {CHOOSE x \in s : TRUE} \in Upto(n)
    BY <1>1, <1>2
  <2>4. k = [s \in Upto(n + 1) |-> Adds(g, f, s)]
    OBVIOUS
  <2> HIDE DEF k, Upto
  <2>5. \A s \in Upto(n + 1) : Adds(g, f, s) = Adds(k, f, s)
    BY <2>2, <2>3 DEF Adds
  <2>6. To(k, n + 1)
    BY <2>4, <2>5
  <2> QED
    BY <2>6
<1>5. Bad = {}
  <2> SUFFICES ASSUME Bad # {} PROVE FALSE
    OBVIOUS
  <2>1. Bad \subseteq Nat
    OBVIOUS
  <2> HIDE DEF Bad
  <2>2. PICK n \in Bad : \A m \in Bad : n <= m
    BY <2>1, LeastExists
  <2>3. n # 0 /\ n - 1 \in Nat /\ n - 1 \notin Bad
    BY <1>3, <2>1, <2>2
  <2> QED
    BY <1>4, <2>2, <2>3, <2>1
<1>6. Upto(Cardinality(A)) = SUBSET A
  BY <1>1
<1>7. \E g : To(g, Cardinality(A))
  BY <1>5, <1>1
<1> QED
  BY <1>6, <1>7 DEF Sums, Adds

LEMMA SumIs ==
  ASSUME NEW A, IsFiniteSet(A), NEW f, NEW g, Sums(g, f, A), NEW S \in SUBSET A
  PROVE  SumFunctionOnSet(f, S) = g[S]
<1> DEFINE it == CHOOSE k : Sums(k, f, S)
<1>1. IsFiniteSet(S)
  BY FS_Subset
<1>2. Sums(it, f, S)
  BY <1>1, SumsExist
<1>3. SumFunctionOnSet(f, S) = it[S]
  BY DEF SumFunctionOnSet, FoldFunctionOnSet, MapThenFoldSet, Sums, Adds
<1> HIDE DEF it
<1> QED
  BY <1>2, <1>3, SumsAgree

LEMMA SumType ==
  ASSUME NEW S, IsFiniteSet(S), NEW f, \A x \in S : f[x] \in Int
  PROVE  SumFunctionOnSet(f, S) \in Int
<1>1. PICK g : Sums(g, f, S)
  BY SumsExist
<1> DEFINE G == {s \in SUBSET S : g[s] \in Int}
<1>2. ASSUME NEW s \in SUBSET S, \A t \in SUBSET s : t # s => t \in G PROVE s \in G
  <2>1. CASE s = {}
    BY <1>1, <2>1 DEF Sums, Adds
  <2>2. CASE s # {}
    <3> DEFINE x == CHOOSE x \in s : TRUE
    <3>1. x \in s
      BY <2>2
    <3>2. g[s \ {x}] \in Int
      BY <1>2, <3>1
    <3>3. g[s] = f[x] + g[s \ {x}]
      BY <1>1, <2>2 DEF Sums, Adds
    <3> QED
      BY <3>1, <3>2, <3>3
  <2> QED
    BY <2>1, <2>2
<1> HIDE DEF G
<1>3. S \in G
  BY <1>2, SubsetInduction
<1> QED
  BY <1>1, <1>3, SumIs DEF G

LEMMA SumEmpty == ASSUME NEW f PROVE SumFunctionOnSet(f, {}) = 0
<1>1. IsFiniteSet({})
  BY FS_EmptySet
<1>2. PICK g : Sums(g, f, {})
  BY <1>1, SumsExist
<1>3. g[{}] = 0
  BY <1>2 DEF Sums, Adds
<1> QED
  BY <1>1, <1>2, <1>3, SumIs

(* Any element may be added last. *)
LEMMA SumAdd ==
  ASSUME NEW S, IsFiniteSet(S), NEW f, \A x \in S : f[x] \in Int, NEW z \in S
  PROVE  SumFunctionOnSet(f, S) = f[z] + SumFunctionOnSet(f, S \ {z})
<1>1. PICK g : Sums(g, f, S)
  BY SumsExist
<1>2. \A s \in SUBSET S : g[s] \in Int
  BY <1>1, SumIs, SumType, FS_Subset
<1> DEFINE G == {s \in SUBSET S : \A y \in s : g[s] = f[y] + g[s \ {y}]}
<1>3. ASSUME NEW s \in SUBSET S, \A t \in SUBSET s : t # s => t \in G PROVE s \in G
  <2> SUFFICES ASSUME NEW y \in s PROVE g[s] = f[y] + g[s \ {y}]
    OBVIOUS
  <2> DEFINE x == CHOOSE x \in s : TRUE
  <2>1. x \in s
    OBVIOUS
  <2>2. g[s] = f[x] + g[s \ {x}]
    BY <1>1 DEF Sums, Adds
  <2>3. CASE x # y
    <3> HIDE DEF x
    <3>1. g[s \ {x}] = f[y] + g[(s \ {x}) \ {y}]
      BY <1>3, <2>1, <2>3
    <3>2. g[s \ {y}] = f[x] + g[(s \ {y}) \ {x}]
      BY <1>3, <2>1, <2>3
    <3>3. (s \ {x}) \ {y} = (s \ {y}) \ {x} /\ f[x] \in Int /\ f[y] \in Int
      BY <2>1
    <3>4. g[(s \ {x}) \ {y}] \in Int
      BY <1>2
    <3>5. \A a, b, c \in Int : a + (b + c) = b + (a + c)
      OBVIOUS
    <3>6. f[x] + (f[y] + g[(s \ {x}) \ {y}]) = f[y] + (f[x] + g[(s \ {x}) \ {y}])
      BY <3>3, <3>4, <3>5
    <3> QED
      BY <2>2, <3>1, <3>2, <3>3, <3>6, Zenon
  <2> QED
    BY <2>2, <2>3
<1> HIDE DEF G
<1>4. S \in G
  BY <1>3, SubsetInduction
<1> QED
  BY <1>1, <1>4, SumIs DEF G

(* Functions that agree on S have the same sum over it. *)
LEMMA SumSame ==
  ASSUME NEW S, IsFiniteSet(S), NEW f, NEW e, \A x \in S : f[x] = e[x]
  PROVE  SumFunctionOnSet(f, S) = SumFunctionOnSet(e, S)
<1>1. PICK g : Sums(g, f, S)
  BY SumsExist
<1>2. \A s \in SUBSET S : Adds(g, f, s) = Adds(g, e, s)
  BY DEF Adds
<1>3. Sums(g, e, S)
  BY <1>1, <1>2 DEF Sums
<1> QED
  BY <1>1, <1>3, SumIs

(* Naturals: a part sums to no more than the whole. *)
LEMMA SumPart ==
  ASSUME NEW S, IsFiniteSet(S), NEW f, \A x \in S : f[x] \in Nat, NEW P \in SUBSET S
  PROVE  SumFunctionOnSet(f, P) <= SumFunctionOnSet(f, S)
<1> DEFINE G == {s \in SUBSET S : \A t \in SUBSET s : SumFunctionOnSet(f, t) <= SumFunctionOnSet(f, s)}
<1>0. \A s \in SUBSET S : IsFiniteSet(s) /\ SumFunctionOnSet(f, s) \in Int
  BY FS_Subset, SumType
<1>1. ASSUME NEW s \in SUBSET S, \A t \in SUBSET s : t # s => t \in G PROVE s \in G
  <2> SUFFICES ASSUME NEW t \in SUBSET s, t # s PROVE SumFunctionOnSet(f, t) <= SumFunctionOnSet(f, s)
    BY <1>0
  <2>1. PICK z \in s : z \notin t
    OBVIOUS
  <2>2. SumFunctionOnSet(f, s) = f[z] + SumFunctionOnSet(f, s \ {z})
    BY <1>0, SumAdd
  <2>3. SumFunctionOnSet(f, t) <= SumFunctionOnSet(f, s \ {z})
    BY <1>1, <2>1
  <2>4. f[z] \in Nat /\ SumFunctionOnSet(f, t) \in Int /\ SumFunctionOnSet(f, s \ {z}) \in Int
    BY <1>0
  <2> QED
    BY <2>2, <2>3, <2>4
<1> HIDE DEF G
<1>2. S \in G
  BY <1>1, SubsetInduction
<1> QED
  BY <1>2 DEF G
-----------------------------------------------------------------------------
(* The split of a day.                                                     *)

(* What the theorems assume of the constants: ids are numbers, as rows     *)
(* that begin together are told apart by them.                             *)
Sized ==
  /\ Entries \subseteq Int /\ IsFiniteSet(Entries) /\ Entries # {} /\ None \notin Int
  /\ DayHours \in Nat \ {0} /\ WeekDays \in Nat \ {0} /\ Days \in Nat \ {0} /\ Offset \in Int
  /\ Daily \in Nat /\ Weekly \in Nat /\ MaxAborts \in Nat

LEMMA EarlierOrders ==
  ASSUME NEW S \in SUBSET Entries, Entries \subseteq Int, \A e \in S : entry[e].in \in Int
  PROVE  /\ \A e, f \in S : e = f \/ Earlier(e, f) \/ Earlier(f, e)
         /\ \A e, f \in S : ~ (Earlier(e, f) /\ Earlier(f, e))
         /\ \A e \in S : ~ Earlier(e, e)
         /\ \A e, f, g \in S : Earlier(e, f) /\ Earlier(f, g) => Earlier(e, g)
<1>1. \A e \in S : e \in Int /\ entry[e].in \in Int
  OBVIOUS
<1> QED
  BY <1>1 DEF Earlier

LEMMA LatestExists ==
  ASSUME NEW S \in SUBSET Entries, IsFiniteSet(S), Entries \subseteq Int,
         \A e \in S : entry[e].in \in Int, S # {}
  PROVE  \E m \in S : \A e \in S \ {m} : Earlier(e, m)
<1> DEFINE Latest(m, s) == \A e \in s \ {m} : Earlier(e, m)
           G == {s \in SUBSET S : s # {} => \E m \in s : Latest(m, s)}
<1>0. /\ \A e, f \in S : e = f \/ Earlier(e, f) \/ Earlier(f, e)
      /\ \A e, f, g \in S : Earlier(e, f) /\ Earlier(f, g) => Earlier(e, g)
  BY EarlierOrders
<1>1. ASSUME NEW s \in SUBSET S, \A t \in SUBSET s : t # s => t \in G PROVE s \in G
  <2> SUFFICES ASSUME s # {} PROVE \E m \in s : Latest(m, s)
    OBVIOUS
  <2>1. PICK x \in s : TRUE
    OBVIOUS
  <2>2. CASE s = {x}
    BY <2>2
  <2>3. CASE s # {x}
    <3>0. s \ {x} \in G /\ s \ {x} # {}
      BY <1>1, <2>1, <2>3
    <3>1. PICK m \in s \ {x} : Latest(m, s \ {x})
      BY <3>0
    <3>2. CASE Earlier(m, x)
      <4>1. \A e \in s \ {x} : Earlier(e, x)
        BY <1>0, <3>1, <3>2
      <4> QED
        BY <4>1
    <3>3. CASE Earlier(x, m)
      BY <3>1, <3>3
    <3> QED
      BY <1>0, <3>2, <3>3
  <2> QED
    BY <2>2, <2>3
<1> HIDE DEF G
<1>2. S \in G
  BY <1>1, SubsetInduction
<1> QED
  BY <1>2 DEF G

Before(e, S) == {f \in S : Earlier(f, e)}

Split(S) == [e \in Entries |-> Regular(e, Total(Before(e, S)))]

LEMMA TotalType ==
  ASSUME Sized, NEW S \in SUBSET Entries, \A e \in S : entry[e].total \in Nat
  PROVE  Total(S) \in Int
<1>1. IsFiniteSet(S)
  BY FS_Subset DEF Sized
<1> QED
  BY <1>1, SumType DEF Total

(* The hours of an entry within the threshold are between none and all.    *)
LEMMA RegularIs ==
  ASSUME Sized, NEW e \in Entries, entry[e].total \in Nat, NEW n \in Int
  PROVE  /\ Regular(e, n) \in Nat /\ Regular(e, n) <= entry[e].total
         /\ n <= Daily => Regular(e, n) = Smaller(entry[e].total, Daily - n)
         /\ n >= Daily => Regular(e, n) = 0
  BY DEF Sized, Regular, Larger, Smaller

(* However a day is made up, the regular hours its entries are given add   *)
(* up to the hours of the day or to the daily threshold.                   *)
LEMMA SplitFits ==
  ASSUME Sized, NEW S \in SUBSET Entries,
         \A e \in S : entry[e].in \in Int /\ entry[e].total \in Nat
  PROVE  SumFunctionOnSet(Split(S), S) = Smaller(Total(S), Daily)
<1> DEFINE G == {s \in SUBSET S : SumFunctionOnSet(Split(s), s) = Smaller(Total(s), Daily)}
<1>1. IsFiniteSet(S) /\ \A s \in SUBSET S : IsFiniteSet(s) /\ Total(s) \in Int
  BY FS_Subset, TotalType DEF Sized
<1>2. ASSUME NEW s \in SUBSET S, \A t \in SUBSET s : t # s => t \in G PROVE s \in G
  <2>1. CASE s = {}
    BY <2>1, SumEmpty DEF Total, Smaller, Sized
  <2>2. CASE s # {}
    <3>1. PICK m \in s : \A e \in s \ {m} : Earlier(e, m)
      BY <1>1, <2>2, LatestExists DEF Sized
    <3> DEFINE t == s \ {m}
    <3>2. Before(m, s) = t /\ \A e \in t : Before(e, s) = Before(e, t)
      <4>1. /\ \A e, f \in S : ~ (Earlier(e, f) /\ Earlier(f, e))
            /\ \A e \in S : ~ Earlier(e, e)
        BY EarlierOrders DEF Sized
      <4> QED
        BY <3>1, <4>1 DEF Before
    <3>3. \A e \in s : Split(s)[e] = Regular(e, Total(Before(e, s)))
      BY DEF Split
    <3>4. \A e \in s : Split(s)[e] \in Int
      <4> SUFFICES ASSUME NEW e \in s PROVE Regular(e, Total(Before(e, s))) \in Int
        BY <3>3
      <4>1. Total(Before(e, s)) \in Int
        BY <1>1 DEF Before
      <4> QED
        BY <4>1, RegularIs
    <3>5. SumFunctionOnSet(Split(s), s) = Split(s)[m] + SumFunctionOnSet(Split(s), t)
      BY <1>1, <3>4, SumAdd
    <3>6. SumFunctionOnSet(Split(s), t) = SumFunctionOnSet(Split(t), t)
      <4>1. \A e \in t : Split(s)[e] = Split(t)[e]
        BY <3>2 DEF Split
      <4> QED
        BY <1>1, <4>1, SumSame
    <3>7. SumFunctionOnSet(Split(t), t) = Smaller(Total(t), Daily)
      BY <1>2
    <3>8. Split(s)[m] = Regular(m, Total(t))
      BY <3>2, <3>3
    <3>9. Total(s) = entry[m].total + Total(t)
      <4> DEFINE F == [e \in Entries |-> entry[e].total]
      <4>1. \A e \in s : F[e] \in Int
        OBVIOUS
      <4>2. SumFunctionOnSet(F, s) = F[m] + SumFunctionOnSet(F, t)
        BY <1>1, <4>1, SumAdd
      <4> QED
        BY <4>2 DEF Total
    <3>10. Regular(m, Total(t)) + Smaller(Total(t), Daily) = Smaller(entry[m].total + Total(t), Daily)
      <4>1. Total(t) \in Int /\ entry[m].total \in Nat
        BY <1>1
      <4> QED
        BY <4>1 DEF Regular, Larger, Smaller, Sized
    <3> QED
      BY <3>5, <3>6, <3>7, <3>8, <3>9, <3>10
  <2> QED
    BY <2>1, <2>2
<1> HIDE DEF G
<1>3. S \in G
  BY <1>1, <1>2, SubsetInduction
<1> QED
  BY <1>3 DEF G

-----------------------------------------------------------------------------
(* Types, however handlers overlap.                                        *)

Columns == {"status", "in", "out", "break", "breakAt", "total", "regular", "over"}

(* Columns that may be set together. *)
Settable(set) ==
  /\ Over(NoEntry, set) \in Row
  /\ "in" \in DOMAIN set => set["in"] # None
  /\ "status" \in DOMAIN set => set["status"] # "ABSENT"
  /\ "out" \in DOMAIN set => "total" \in DOMAIN set
  /\ "total" \in DOMAIN set =>
       /\ "out" \in DOMAIN set
       /\ set["out"] # None => set["total"] # None
  /\ "breakAt" \in DOMAIN set => set["breakAt"] = None \/ set["breakAt"] <= now

Flight(c) ==
  /\ c.pc \in {"idle", "create", "write", "recalc", "allocate"}
  /\ c.id \in Entries /\ c.day \in Int /\ Settable(c.set)
  /\ \A a \in c.todo : a.id \in Entries /\ Settable(a.set)

(* An entry that stands has begun; one that has ended has its hours; a     *)
(* break began before now.                                                 *)
Sound(r) ==
  /\ r.status # "ABSENT" => r.in # None
  /\ r.out # None => r.total # None /\ r.status # "ABSENT"
  /\ r.breakAt # None => r.breakAt <= now

TypeInv ==
  /\ entry \in [Entries -> Row] /\ \A e \in Entries : Sound(entry[e])
  /\ now \in Hours /\ deaths \in 0..MaxAborts
  /\ call = [h \in Handlers |-> call[h]] /\ \A h \in Handlers : Flight(call[h])

LEMMA HoursAre == ASSUME Sized PROVE DayHours \in Hours /\ Hours \subseteq Nat /\ None \notin Hours
<1>1. DayHours * Days \in Nat /\ DayHours * Days >= 1
  BY DEF Sized
<1>2. DayHours * (Days + 1) = DayHours * Days + DayHours
  BY DEF Sized
<1> QED
  BY <1>1, <1>2 DEF Hours, Sized

LEMMA NoEntryIs == NoEntry \in Row /\ DOMAIN NoEntry = Columns
  BY DEF NoEntry, Row, Columns

LEMMA OverIs ==
  ASSUME NEW r \in Row, NEW set
  PROVE  /\ DOMAIN Over(r, set) = Columns
         /\ \A c \in Columns : Over(r, set)[c] = IF c \in DOMAIN set THEN set[c] ELSE r[c]
<1>1. DOMAIN r = Columns
  BY DEF Row, Columns
<1> QED
  BY <1>1 DEF Over

LEMMA RowIs ==
  ASSUME NEW r
  PROVE  r \in Row <=>
           /\ r = [c \in Columns |-> r[c]]
           /\ r["status"] \in {"ABSENT", "ACTIVE", "COMPLETED", "APPROVED", "REJECTED"}
           /\ r["in"] \in {None} \cup Hours /\ r["out"] \in {None} \cup Hours
           /\ r["break"] \in Nat /\ r["breakAt"] \in {None} \cup Hours
           /\ r["total"] \in {None} \cup Nat /\ r["regular"] \in Nat /\ r["over"] \in Nat
<1>1. ASSUME r \in Row PROVE r = [c \in Columns |-> r[c]]
  BY <1>1 DEF Row, Columns
<1>2. ASSUME r = [c \in Columns |-> r[c]]
      PROVE  r = [status |-> r["status"], in |-> r["in"], out |-> r["out"], break |-> r["break"],
                  breakAt |-> r["breakAt"], total |-> r["total"], regular |-> r["regular"], over |-> r["over"]]
  BY <1>2 DEF Columns
<1> QED
  BY <1>1, <1>2 DEF Row

LEMMA OverTyped ==
  ASSUME NEW r \in Row, NEW set, Over(NoEntry, set) \in Row
  PROVE  Over(r, set) \in Row
<1> DEFINE o == Over(r, set)
           n == Over(NoEntry, set)
<1>1. \A c \in Columns : o[c] = IF c \in DOMAIN set THEN n[c] ELSE r[c]
  BY OverIs, NoEntryIs
<1>2. o = [c \in Columns |-> o[c]]
  <2>1. DOMAIN r = Columns
    BY DEF Row, Columns
  <2> QED
    BY <2>1 DEF Over
<1> HIDE DEF o, n
<1>3. n \in Row
  BY DEF n
<1>4. o \in Row
  BY <1>1, <1>2, <1>3, RowIs DEF Columns
<1> QED
  BY <1>4 DEF o

(* Columns that are each of their type give a row.                         *)
LEMMA ColumnsTyped ==
  ASSUME NEW set,
         "status" \in DOMAIN set => set["status"] \in {"ABSENT", "ACTIVE", "COMPLETED", "APPROVED", "REJECTED"},
         "in" \in DOMAIN set => set["in"] \in {None} \cup Hours,
         "out" \in DOMAIN set => set["out"] \in {None} \cup Hours,
         "break" \in DOMAIN set => set["break"] \in Nat,
         "breakAt" \in DOMAIN set => set["breakAt"] \in {None} \cup Hours,
         "total" \in DOMAIN set => set["total"] \in {None} \cup Nat,
         "regular" \in DOMAIN set => set["regular"] \in Nat,
         "over" \in DOMAIN set => set["over"] \in Nat
  PROVE  Over(NoEntry, set) \in Row
<1> DEFINE o == Over(NoEntry, set)
<1>1. \A c \in Columns : o[c] = IF c \in DOMAIN set THEN set[c] ELSE NoEntry[c]
  BY OverIs, NoEntryIs
<1>2. o = [c \in Columns |-> o[c]]
  BY NoEntryIs DEF Over
<1> HIDE DEF o
<1>3. o \in Row
  BY <1>1, <1>2, NoEntryIs, RowIs DEF Columns
<1> QED
  BY <1>3 DEF o

LEMMA NothingSet == Settable(<<>>)
<1>1. DOMAIN <<>> = {}
  OBVIOUS
<1>2. Over(NoEntry, <<>>) \in Row
  BY <1>1, ColumnsTyped
<1> QED
  BY <1>1, <1>2 DEF Settable

LEMMA IdleTyped ==
  ASSUME Sized
  PROVE  /\ Flight(Idle) /\ Idle.pc = "idle"
         /\ \A pc \in {"idle", "create", "write", "recalc", "allocate"} : Flight([Idle EXCEPT !.pc = pc])
<1>1. AnyEntry \in Entries
  BY DEF AnyEntry, Sized
<1> QED
  BY <1>1, NothingSet DEF Idle, Flight

LEMMA GoesTyped ==
  ASSUME TypeInv, NEW h \in Handlers, NEW c, Flight(c), Goes(h, c)
  PROVE  TypeInv'
  BY DEF TypeInv, Goes, Flight, Settable, Sound

LEMMA SetsTyped ==
  ASSUME TypeInv, NEW h \in Handlers, NEW e \in Entries, NEW set, Settable(set), NEW c, Flight(c),
         Flight(Idle), Sets(h, e, set, c)
  PROVE  TypeInv'
<1>1. /\ call' = [g \in Handlers |-> call'[g]] /\ \A g \in Handlers : Flight(call'[g])
      /\ now' = now /\ deaths' = deaths
  BY DEF TypeInv, Sets
<1>2. CASE ~Stands(e)
  BY <1>1, <1>2 DEF TypeInv, Sets, Flight, Settable, Sound
<1>3. CASE Stands(e)
  <2>1. entry' = [entry EXCEPT ![e] = Over(entry[e], set)]
    BY <1>3 DEF Sets
  <2>2. Over(entry[e], set) \in Row
    BY OverTyped DEF TypeInv, Settable
  <2>3. Sound(Over(entry[e], set))
    <3>1. \A k \in Columns : Over(entry[e], set)[k] = IF k \in DOMAIN set THEN set[k] ELSE entry[e][k]
      BY OverIs DEF TypeInv
    <3>2. Sound(entry[e]) /\ entry[e].status # "ABSENT"
      BY <1>3 DEF TypeInv, Stands
    <3> QED
      BY <3>1, <3>2 DEF Sound, Settable, Columns
  <2>4. entry' \in [Entries -> Row] /\ \A f \in Entries : Sound(entry'[f])
    BY <2>1, <2>2, <2>3 DEF TypeInv
  <2> QED
    BY <1>1, <2>4 DEF TypeInv, Flight, Settable, Sound
<1> QED
  BY <1>2, <1>3

LEMMA WritingTyped ==
  ASSUME Sized, TypeInv, NEW h \in Handlers, NEW e \in Entries, NEW set, Settable(set), NEW day \in Int,
         Goes(h, Writing(e, set, day))
  PROVE  TypeInv'
<1>1. Flight(Writing(e, set, day))
  BY IdleTyped DEF Writing, Idle, Flight
<1> QED
  BY <1>1, GoesTyped

LEMMA LocalDateType == ASSUME Sized, NEW t \in Int PROVE LocalDate(t) \in Int
  BY DEF LocalDate, Sized

LEMMA WorkedType == ASSUME NEW a \in Int, NEW b \in Int, NEW c \in Int PROVE Worked(a, b, c) \in Nat
  BY DEF Worked, Larger

LEMMA ClockOutTyped ==
  ASSUME Sized, TypeInv, NEW h \in Handlers, NEW e \in Entries, ClockOutRead(h, e)
  PROVE  TypeInv'
<1> DEFINE r     == entry[e]
           break == r.break + IF r.breakAt = None THEN 0 ELSE now - r.breakAt
           set   == [status |-> "COMPLETED", out |-> now, break |-> break,
                     breakAt |-> None, total |-> Worked(r.in, now, break)]
<1>1. r \in Row /\ Sound(r) /\ r.status = "ACTIVE" /\ now \in Nat /\ now \in Hours
  BY HoursAre DEF TypeInv, ClockOutRead, Active
<1>2. break \in Nat /\ r.in \in Nat /\ None \notin Nat
  <2>1. Hours \subseteq Nat /\ None \notin Nat
    BY HoursAre DEF Sized
  <2>2. r.in \in Nat /\ r.break \in Nat /\ r.breakAt \in {None} \cup Nat
    BY <1>1, <2>1 DEF Row, Sound
  <2>3. r.breakAt # None => r.breakAt <= now
    BY <1>1 DEF Sound
  <2> QED
    BY <1>1, <2>1, <2>2, <2>3
<1> HIDE DEF break
<1>3. Worked(r.in, now, break) \in Nat
  <2>1. r.in \in Int /\ now \in Int /\ break \in Int
    BY <1>1, <1>2
  <2> QED
    BY <2>1, WorkedType
<1>4. Over(NoEntry, set) \in Row
  BY <1>1, <1>2, <1>3, ColumnsTyped
<1>5. Settable(set)
  BY <1>1, <1>2, <1>3, <1>4 DEF Settable
<1>6. LocalDate(r.in) \in Int
  BY <1>2, LocalDateType
<1>7. Goes(h, Writing(e, set, LocalDate(r.in)))
  BY DEF ClockOutRead, break
<1> HIDE DEF set
<1> QED
  BY <1>5, <1>6, <1>7, WritingTyped

LEMMA BreaksTyped ==
  ASSUME Sized, TypeInv, NEW h \in Handlers, NEW e \in Entries,
         StartBreakRead(h, e) \/ EndBreakRead(h, e)
  PROVE  TypeInv'
<1> DEFINE r == entry[e]
           b == r.break + now - r.breakAt
           starts == [breakAt |-> now]
           ends   == [break |-> b, breakAt |-> None]
<1>1. r \in Row /\ Sound(r) /\ now \in Nat /\ now \in Hours /\ NoDay \in Int
  BY HoursAre DEF TypeInv, NoDay
<1>2. CASE StartBreakRead(h, e)
  <2>1. Settable(starts)
    BY <1>1, ColumnsTyped DEF Settable
  <2>2. Goes(h, Writing(e, starts, NoDay))
    BY <1>2 DEF StartBreakRead
  <2> HIDE DEF starts
  <2> QED
    BY <1>1, <2>1, <2>2, WritingTyped
<1>3. CASE EndBreakRead(h, e)
  <2>0. r.breakAt \in Nat /\ r.breakAt <= now /\ r.break \in Nat
    BY <1>1, <1>3, HoursAre DEF EndBreakRead, Row, Sound
  <2>1. b \in Nat
    BY <1>1, <2>0
  <2> HIDE DEF b
  <2>2. Settable(ends)
    BY <1>1, <2>1, ColumnsTyped DEF Settable
  <2>3. Goes(h, Writing(e, ends, NoDay))
    BY <1>3 DEF EndBreakRead, b
  <2> HIDE DEF ends
  <2> QED
    BY <1>1, <2>2, <2>3, WritingTyped
<1> QED
  BY <1>2, <1>3

LEMMA UpdateTyped ==
  ASSUME Sized, TypeInv, NEW h \in Handlers, NEW e \in Entries, NEW in \in Hours,
         NEW out \in Hours \cup {None}, NEW break \in {0, 1}, UpdateRead(h, e, in, out, break)
  PROVE  TypeInv'
<1> DEFINE total == IF out = None THEN entry[e].total ELSE Worked(in, out, break)
           set   == [in |-> in, out |-> out, break |-> break, total |-> total]
           day   == IF out = None THEN NoDay ELSE LocalDate(in)
<1>1. in \in Nat /\ in # None /\ (out # None => out \in Nat) /\ break \in Nat /\ entry[e] \in Row
  BY HoursAre DEF TypeInv
<1>2. total \in {None} \cup Nat /\ (out # None => total \in Nat /\ total # None)
  <2>1. CASE out = None
    BY <1>1, <2>1 DEF Row
  <2>2. CASE out # None
    BY <1>1, <2>2, WorkedType DEF Sized
  <2> QED
    BY <2>1, <2>2
<1>3. day \in Int
  BY <1>1, LocalDateType DEF NoDay
<1> HIDE DEF total
<1>4. Settable(set)
  BY <1>1, <1>2, ColumnsTyped DEF Settable
<1>5. Goes(h, Writing(e, set, day))
  BY DEF UpdateRead, total
<1> HIDE DEF set, day
<1> QED
  BY <1>3, <1>4, <1>5, WritingTyped

LEMMA DecideTyped ==
  ASSUME Sized, TypeInv, NEW h \in Handlers, NEW e \in Entries,
         NEW status \in {"APPROVED", "REJECTED"}, DecideRead(h, e, status)
  PROVE  TypeInv'
<1> DEFINE set == [status |-> status]
<1>1. Settable(set)
  BY ColumnsTyped DEF Settable
<1>2. Goes(h, Writing(e, set, NoDay)) /\ NoDay \in Int
  BY DEF DecideRead, NoDay
<1> HIDE DEF set
<1> QED
  BY <1>1, <1>2, WritingTyped

LEMMA AllocationTyped ==
  ASSUME Sized, TypeInv, NEW d \in Int, NEW e \in DayEntries(d)
  PROVE  /\ Allocation(e, DayEntries(d)).id = e
         /\ Settable(Allocation(e, DayEntries(d)).set)
<1> DEFINE day == DayEntries(d)
           regular == Regular(e, Total({f \in day : Earlier(f, e)}))
           set == [regular |-> regular, over |-> entry[e].total - regular]
<1>1. day \subseteq Entries /\ \A f \in day : entry[f].total \in Nat
  BY DEF DayEntries, TypeInv, Row, Sound
<1> HIDE DEF day
<1>2. Total({f \in day : Earlier(f, e)}) \in Int
  BY <1>1, TotalType
<1>3. regular \in Nat /\ regular <= entry[e].total /\ entry[e].total \in Nat
  BY <1>1, <1>2, RegularIs DEF day
<1> HIDE DEF regular
<1>4. entry[e].total - regular \in Nat
  BY <1>3
<1>5. Settable(set)
  BY <1>3, <1>4, ColumnsTyped DEF Settable
<1> QED
  BY <1>5 DEF Allocation, day, regular

LEMMA RecalcTyped ==
  ASSUME Sized, TypeInv, NEW h \in Handlers, RecalcRead(h)
  PROVE  TypeInv'
<1> DEFINE day == DayEntries(call[h].day)
           c == [Idle EXCEPT !.pc = "allocate", !.todo = {Allocation(e, day) : e \in day}]
<1>1. call[h].day \in Int /\ day \subseteq Entries
  BY DEF TypeInv, Flight, DayEntries
<1>2. \A e \in day : Allocation(e, day).id \in Entries /\ Settable(Allocation(e, day).set)
  BY <1>1, AllocationTyped
<1>3. Flight(Idle) /\ Flight(c)
  BY <1>2, IdleTyped DEF Flight, Idle
<1>4. Goes(h, IF day = {} THEN Idle ELSE c)
  BY DEF RecalcRead
<1> HIDE DEF c, day
<1> QED
  BY <1>3, <1>4, GoesTyped

LEMMA WritesTyped ==
  ASSUME Sized, TypeInv, NEW h \in Handlers, Write(h) \/ Allocate(h)
  PROVE  TypeInv'
<1>1. Flight(call[h]) /\ Flight(Idle)
  BY IdleTyped DEF TypeInv
<1>2. CASE Write(h)
  <2> DEFINE c == IF call[h].day = NoDay THEN Idle ELSE [Idle EXCEPT !.pc = "recalc", !.day = call[h].day]
  <2>1. Flight(c)
    BY <1>1, IdleTyped DEF Flight, Idle
  <2>2. Sets(h, call[h].id, call[h].set, c)
    BY <1>2 DEF Write
  <2> HIDE DEF c
  <2> QED
    BY <1>1, <2>1, <2>2, SetsTyped DEF Flight
<1>3. CASE Allocate(h)
  <2>1. PICK a \in call[h].todo :
          Sets(h, a.id, a.set, IF call[h].todo = {a} THEN Idle
                               ELSE [call[h] EXCEPT !.todo = call[h].todo \ {a}])
    BY <1>3 DEF Allocate
  <2>2. Flight([call[h] EXCEPT !.todo = call[h].todo \ {a}])
    BY <1>1 DEF Flight
  <2>3. a.id \in Entries /\ Settable(a.set)
    BY <1>1 DEF Flight
  <2> QED
    BY <1>1, <2>1, <2>2, <2>3, SetsTyped
<1> QED
  BY <1>2, <1>3

LEMMA RestTyped ==
  ASSUME Sized, TypeInv, NEW h \in Handlers, NEW e \in Entries,
         ClockInRead(h) \/ ClockInCreate(h, e) \/ RemoveEntry(h, e) \/ Abort(h)
  PROVE  TypeInv'
<1>1. Flight(Idle) /\ Flight([Idle EXCEPT !.pc = "create"]) /\ NoEntry \in Row
  BY IdleTyped, NoEntryIs
<1>2. CASE ClockInRead(h)
  BY <1>1, <1>2, GoesTyped DEF ClockInRead
<1>3. CASE ClockInCreate(h, e)
  <2>1. [NoEntry EXCEPT !.status = "ACTIVE", !.in = now] \in Row
    BY DEF NoEntry, Row, TypeInv
  <2>2. Sound([NoEntry EXCEPT !.status = "ACTIVE", !.in = now])
    BY HoursAre DEF NoEntry, Sound, TypeInv
  <2>3. entry' \in [Entries -> Row] /\ \A f \in Entries : Sound(entry'[f])
    BY <1>3, <2>1, <2>2 DEF ClockInCreate, TypeInv
  <2> QED
    BY <1>1, <1>3, <2>3 DEF ClockInCreate, TypeInv, Flight, Settable, Sound
<1>4. CASE RemoveEntry(h, e)
  <2>1. Sound(NoEntry)
    BY DEF NoEntry, Sound
  <2>2. entry' \in [Entries -> Row] /\ \A f \in Entries : Sound(entry'[f])
    BY <1>1, <1>4, <2>1 DEF RemoveEntry, TypeInv
  <2> QED
    BY <1>4, <2>2 DEF RemoveEntry, TypeInv, Flight, Settable, Sound
<1>5. CASE Abort(h)
  <2>1. deaths' \in 0..MaxAborts
    BY <1>5 DEF Abort, TypeInv, Sized
  <2> QED
    BY <1>1, <1>5, <2>1 DEF Abort, TypeInv, Flight, Settable, Sound
<1> QED
  BY <1>2, <1>3, <1>4, <1>5

LEMMA TickTyped == ASSUME Sized, TypeInv, Tick PROVE TypeInv'
<1>1. now \in Nat /\ now' = now + 1 /\ now' \in Hours /\ Hours \subseteq Nat
  BY HoursAre DEF Tick, TypeInv
<1>2. \A f \in Entries : entry[f].breakAt \in {None} \cup Nat
  BY <1>1 DEF TypeInv, Row
<1>3. \A f \in Entries : Sound(entry[f])'
  BY <1>1, <1>2 DEF Tick, TypeInv, Sound
<1>4. ASSUME NEW set, Settable(set) PROVE Settable(set)'
  <2>1. "breakAt" \in DOMAIN set => set["breakAt"] \in {None} \cup Nat
    <3>1. "breakAt" \in DOMAIN set => Over(NoEntry, set)["breakAt"] = set["breakAt"]
      BY OverIs, NoEntryIs DEF Columns
    <3> QED
      BY <1>1, <1>4, <3>1 DEF Settable, Row
  <2> QED
    BY <1>1, <1>4, <2>1 DEF Settable
<1>5. \A g \in Handlers : Flight(call[g])'
  BY <1>4 DEF Tick, TypeInv, Flight
<1> QED
  BY <1>1, <1>3, <1>5 DEF Tick, TypeInv

LEMMA TypeInit == ASSUME Sized, Init PROVE TypeInv
<1>1. Flight(Idle) /\ NoEntry \in Row /\ Sound(NoEntry)
  BY IdleTyped, NoEntryIs DEF NoEntry, Sound
<1> QED
  BY <1>1, HoursAre DEF Init, TypeInv, Sized

LEMMA TypeStep == ASSUME Sized, TypeInv, [Next]_vars PROVE TypeInv'
<1>1. CASE UNCHANGED vars
  BY <1>1 DEF vars, TypeInv, Flight, Settable, Sound
<1>2. ASSUME NEW h \in Handlers, Handle(h) PROVE TypeInv'
  <2>1. PICK e \in Entries : TRUE
    BY DEF Sized
  <2>2. CASE ClockInRead(h) \/ Abort(h)
    BY <2>1, <2>2, RestTyped
  <2>3. CASE Write(h) \/ Allocate(h)
    BY <2>3, WritesTyped
  <2>4. CASE RecalcRead(h)
    BY <2>4, RecalcTyped
  <2>5. ASSUME NEW f \in Entries, ClockInCreate(h, f) \/ RemoveEntry(h, f) PROVE TypeInv'
    BY <2>5, RestTyped
  <2>6. ASSUME NEW f \in Entries, ClockOutRead(h, f) PROVE TypeInv'
    BY <2>6, ClockOutTyped
  <2>7. ASSUME NEW f \in Entries, StartBreakRead(h, f) \/ EndBreakRead(h, f) PROVE TypeInv'
    BY <2>7, BreaksTyped
  <2>8. ASSUME NEW f \in Entries, NEW status \in {"APPROVED", "REJECTED"}, DecideRead(h, f, status)
        PROVE  TypeInv'
    BY <2>8, DecideTyped
  <2>9. ASSUME NEW f \in Entries, NEW in \in Hours, NEW out \in Hours \cup {None}, NEW break \in {0, 1},
               UpdateRead(h, f, in, out, break)
        PROVE  TypeInv'
    BY <2>9, UpdateTyped
  <2> QED
    BY <1>2, <2>2, <2>3, <2>4, <2>5, <2>6, <2>7, <2>8, <2>9 DEF Handle
<1>3. CASE Tick
  BY <1>3, TickTyped
<1> QED
  BY <1>1, <1>2, <1>3 DEF Next

-----------------------------------------------------------------------------
(* One handler at a time: one shift.                                       *)

(* A write that ends an entry ends its break; one that begins a break is   *)
(* of the entry running.                                                   *)
ShiftFits(e, set) ==
  /\ "status" \in DOMAIN set =>
       /\ set["status"] # "ACTIVE"
       /\ IF "breakAt" \in DOMAIN set THEN set["breakAt"] = None ELSE entry[e].breakAt = None
  /\ "breakAt" \in DOMAIN set /\ set["breakAt"] # None => Active(e) /\ "status" \notin DOMAIN set

ShiftInv(f) ==
  /\ OneShift
  /\ call[f].pc = "create" => \A e \in Entries : ~Active(e)
  /\ call[f].pc = "write" => ShiftFits(call[f].id, call[f].set)
  /\ call[f].pc = "allocate" => \A a \in call[f].todo : DOMAIN a.set = {"regular", "over"}

LEMMA ShiftSets ==
  ASSUME TypeInv, NEW f \in Handlers, ShiftInv(f), NEW e \in Entries, NEW set, NEW c,
         ShiftFits(e, set), Sets(f, e, set, c)
  PROVE  OneShift'
<1>1. CASE ~Stands(e)
  BY <1>1 DEF Sets, ShiftInv, OneShift, Active
<1>2. CASE Stands(e)
  <2>1. entry' = [entry EXCEPT ![e] = Over(entry[e], set)] /\ entry \in [Entries -> Row]
    BY <1>2 DEF Sets, TypeInv
  <2>2. \A k \in Columns : entry'[e][k] = IF k \in DOMAIN set THEN set[k] ELSE entry[e][k]
    BY <2>1, OverIs
  <2>3. /\ entry'[e].status = IF "status" \in DOMAIN set THEN set["status"] ELSE entry[e].status
        /\ entry'[e].breakAt = IF "breakAt" \in DOMAIN set THEN set["breakAt"] ELSE entry[e].breakAt
    BY <2>2 DEF Columns
  <2>4. \A g \in Entries \ {e} : entry'[g] = entry[g]
    BY <2>1
  <2>5. entry'[e].status = "ACTIVE" => entry[e].status = "ACTIVE"
    BY <2>3 DEF ShiftFits
  <2>6. entry'[e].breakAt # None => entry'[e].status = "ACTIVE"
    BY <2>3 DEF ShiftFits, ShiftInv, OneShift, Active
  <2> QED
    BY <2>4, <2>5, <2>6 DEF ShiftInv, OneShift, Active
<1> QED
  BY <1>1, <1>2

LEMMA ShiftGoes ==
  ASSUME TypeInv, NEW f \in Handlers, ShiftInv(f), NEW c, Goes(f, c),
         c.pc = "create" => \A e \in Entries : ~Active(e),
         c.pc = "write" => ShiftFits(c.id, c.set),
         c.pc = "allocate" => \A a \in c.todo : DOMAIN a.set = {"regular", "over"}
  PROVE  ShiftInv(f)'
<1>1. call'[f] = c /\ entry' = entry
  BY DEF Goes, TypeInv
<1> QED
  BY <1>1 DEF ShiftInv, OneShift, Active, ShiftFits

LEMMA IdleIs ==
  /\ Idle.pc = "idle" /\ \A pc : [Idle EXCEPT !.pc = pc].pc = pc
  /\ \A d : [Idle EXCEPT !.pc = "recalc", !.day = d].pc = "recalc"
  /\ \A d : [Idle EXCEPT !.pc = "recalc", !.day = d].day = d
  /\ \A t : [Idle EXCEPT !.pc = "allocate", !.todo = t].pc = "allocate"
  /\ \A t : [Idle EXCEPT !.pc = "allocate", !.todo = t].todo = t
  /\ \A e, set, d : /\ Writing(e, set, d).pc = "write" /\ Writing(e, set, d).id = e
                    /\ Writing(e, set, d).set = set /\ Writing(e, set, d).day = d
  BY DEF Idle, Writing

LEMMA ShiftStep ==
  ASSUME TypeInv, NEW f \in Handlers, \A h \in Handlers : h = f, ShiftInv(f), [Next]_vars
  PROVE  ShiftInv(f)'
<1> DEFINE c == call[f]
<1>0. call \in [Handlers -> {call[h] : h \in Handlers}]
  BY DEF TypeInv
<1>1. CASE UNCHANGED vars
  BY <1>1 DEF vars, ShiftInv, OneShift, Active, ShiftFits
<1>2. CASE Tick
  BY <1>2 DEF Tick, ShiftInv, OneShift, Active, ShiftFits
<1>3. CASE ClockInRead(f)
  <2> DEFINE n == [Idle EXCEPT !.pc = "create"]
  <2>1. n.pc = "create" /\ Goes(f, n) /\ \A e \in Entries : ~Active(e)
    BY <1>3, IdleIs DEF ClockInRead
  <2> HIDE DEF n
  <2> QED
    BY <2>1, ShiftGoes
<1>4. CASE Write(f)
  <2> DEFINE n == IF c.day = NoDay THEN Idle ELSE [Idle EXCEPT !.pc = "recalc", !.day = c.day]
  <2>1. ShiftFits(c.id, c.set) /\ c.id \in Entries /\ Sets(f, c.id, c.set, n)
    BY <1>4 DEF Write, ShiftInv, TypeInv, Flight
  <2>2. n.pc \in {"idle", "recalc"} /\ Idle.pc = "idle"
    BY IdleIs
  <2> HIDE DEF n
  <2>3. OneShift'
    BY <2>1, ShiftSets
  <2>4. call'[f] \in {n, Idle}
    BY <1>0, <2>1 DEF Sets
  <2> QED
    BY <2>2, <2>3, <2>4 DEF ShiftInv
<1>5. CASE RecalcRead(f)
  <2> DEFINE day == DayEntries(c.day)
             n   == [Idle EXCEPT !.pc = "allocate", !.todo = {Allocation(e, day) : e \in day}]
  <2>1. Goes(f, IF day = {} THEN Idle ELSE n)
    BY <1>5 DEF RecalcRead
  <2>2. Idle.pc = "idle" /\ n.pc = "allocate" /\ n.todo = {Allocation(e, day) : e \in day}
    BY IdleIs
  <2> HIDE DEF n, day
  <2>3. \A e : DOMAIN Allocation(e, day).set = {"regular", "over"}
    BY DEF Allocation
  <2> QED
    BY <2>1, <2>2, <2>3, ShiftGoes
<1>6. CASE Allocate(f)
  <2>1. PICK a \in c.todo : Sets(f, a.id, a.set, IF c.todo = {a} THEN Idle ELSE [c EXCEPT !.todo = c.todo \ {a}])
    BY <1>6 DEF Allocate
  <2>2. DOMAIN a.set = {"regular", "over"} /\ a.id \in Entries /\ c.pc = "allocate"
    BY <1>6 DEF Allocate, ShiftInv, TypeInv, Flight
  <2>3. ShiftFits(a.id, a.set)
    BY <2>2 DEF ShiftFits
  <2>4. OneShift'
    BY <2>1, <2>2, <2>3, ShiftSets
  <2>5. call'[f] = Idle \/ call'[f] = [c EXCEPT !.todo = c.todo \ {a}]
    BY <1>0, <2>1 DEF Sets
  <2>6. call'[f].pc = "idle" \/ (call'[f].pc = c.pc /\ call'[f].todo \subseteq c.todo)
    <3>1. CASE call'[f] = Idle
      BY <3>1, IdleIs
    <3>2. CASE call'[f] = [c EXCEPT !.todo = c.todo \ {a}]
      <4>1. [c EXCEPT !.todo = c.todo \ {a}].pc = c.pc
        OBVIOUS
      <4>2. [c EXCEPT !.todo = c.todo \ {a}].todo \subseteq c.todo
        OBVIOUS
      <4> QED
        BY <3>2, <4>1, <4>2
    <3> QED
      BY <2>5, <3>1, <3>2
  <2> QED
    BY <2>2, <2>4, <2>6 DEF ShiftInv
<1>7. CASE Abort(f)
  BY <1>7, IdleIs DEF Abort, TypeInv, ShiftInv, OneShift, Active, ShiftFits
<1>8. ASSUME NEW e \in Entries, ClockInCreate(f, e) PROVE ShiftInv(f)'
  <2>1. call'[f].pc = "idle"
    BY <1>8, <1>0, IdleIs DEF ClockInCreate
  <2>2. OneShift'
    <3>1. [NoEntry EXCEPT !.status = "ACTIVE", !.in = now].breakAt = None
      BY DEF NoEntry
    <3>2. \A g \in Entries : ~Active(g) /\ entry[g].breakAt = None
      BY <1>8 DEF ClockInCreate, ShiftInv, OneShift
    <3>3. \A g \in Entries : entry'[g].breakAt = None /\ (g # e => entry'[g] = entry[g])
      BY <1>8, <3>1, <3>2 DEF ClockInCreate, TypeInv
    <3> QED
      BY <3>2, <3>3 DEF OneShift, Active
  <2> QED
    BY <2>1, <2>2 DEF ShiftInv
<1>9. ASSUME NEW e \in Entries, RemoveEntry(f, e) PROVE ShiftInv(f)'
  <2>1. call'[f].pc = "idle"
    BY <1>9 DEF RemoveEntry, Starts
  <2>2. NoEntry.breakAt = None /\ NoEntry.status # "ACTIVE"
    BY DEF NoEntry
  <2>3. \A g \in Entries : entry'[g] = IF g = e THEN NoEntry ELSE entry[g]
    BY <1>9 DEF RemoveEntry, TypeInv
  <2>4. OneShift'
    BY <2>2, <2>3 DEF OneShift, Active, ShiftInv
  <2> QED
    BY <2>1, <2>4 DEF ShiftInv
<1>10. ASSUME NEW e \in Entries, NEW set, NEW d, ShiftFits(e, set), Goes(f, Writing(e, set, d))
       PROVE  ShiftInv(f)'
  <2> DEFINE n == Writing(e, set, d)
  <2>1. n.pc = "write" /\ n.id = e /\ n.set = set
    BY IdleIs
  <2>2. Goes(f, n)
    BY <1>10
  <2> HIDE DEF n
  <2> QED
    BY <1>10, <2>1, <2>2, ShiftGoes
<1>11. ASSUME NEW e \in Entries, ClockOutRead(f, e) PROVE ShiftInv(f)'
  <2> DEFINE break == entry[e].break + IF entry[e].breakAt = None THEN 0 ELSE now - entry[e].breakAt
             total == Worked(entry[e].in, now, break)
             set == [status |-> "COMPLETED", out |-> now, break |-> break, breakAt |-> None, total |-> total]
  <2>1. Goes(f, Writing(e, set, LocalDate(entry[e].in)))
    BY <1>11 DEF ClockOutRead
  <2> HIDE DEF break, total
  <2>2. ShiftFits(e, set)
    BY DEF ShiftFits
  <2> HIDE DEF set
  <2> QED
    BY <1>10, <2>1, <2>2
<1>12. ASSUME NEW e \in Entries, StartBreakRead(f, e) \/ EndBreakRead(f, e) PROVE ShiftInv(f)'
  <2> DEFINE starts == [breakAt |-> now]
             b == entry[e].break + now - entry[e].breakAt
             ends == [break |-> b, breakAt |-> None]
  <2>1. Active(e) /\ (Goes(f, Writing(e, starts, NoDay)) \/ Goes(f, Writing(e, ends, NoDay)))
    BY <1>12 DEF StartBreakRead, EndBreakRead
  <2> HIDE DEF b
  <2>2. ShiftFits(e, starts) /\ ShiftFits(e, ends)
    BY <2>1 DEF ShiftFits
  <2> HIDE DEF starts, ends
  <2> QED
    BY <1>10, <2>1, <2>2
<1>13. ASSUME NEW e \in Entries, NEW in \in Hours, NEW out \in Hours \cup {None}, NEW break \in {0, 1},
              UpdateRead(f, e, in, out, break)
       PROVE  ShiftInv(f)'
  <2> DEFINE total == IF out = None THEN entry[e].total ELSE Worked(in, out, break)
             set == [in |-> in, out |-> out, break |-> break, total |-> total]
             day == IF out = None THEN NoDay ELSE LocalDate(in)
  <2>1. Goes(f, Writing(e, set, day))
    BY <1>13 DEF UpdateRead
  <2> HIDE DEF total, day
  <2>2. ShiftFits(e, set)
    BY DEF ShiftFits
  <2> HIDE DEF set
  <2> QED
    BY <1>10, <2>1, <2>2
<1>14. ASSUME NEW e \in Entries, NEW status \in {"APPROVED", "REJECTED"}, DecideRead(f, e, status)
       PROVE  ShiftInv(f)'
  <2> DEFINE set == [status |-> status]
  <2>1. Goes(f, Writing(e, set, NoDay)) /\ entry[e].breakAt = None
    BY <1>14 DEF DecideRead, ShiftInv, OneShift, Active
  <2>2. ShiftFits(e, set)
    BY <2>1 DEF ShiftFits
  <2> HIDE DEF set
  <2> QED
    BY <1>10, <2>1, <2>2
<1>15. ASSUME Handle(f) PROVE ShiftInv(f)'
  BY <1>15, <1>3, <1>4, <1>5, <1>6, <1>7, <1>8, <1>9, <1>11, <1>12, <1>13, <1>14 DEF Handle
<1> QED
  BY <1>1, <1>2, <1>15 DEF Next

LEMMA ShiftInit == ASSUME NEW f \in Handlers, Init PROVE ShiftInv(f)
  BY IdleIs DEF Init, ShiftInv, OneShift, Active, NoEntry

(* One handler at a time, a user has one entry running at most and no      *)
(* break in an entry that has ended (clockIn, clockOut, startBreak).       *)
THEOREM OneShiftAtATime ==
  ASSUME Sized, NEW f \in Handlers, \A h \in Handlers : h = f
  PROVE  Spec => []OneShift
<1>1. ShiftInv(f) => OneShift
  BY DEF ShiftInv
<1> QED
  BY <1>1, TypeInit, TypeStep, ShiftInit, ShiftStep, PTL DEF Spec

-----------------------------------------------------------------------------
(* One handler at a time, in UTC: hours are split and paid.                *)

(* The hours of each entry of day d are split, and those at the regular    *)
(* rate are within the daily threshold.                                    *)
Fair(d) ==
  /\ \A e \in DayEntries(d) : entry[e].regular + entry[e].over = entry[e].total
  /\ RegularOf(DayEntries(d)) <= Daily

LEMMA DayEntriesAre ==
  ASSUME Sized, TypeInv, NEW d
  PROVE  /\ DayEntries(d) \in SUBSET Entries /\ IsFiniteSet(DayEntries(d))
         /\ \A e \in DayEntries(d) : /\ entry[e].in \in Int /\ entry[e].total \in Nat
                                     /\ entry[e].regular \in Nat /\ entry[e].over \in Nat
<1>1. \A e \in Entries : entry[e] \in Row /\ Sound(entry[e])
  BY DEF TypeInv
<1>2. DayEntries(d) \in SUBSET Entries
  BY DEF DayEntries
<1>3. IsFiniteSet(DayEntries(d))
  BY <1>2, FS_Subset DEF Sized
<1>4. Hours \subseteq Nat
  BY HoursAre
<1> QED
  BY <1>1, <1>2, <1>3, <1>4 DEF DayEntries, Row, Sound, Stands

(* The days of the clock, from midnight to midnight. *)
LEMMA DayOf ==
  ASSUME Sized, Offset = 0, NEW t \in Int, NEW d \in Int
  PROVE  (t \in (d * DayHours)..((d + 1) * DayHours - 1)) <=> LocalDate(t) = d
<1>1. DayHours \in Nat \ {0} /\ LocalDate(t) = t \div DayHours
  BY DEF Sized, LocalDate
<1> DEFINE q == t \div DayHours
<1>2. q \in Int /\ q * DayHours <= t /\ t < q * DayHours + DayHours
  BY <1>1
<1> HIDE DEF q
<1>3. (d + 1) * DayHours = d * DayHours + DayHours /\ d * DayHours \in Int /\ q * DayHours \in Int
  BY <1>1, <1>2
<1>4. ASSUME t \in (d * DayHours)..((d + 1) * DayHours - 1) PROVE q = d
  <2> DEFINE lo == d * DayHours
             hi == (d + 1) * DayHours
  <2>0. lo \in Int /\ hi = lo + DayHours /\ t \in lo..(hi - 1)
    BY <1>3, <1>4
  <2> HIDE DEF lo, hi
  <2>1. d * DayHours <= t /\ t < d * DayHours + DayHours
    <3>1. lo <= t /\ t < lo + DayHours
      BY <1>1, <2>0
    <3> QED
      BY <3>1 DEF lo
  <2>2. ASSUME q < d PROVE FALSE
    <3>1. q * DayHours + DayHours <= d * DayHours
      BY <1>1, <1>2, <2>2
    <3> QED
      BY <1>2, <1>3, <2>1, <3>1, <1>1
  <2>3. ASSUME d < q PROVE FALSE
    <3>1. d * DayHours + DayHours <= q * DayHours
      BY <1>1, <1>2, <2>3
    <3> QED
      BY <1>2, <1>3, <2>1, <3>1, <1>1
  <2> QED
    BY <1>2, <2>2, <2>3
<1>5. ASSUME q = d PROVE t \in (d * DayHours)..((d + 1) * DayHours - 1)
  BY <1>1, <1>2, <1>3, <1>5
<1> QED
  BY <1>1, <1>4, <1>5 DEF q

LEMMA DateIsDay == ASSUME Sized, Offset = 0, NEW t \in Nat PROVE LocalDate(t) \in Nat
  BY DEF Sized, LocalDate

(* A day that only loses entries stays fair. *)
LEMMA FairKept ==
  ASSUME Sized, TypeInv, TypeInv', NEW d, Fair(d), DayEntries(d)' \subseteq DayEntries(d),
         \A e \in DayEntries(d)' : /\ entry'[e].regular = entry[e].regular
                                   /\ entry'[e].over = entry[e].over /\ entry'[e].total = entry[e].total
  PROVE  Fair(d)'
<1> DEFINE F == [e \in Entries |-> entry[e].regular]
           D == DayEntries(d)
<1>1. D \in SUBSET Entries /\ IsFiniteSet(D) /\ \A e \in D : F[e] \in Nat
  BY DayEntriesAre
<1>2. D' \in SUBSET D /\ IsFiniteSet(D') /\ \A e \in D' : F'[e] = F[e]
  BY <1>1, FS_Subset
<1>3. SumFunctionOnSet(F', D') = SumFunctionOnSet(F, D')
  BY <1>2, SumSame
<1>4. SumFunctionOnSet(F, D') <= SumFunctionOnSet(F, D)
  BY <1>1, <1>2, SumPart
<1>5. SumFunctionOnSet(F, D) \in Int /\ SumFunctionOnSet(F, D') \in Int
  <2> HIDE DEF F, D
  <2>1. (\A e \in D : F[e] \in Int) /\ (\A e \in D' : F[e] \in Int)
    BY <1>1, <1>2
  <2> QED
    BY <1>1, <1>2, <2>1, SumType
<1>6. RegularOf(D) = SumFunctionOnSet(F, D) /\ RegularOf(D)' = SumFunctionOnSet(F', D')
  BY DEF RegularOf
<1>7. RegularOf(D)' <= Daily
  <2> HIDE DEF F, D
  <2> QED
    BY <1>3, <1>4, <1>5, <1>6 DEF Fair, Sized, D
<1> QED
  BY <1>7 DEF Fair

(* What a handler is about to write leaves no day unfair but the one it    *)
(* will recalculate.                                                       *)
Fits(c) ==
  /\ Stands(c.id) /\ DOMAIN c.set \cap {"regular", "over"} = {}
  /\ \/ c.day = NoDay /\ DOMAIN c.set \cap {"in", "out", "total"} = {}
     \/ c.day = NoDay /\ "out" \in DOMAIN c.set /\ c.set["out"] = None
     \/ /\ c.day # NoDay
        /\ c.day = LocalDate(IF "in" \in DOMAIN c.set THEN c.set["in"] ELSE entry[c.id].in)

(* The entries of a day are split, or their part of the split is to be     *)
(* written.                                                                *)
Halfway(todo, d) ==
  /\ \A a \in todo : a.id \in DayEntries(d) /\ a = Allocation(a.id, DayEntries(d))
  /\ \A e \in DayEntries(d) :
       \/ \E a \in todo : a.id = e
       \/ /\ entry[e].regular = Split(DayEntries(d))[e]
          /\ entry[e].over = entry[e].total - Split(DayEntries(d))[e]

HoursInv(f) ==
  deaths = 0 =>
    /\ call[f].pc \in {"idle", "create", "write"} => \A d \in Int : Fair(d)
    /\ call[f].pc = "write" => Fits(call[f])
    /\ call[f].pc = "recalc" => \A d \in Int \ {call[f].day} : Fair(d)
    /\ call[f].pc = "allocate" =>
         /\ "todo" \in DOMAIN call[f]
         /\ \E day \in Int : Halfway(call[f].todo, day) /\ \A d \in Int \ {day} : Fair(d)

(* A write that leaves begin, end and hours leaves the days and their split. *)
LEMMA SameTimes ==
  ASSUME NEW d,
         \A e \in Entries : /\ entry'[e].in = entry[e].in /\ entry'[e].out = entry[e].out
                            /\ entry'[e].total = entry[e].total
                            /\ entry'[e].status = entry[e].status
  PROVE  /\ DayEntries(d)' = DayEntries(d) /\ Split(DayEntries(d))' = Split(DayEntries(d))
         /\ \A e \in Entries : Allocation(e, DayEntries(d))' = Allocation(e, DayEntries(d))
<1> DEFINE D == DayEntries(d)
           F == [e \in Entries |-> entry[e].total]
<1>1. D' = D
  BY DEF DayEntries, Stands
<1>2. \A e, g \in Entries : Earlier(e, g)' <=> Earlier(e, g)
  BY DEF Earlier
<1>3. F' = F
  OBVIOUS
<1>4. \A S : Total(S)' = Total(S)
  BY <1>3 DEF Total
<1>5. D \subseteq Entries
  BY DEF DayEntries
<1>6. \A e \in Entries : \A n : Regular(e, n)' = Regular(e, n)
  BY DEF Regular, Larger, Smaller
<1>7. \A e \in Entries : {g \in D : Earlier(g, e)}' = {g \in D : Earlier(g, e)}
  BY <1>1, <1>2, <1>5
<1> HIDE DEF D
<1>8. \A e \in Entries : Regular(e, Total({g \in D : Earlier(g, e)}))' = Regular(e, Total({g \in D : Earlier(g, e)}))
  BY <1>4, <1>6, <1>7 DEF Total, Regular
<1>9. Split(D)' = Split(D)
  BY <1>8 DEF Split, Before
<1>10. \A e \in Entries : Allocation(e, D)' = Allocation(e, D)
  BY <1>7, <1>8 DEF Allocation
<1> QED
  BY <1>1, <1>9, <1>10 DEF D

LEMMA FairNow ==
  ASSUME Sized, TypeInv, NEW d,
         DayEntries(d)' = DayEntries(d), \A e \in Entries : entry'[e].total = entry[e].total,
         \A e \in DayEntries(d) : /\ entry'[e].regular = Split(DayEntries(d))[e]
                                  /\ entry'[e].over = entry[e].total - Split(DayEntries(d))[e]
  PROVE  Fair(d)'
<1> DEFINE D == DayEntries(d)
           F == [e \in Entries |-> entry[e].regular]
<1>1. D \in SUBSET Entries /\ IsFiniteSet(D) /\ \A e \in D : entry[e].in \in Int /\ entry[e].total \in Nat
  BY DayEntriesAre
<1>2. \A e \in D : F'[e] = Split(D)[e]
  BY <1>1
<1>3. SumFunctionOnSet(F', D) = SumFunctionOnSet(Split(D), D)
  BY <1>1, <1>2, SumSame
<1>4. SumFunctionOnSet(Split(D), D) = Smaller(Total(D), Daily) /\ Total(D) \in Int
  BY <1>1, SplitFits, TotalType
<1>5. RegularOf(D)' = SumFunctionOnSet(F', D')
  BY DEF RegularOf
<1>6. \A e \in D : Split(D)[e] \in Int
  <2> SUFFICES ASSUME NEW e \in D PROVE Split(D)[e] \in Int
    OBVIOUS
  <2>1. Before(e, D) \in SUBSET Entries /\ \A g \in Before(e, D) : entry[g].total \in Nat
    BY <1>1 DEF Before
  <2>2. Regular(e, Total(Before(e, D))) \in Nat
    BY <1>1, <2>1, TotalType, RegularIs
  <2> QED
    BY <1>1, <2>2 DEF Split
<1>7. RegularOf(D)' <= Daily
  <2> HIDE DEF F, D
  <2>1. D' = D
    BY DEF D
  <2> QED
    BY <1>3, <1>4, <1>5, <2>1 DEF Smaller, Sized
<1>8. \A e \in D : entry'[e].regular + entry'[e].over = entry'[e].total
  <2> SUFFICES ASSUME NEW e \in D PROVE entry'[e].regular + entry'[e].over = entry'[e].total
    OBVIOUS
  <2>1. entry'[e].regular = Split(D)[e] /\ entry'[e].over = entry[e].total - Split(D)[e]
    OBVIOUS
  <2>2. Split(D)[e] \in Int /\ entry[e].total \in Nat /\ entry'[e].total = entry[e].total
    BY <1>1, <1>6
  <2> HIDE DEF D
  <2> QED
    BY <2>1, <2>2
<1> QED
  BY <1>7, <1>8 DEF Fair

LEMMA HoursGoes ==
  ASSUME TypeInv, NEW f \in Handlers, HoursInv(f), NEW c, Goes(f, c), call[f].pc = "idle",
         c.pc \in {"idle", "create"} \/ (c.pc = "write" /\ Fits(c))
  PROVE  HoursInv(f)'
<1>1. call'[f] = c /\ entry' = entry /\ deaths' = deaths
  BY DEF Goes, TypeInv
<1>2. \A d : Fair(d)' <=> Fair(d)
  BY <1>1 DEF Fair, DayEntries, Stands, RegularOf
<1>3. Fits(c) => Fits(call[f])'
  BY <1>1 DEF Fits, Stands
<1> QED
  BY <1>1, <1>2, <1>3 DEF HoursInv

LEMMA HoursWrite ==
  ASSUME Sized, Offset = 0, TypeInv, TypeInv', NEW f \in Handlers, HoursInv(f), Write(f)
  PROVE  HoursInv(f)'
<1> DEFINE c == call[f]
           n == IF c.day = NoDay THEN Idle ELSE [Idle EXCEPT !.pc = "recalc", !.day = c.day]
           e == c.id
<1>1. Sets(f, e, c.set, n) /\ c.pc = "write" /\ e \in Entries /\ Settable(c.set) /\ deaths' = deaths
  BY DEF Write, TypeInv, Flight, Sets
<1> SUFFICES ASSUME deaths = 0 PROVE HoursInv(f)'
  BY <1>1 DEF HoursInv
<1>2. Fits(c) /\ \A d \in Int : Fair(d)
  BY <1>1 DEF HoursInv
<1>3. entry' = [entry EXCEPT ![e] = Over(entry[e], c.set)] /\ call'[f] = n /\ entry[e] \in Row
  BY <1>1, <1>2 DEF Sets, Fits, TypeInv
<1>4. \A k \in Columns : entry'[e][k] = IF k \in DOMAIN c.set THEN c.set[k] ELSE entry[e][k]
  BY <1>1, <1>3, OverIs DEF TypeInv
<1>5. \A g \in Entries \ {e} : entry'[g] = entry[g]
  BY <1>3 DEF TypeInv
<1> HIDE DEF n
<1>6. Stands(e) /\ DOMAIN c.set \cap {"regular", "over"} = {}
  BY <1>2 DEF Fits
<1>7. entry'[e].regular = entry[e].regular /\ entry'[e].over = entry[e].over
  BY <1>4, <1>6 DEF Columns
<1>8. ASSUME NEW d \in Int, d # c.day \/ c.day = NoDay PROVE Fair(d)'
  <2>1. CASE DOMAIN c.set \cap {"in", "out", "total"} = {}
    <3>1. entry'[e].in = entry[e].in /\ entry'[e].out = entry[e].out /\ entry'[e].total = entry[e].total
      BY <1>4, <2>1 DEF Columns
    <3>2. DayEntries(d)' \subseteq DayEntries(d)
      BY <1>5, <1>6, <3>1 DEF DayEntries, Stands
    <3>3. \A g \in DayEntries(d)' : /\ entry'[g].regular = entry[g].regular
                                    /\ entry'[g].over = entry[g].over /\ entry'[g].total = entry[g].total
      BY <1>5, <1>7, <3>1 DEF DayEntries
    <3> QED
      BY <1>2, <3>2, <3>3, FairKept
  <2>2. CASE e \notin DayEntries(d)'
    <3>1. DayEntries(d)' \subseteq DayEntries(d)
      BY <1>5, <2>2 DEF DayEntries, Stands
    <3>2. \A g \in DayEntries(d)' : entry'[g] = entry[g]
      BY <1>5, <2>2 DEF DayEntries
    <3> QED
      BY <1>2, <3>1, <3>2, FairKept
  <2>3. CASE "out" \in DOMAIN c.set /\ c.set["out"] = None
    <3>1. entry'[e].out = None
      BY <1>4, <2>3 DEF Columns
    <3> QED
      BY <2>2, <3>1 DEF DayEntries
  <2>4. CASE c.day # NoDay /\ c.day = LocalDate(IF "in" \in DOMAIN c.set THEN c.set["in"] ELSE entry[e].in)
    <3>1. entry'[e].in = IF "in" \in DOMAIN c.set THEN c.set["in"] ELSE entry[e].in
      BY <1>4 DEF Columns
    <3>2. LocalDate(entry'[e].in) # d
      BY <1>8, <2>4, <3>1
    <3>3. e \in DayEntries(d)' => entry'[e].in \in Int
      BY HoursAre DEF DayEntries, TypeInv, Row, Sound, Stands
    <3>4. e \notin DayEntries(d)'
      BY <3>2, <3>3, DayOf DEF DayEntries
    <3> QED
      BY <2>2, <3>4
  <2> QED
    BY <1>2, <2>1, <2>3, <2>4 DEF Fits
<1>9. CASE c.day = NoDay
  BY <1>3, <1>8, <1>9, IdleIs DEF HoursInv, n
<1>10. CASE c.day # NoDay
  <2>1. n.pc = "recalc" /\ n.day = c.day
    BY <1>10, IdleIs DEF n
  <2> QED
    BY <1>3, <1>8, <2>1 DEF HoursInv
<1> QED
  BY <1>9, <1>10

LEMMA HoursRecalc ==
  ASSUME Sized, TypeInv, NEW f \in Handlers, HoursInv(f), RecalcRead(f)
  PROVE  HoursInv(f)'
<1>0. PICK k \in Int : k = call[f].day
  BY DEF TypeInv, Flight
<1> DEFINE day == DayEntries(k)
           n   == [Idle EXCEPT !.pc = "allocate", !.todo = {Allocation(e, day) : e \in day}]
<1>1. Goes(f, IF day = {} THEN Idle ELSE n) /\ call[f].pc = "recalc"
  BY <1>0 DEF RecalcRead
<1>2. Idle.pc = "idle" /\ n.pc = "allocate" /\ n.todo = {Allocation(e, day) : e \in day}
  BY IdleIs
<1> HIDE DEF n
<1>3. call'[f] = (IF day = {} THEN Idle ELSE n) /\ entry' = entry /\ deaths' = deaths
  BY <1>1 DEF Goes, TypeInv
<1> SUFFICES ASSUME deaths = 0 PROVE HoursInv(f)'
  BY <1>3 DEF HoursInv
<1>4. \A b \in Int \ {k} : Fair(b)
  BY <1>0, <1>1 DEF HoursInv
<1>5. \A b : Fair(b)' <=> Fair(b)
  BY <1>3 DEF Fair, DayEntries, Stands, RegularOf
<1>6. CASE day = {}
  <2>1. Fair(k)
    BY <1>6, SumEmpty DEF Fair, RegularOf, Sized
  <2> QED
    BY <1>2, <1>3, <1>4, <1>5, <1>6, <2>1 DEF HoursInv
<1>7. CASE day # {}
  <2>1. call'[f] = n
    BY <1>3, <1>7
  <2>2. Halfway(call[f].todo, k)'
    <3>1. \A e : Allocation(e, day).id = e
      BY DEF Allocation
    <3>2. day' = day /\ \A e \in Entries : Allocation(e, day)' = Allocation(e, day)
      BY <1>3, SameTimes
    <3>3. day \subseteq Entries
      BY DEF DayEntries
    <3>4. call'[f].todo = {Allocation(e, day) : e \in day}
      BY <1>2, <2>1
    <3>5. \A a \in call'[f].todo : a.id \in day' /\ a = Allocation(a.id, day)'
      BY <3>1, <3>2, <3>3, <3>4
    <3>6. \A e \in day' : \E a \in call'[f].todo : a.id = e
      BY <3>1, <3>2, <3>4
    <3> QED
      BY <3>5, <3>6 DEF Halfway
  <2>3. \A b \in Int \ {k} : Fair(b)'
    BY <1>4, <1>5
  <2>4. call'[f].pc = "allocate" /\ "todo" \in DOMAIN call'[f]
    <3>1. "todo" \in DOMAIN n
      BY DEF n, Idle
    <3> QED
      BY <1>2, <2>1, <3>1
  <2> HIDE DEF day
  <2> QED
    BY <2>2, <2>3, <2>4 DEF HoursInv
<1> QED
  BY <1>6, <1>7

LEMMA AllocationIs ==
  ASSUME NEW e \in Entries, NEW D
  PROVE  /\ Allocation(e, D).id = e /\ DOMAIN Allocation(e, D).set = {"regular", "over"}
         /\ Allocation(e, D).set["regular"] = Split(D)[e]
         /\ Allocation(e, D).set["over"] = entry[e].total - Split(D)[e]
  BY DEF Allocation, Split, Before

LEMMA HoursAllocate ==
  ASSUME Sized, Offset = 0, TypeInv, TypeInv', NEW f \in Handlers, HoursInv(f), Allocate(f)
  PROVE  HoursInv(f)'
<1> DEFINE todo == call[f].todo
<1>1. PICK a \in todo :
        Sets(f, a.id, a.set, IF todo = {a} THEN Idle ELSE [call[f] EXCEPT !.todo = todo \ {a}])
  BY DEF Allocate
<1>2. call[f].pc = "allocate" /\ deaths' = deaths
  BY <1>1 DEF Allocate, Sets
<1> SUFFICES ASSUME deaths = 0 PROVE HoursInv(f)'
  BY <1>2 DEF HoursInv
<1>3. PICK k \in Int : Halfway(todo, k) /\ \A d \in Int \ {k} : Fair(d)
  BY <1>2 DEF HoursInv
<1> DEFINE D == DayEntries(k)
           e == a.id
<1>4. D \in SUBSET Entries /\ \A g \in D : Stands(g) /\ entry[g].in \in Int
  BY DayEntriesAre DEF DayEntries
<1>5. e \in D /\ a = Allocation(e, D)
  BY <1>3 DEF Halfway
<1>6. /\ DOMAIN a.set = {"regular", "over"} /\ a.set["regular"] = Split(D)[e]
      /\ a.set["over"] = entry[e].total - Split(D)[e]
  BY <1>4, <1>5, AllocationIs
<1>7. /\ entry' = [entry EXCEPT ![e] = Over(entry[e], a.set)] /\ entry[e] \in Row
      /\ call'[f] = IF todo = {a} THEN Idle ELSE [call[f] EXCEPT !.todo = todo \ {a}]
  BY <1>1, <1>4, <1>5 DEF Sets, TypeInv
<1>8. \A c \in Columns : entry'[e][c] = IF c \in DOMAIN a.set THEN a.set[c] ELSE entry[e][c]
  BY <1>4, <1>5, <1>7, OverIs DEF TypeInv
<1>9. \A g \in Entries \ {e} : entry'[g] = entry[g]
  BY <1>7 DEF TypeInv
<1>10. /\ entry'[e].regular = Split(D)[e] /\ entry'[e].over = entry[e].total - Split(D)[e]
       /\ entry'[e].in = entry[e].in /\ entry'[e].out = entry[e].out
       /\ entry'[e].total = entry[e].total /\ entry'[e].status = entry[e].status
  BY <1>6, <1>8 DEF Columns
<1>11. \A g \in Entries : /\ entry'[g].in = entry[g].in /\ entry'[g].out = entry[g].out
                          /\ entry'[g].total = entry[g].total /\ entry'[g].status = entry[g].status
  BY <1>9, <1>10
<1>12. \A d \in Int : DayEntries(d)' = DayEntries(d)
  BY <1>11, SameTimes
<1>13. D' = D /\ Split(D)' = Split(D) /\ \A g \in Entries : Allocation(g, D)' = Allocation(g, D)
  BY <1>11, SameTimes
<1>14. ASSUME NEW d \in Int \ {k} PROVE Fair(d)'
  <2>1. LocalDate(entry[e].in) = k
    <3>1. entry[e].in \in (k * DayHours)..((k + 1) * DayHours - 1)
      BY <1>5 DEF DayEntries
    <3> QED
      BY <1>4, <1>5, <3>1, DayOf
  <2>2. e \notin DayEntries(d)
    <3>1. entry[e].in \notin (d * DayHours)..((d + 1) * DayHours - 1)
      BY <1>4, <1>5, <2>1, DayOf
    <3> QED
      BY <3>1 DEF DayEntries
  <2>3. DayEntries(d) \subseteq Entries /\ DayEntries(d)' = DayEntries(d)
    BY <1>12 DEF DayEntries
  <2>4. \A g \in DayEntries(d)' : entry'[g] = entry[g]
    BY <1>9, <2>2, <2>3
  <2> QED
    BY <1>3, <2>3, <2>4, FairKept
<1> HIDE DEF D, todo, e
<1>15. \A g \in D : \/ \E b \in todo : b.id = g
                    \/ entry[g].regular = Split(D)[g] /\ entry[g].over = entry[g].total - Split(D)[g]
  BY <1>3 DEF Halfway, D
<1>16. \A b \in todo : b.id \in D /\ b = Allocation(b.id, D)
  BY <1>3 DEF Halfway, D
<1>17. \A g \in D : \/ \E b \in todo \ {a} : b.id = g
                    \/ entry'[g].regular = Split(D)[g] /\ entry'[g].over = entry'[g].total - Split(D)[g]
  <2> SUFFICES ASSUME NEW g \in D, g # e
               PROVE  \/ \E b \in todo \ {a} : b.id = g
                      \/ entry'[g].regular = Split(D)[g] /\ entry'[g].over = entry'[g].total - Split(D)[g]
    BY <1>10
  <2>1. entry'[g] = entry[g]
    BY <1>4, <1>9
  <2>2. \A b : b.id = g => b # a
    BY DEF e
  <2> QED
    BY <1>15, <2>1, <2>2
<1>18. CASE todo = {a}
  <2>1. \A g \in D : entry'[g].regular = Split(D)[g] /\ entry'[g].over = entry[g].total - Split(D)[g]
    BY <1>4, <1>11, <1>17, <1>18
  <2>2. Fair(k)'
    BY <1>11, <1>13, <2>1, FairNow DEF D
  <2>3. call'[f].pc = "idle"
    BY <1>7, <1>18, IdleIs
  <2> QED
    BY <1>14, <2>2, <2>3 DEF HoursInv
<1>19. CASE todo # {a}
  <2>1. call'[f] = [call[f] EXCEPT !.todo = todo \ {a}]
    BY <1>7, <1>19
  <2>2. "todo" \in DOMAIN call[f]
    BY <1>2 DEF HoursInv
  <2>3. call'[f].todo = todo \ {a}
    BY <2>1, <2>2
  <2>4. call'[f].pc = "allocate"
    BY <1>2, <2>1
  <2>5. "todo" \in DOMAIN call'[f]
    BY <2>1, <2>2
  <2>6. Halfway(call[f].todo, k)'
    <3>1. D = DayEntries(k) /\ D' = DayEntries(k)'
      BY DEF D
    <3>2. \A b \in todo \ {a} : b.id \in D' /\ b = Allocation(b.id, D)'
      BY <1>4, <1>13, <1>16 DEF D
    <3>3. \A g \in D' : \/ \E b \in todo \ {a} : b.id = g
                        \/ entry'[g].regular = Split(D)'[g] /\ entry'[g].over = entry'[g].total - Split(D)'[g]
      BY <1>13, <1>17
    <3> QED
      BY <2>3, <3>2, <3>3 DEF Halfway, D
  <2> QED
    BY <1>14, <2>4, <2>5, <2>6 DEF HoursInv
<1> QED
  BY <1>18, <1>19

LEMMA HoursWriting ==
  ASSUME TypeInv, NEW f \in Handlers, HoursInv(f), NEW e \in Entries, NEW set, NEW day,
         Starts(f), Stands(e), Goes(f, Writing(e, set, day)), DOMAIN set \cap {"regular", "over"} = {},
         \/ day = NoDay /\ DOMAIN set \cap {"in", "out", "total"} = {}
         \/ day = NoDay /\ "out" \in DOMAIN set /\ set["out"] = None
         \/ day # NoDay /\ day = LocalDate(IF "in" \in DOMAIN set THEN set["in"] ELSE entry[e].in)
  PROVE  HoursInv(f)'
<1> DEFINE n == Writing(e, set, day)
<1>1. n.pc = "write" /\ n.id = e /\ n.set = set /\ n.day = day
  BY IdleIs
<1>2. Goes(f, n) /\ call[f].pc = "idle"
  BY DEF Starts
<1> HIDE DEF n
<1>3. Fits(n)
  BY <1>1 DEF Fits
<1> QED
  BY <1>1, <1>2, <1>3, HoursGoes

LEMMA HoursReads ==
  ASSUME Sized, Offset = 0, TypeInv, NEW f \in Handlers, HoursInv(f), NEW e \in Entries,
         \/ ClockOutRead(f, e) \/ StartBreakRead(f, e) \/ EndBreakRead(f, e)
         \/ \E status \in {"APPROVED", "REJECTED"} : DecideRead(f, e, status)
         \/ \E in \in Hours, out \in Hours \cup {None}, break \in {0, 1} : UpdateRead(f, e, in, out, break)
  PROVE  HoursInv(f)'
<1>1. CASE ClockOutRead(f, e)
  <2> DEFINE break == entry[e].break + IF entry[e].breakAt = None THEN 0 ELSE now - entry[e].breakAt
             total == Worked(entry[e].in, now, break)
             set == [status |-> "COMPLETED", out |-> now, break |-> break, breakAt |-> None, total |-> total]
  <2>1. Goes(f, Writing(e, set, LocalDate(entry[e].in))) /\ Starts(f) /\ Stands(e)
    BY <1>1 DEF ClockOutRead, Active, Stands
  <2> HIDE DEF break, total
  <2>2. DOMAIN set \cap {"regular", "over"} = {} /\ "in" \notin DOMAIN set
    OBVIOUS
  <2>3. entry[e].in \in Nat
    BY <2>1, HoursAre DEF TypeInv, Sound, Row, Stands
  <2>4. LocalDate(entry[e].in) # NoDay
    BY <2>3, DateIsDay DEF NoDay
  <2> HIDE DEF set
  <2> QED
    BY <2>1, <2>2, <2>4, HoursWriting
<1>2. CASE StartBreakRead(f, e) \/ EndBreakRead(f, e)
  <2> DEFINE starts == [breakAt |-> now]
             b == entry[e].break + now - entry[e].breakAt
             ends == [break |-> b, breakAt |-> None]
  <2>1. /\ Starts(f) /\ Stands(e)
        /\ Goes(f, Writing(e, starts, NoDay)) \/ Goes(f, Writing(e, ends, NoDay))
    BY <1>2 DEF StartBreakRead, EndBreakRead, Active, Stands
  <2> HIDE DEF b
  <2>2. /\ DOMAIN starts \cap {"regular", "over"} = {} /\ DOMAIN starts \cap {"in", "out", "total"} = {}
        /\ DOMAIN ends \cap {"regular", "over"} = {} /\ DOMAIN ends \cap {"in", "out", "total"} = {}
    OBVIOUS
  <2> HIDE DEF starts, ends
  <2> QED
    BY <2>1, <2>2, HoursWriting
<1>3. ASSUME NEW status \in {"APPROVED", "REJECTED"}, DecideRead(f, e, status) PROVE HoursInv(f)'
  <2> DEFINE set == [status |-> status]
  <2>1. Goes(f, Writing(e, set, NoDay)) /\ Starts(f) /\ Stands(e)
    BY <1>3 DEF DecideRead, Stands
  <2>2. DOMAIN set \cap {"regular", "over"} = {} /\ DOMAIN set \cap {"in", "out", "total"} = {}
    OBVIOUS
  <2> HIDE DEF set
  <2> QED
    BY <2>1, <2>2, HoursWriting
<1>4. ASSUME NEW in \in Hours, NEW out \in Hours \cup {None}, NEW break \in {0, 1},
             UpdateRead(f, e, in, out, break)
      PROVE  HoursInv(f)'
  <2> DEFINE total == IF out = None THEN entry[e].total ELSE Worked(in, out, break)
             set == [in |-> in, out |-> out, break |-> break, total |-> total]
             day == IF out = None THEN NoDay ELSE LocalDate(in)
  <2>1. Goes(f, Writing(e, set, day)) /\ Starts(f) /\ Stands(e)
    BY <1>4 DEF UpdateRead
  <2> HIDE DEF total
  <2>2. /\ DOMAIN set \cap {"regular", "over"} = {} /\ "in" \in DOMAIN set /\ set["in"] = in
        /\ "out" \in DOMAIN set /\ set["out"] = out
    OBVIOUS
  <2>3. LocalDate(in) # NoDay
    <3>1. in \in Nat
      BY HoursAre
    <3> QED
      BY <3>1, DateIsDay DEF NoDay
  <2>4. \/ day = NoDay /\ set["out"] = None
        \/ day # NoDay /\ day = LocalDate(IF "in" \in DOMAIN set THEN set["in"] ELSE entry[e].in)
    BY <2>2, <2>3
  <2> HIDE DEF set, day
  <2> QED
    BY <2>1, <2>2, <2>4, HoursWriting
<1> QED
  BY <1>1, <1>2, <1>3, <1>4

(* No entry that has ended comes with a clock-in, or changes with a removal.*)
LEMMA HoursRows ==
  ASSUME Sized, TypeInv, TypeInv', NEW f \in Handlers, HoursInv(f), NEW e \in Entries,
         ClockInCreate(f, e) \/ RemoveEntry(f, e)
  PROVE  HoursInv(f)'
<1> DEFINE new == [NoEntry EXCEPT !.status = "ACTIVE", !.in = now]
<1>1. new.out = None /\ NoEntry.out = None
  BY DEF NoEntry
<1>2. /\ entry'[e].out = None /\ \A g \in Entries \ {e} : entry'[g] = entry[g]
      /\ deaths' = deaths /\ call'[f].pc = "idle"
  BY <1>1, IdleIs DEF ClockInCreate, RemoveEntry, Starts, TypeInv
<1> SUFFICES ASSUME deaths = 0 PROVE HoursInv(f)'
  BY <1>2 DEF HoursInv
<1>3. \A d \in Int : Fair(d)
  BY DEF ClockInCreate, RemoveEntry, Starts, HoursInv
<1>4. ASSUME NEW d \in Int PROVE Fair(d)'
  <2>1. DayEntries(d)' \subseteq DayEntries(d)
    BY <1>2 DEF DayEntries, Stands
  <2>2. \A g \in DayEntries(d)' : entry'[g] = entry[g]
    BY <1>2 DEF DayEntries
  <2> QED
    BY <1>3, <2>1, <2>2, FairKept
<1> QED
  BY <1>2, <1>4 DEF HoursInv

LEMMA HoursInit == ASSUME Sized, NEW f \in Handlers, Init PROVE HoursInv(f)
<1>1. \A d : DayEntries(d) = {}
  BY DEF Init, DayEntries, NoEntry
<1>2. \A d : Fair(d)
  BY <1>1, SumEmpty DEF Fair, RegularOf, Sized
<1>3. call[f].pc = "idle"
  BY IdleIs DEF Init
<1> QED
  BY <1>2, <1>3 DEF HoursInv

LEMMA HoursStep ==
  ASSUME Sized, Offset = 0, TypeInv, TypeInv', NEW f \in Handlers, \A h \in Handlers : h = f,
         HoursInv(f), [Next]_vars
  PROVE  HoursInv(f)'
<1>1. CASE UNCHANGED vars \/ Tick
  <2>1. entry' = entry /\ call' = call /\ deaths' = deaths
    BY <1>1 DEF vars, Tick
  <2>2. \A d : Fair(d)' <=> Fair(d)
    BY <2>1 DEF Fair, DayEntries, Stands, RegularOf
  <2>3. Fits(call[f])' <=> Fits(call[f])
    BY <2>1 DEF Fits, Stands
  <2>4. \A d : Halfway(call[f].todo, d)' <=> Halfway(call[f].todo, d)
    BY <2>1, SameTimes DEF Halfway, DayEntries
  <2> QED
    BY <2>1, <2>2, <2>3, <2>4 DEF HoursInv
<1>2. CASE ClockInRead(f)
  <2> DEFINE n == [Idle EXCEPT !.pc = "create"]
  <2>1. Goes(f, n) /\ n.pc = "create" /\ call[f].pc = "idle"
    BY <1>2, IdleIs DEF ClockInRead, Starts
  <2> HIDE DEF n
  <2> QED
    BY <2>1, HoursGoes
<1>3. CASE Write(f)
  BY <1>3, HoursWrite
<1>4. CASE RecalcRead(f)
  BY <1>4, HoursRecalc
<1>5. CASE Allocate(f)
  BY <1>5, HoursAllocate
<1>6. CASE Abort(f)
  <2>1. deaths' # 0
    BY <1>6 DEF Abort, TypeInv, Sized
  <2> QED
    BY <2>1 DEF HoursInv
<1>7. ASSUME NEW e \in Entries, ClockInCreate(f, e) \/ RemoveEntry(f, e) PROVE HoursInv(f)'
  BY <1>7, HoursRows
<1>8. ASSUME NEW e \in Entries,
             \/ ClockOutRead(f, e) \/ StartBreakRead(f, e) \/ EndBreakRead(f, e)
             \/ \E status \in {"APPROVED", "REJECTED"} : DecideRead(f, e, status)
             \/ \E in \in Hours, out \in Hours \cup {None}, break \in {0, 1} :
                  UpdateRead(f, e, in, out, break)
      PROVE  HoursInv(f)'
  BY <1>8, HoursReads
<1>9. ASSUME Handle(f) PROVE HoursInv(f)'
  BY <1>2, <1>3, <1>4, <1>5, <1>6, <1>7, <1>8, <1>9 DEF Handle
<1> QED
  BY <1>1, <1>9 DEF Next

(* The overtime of a timesheet is at least the daily one and, in one week,  *)
(* at least what is past the weekly threshold.                             *)
LEMMA OvertimeIs ==
  ASSUME Sized, TypeInv, NEW S \in SUBSET Entries, \A e \in S : Stands(e),
         NEW counted, counted = {e \in S : Stands(e) /\ entry[e].out # None}
  PROVE  /\ Timesheet(S).total = Total(counted) /\ Total(counted) \in Int
         /\ RegularOf(counted) \in Int /\ Timesheet(S).overtime \in Int
         /\ Timesheet(S).overtime >= Total(counted) - RegularOf(counted)
         /\ \A w : (\A e \in counted : WeekOf(e) = w)
                     => Timesheet(S).overtime >= Total(counted) - Weekly \/ counted = {}
<1> DEFINE weeks == {WeekOf(e) : e \in counted}
           Past(C) == Larger(0, Total(C) - Weekly)
           Of(w) == {e \in counted : WeekOf(e) = w}
           excess == [w \in weeks |-> Past(Of(w))]
           past == SumFunction(excess)
<1>1. counted \subseteq Entries /\ IsFiniteSet(counted)
  BY FS_Subset DEF Sized
<1>2. \A e \in counted : entry[e].total \in Nat /\ entry[e].regular \in Nat
  BY DEF TypeInv, Row, Sound
<1>3. \A C \in SUBSET counted : Total(C) \in Int /\ Past(C) \in Nat
  <2> SUFFICES ASSUME NEW C \in SUBSET counted PROVE Total(C) \in Int /\ Past(C) \in Nat
    OBVIOUS
  <2>1. Total(C) \in Int
    BY <1>1, <1>2, TotalType
  <2> QED
    BY <2>1 DEF Larger, Sized
<1>4. RegularOf(counted) \in Int
  <2> DEFINE F == [e \in Entries |-> entry[e].regular]
  <2>1. \A e \in counted : F[e] \in Int
    BY <1>1, <1>2
  <2> HIDE DEF F
  <2>2. SumFunctionOnSet(F, counted) \in Int
    BY <1>1, <2>1, SumType
  <2> QED
    BY <2>2 DEF RegularOf, F
<1>5. Timesheet(S).total = Total(counted)
  BY DEF Timesheet
<1>6. Timesheet(S).overtime = Larger(Total(counted) - RegularOf(counted), past)
  BY DEF Timesheet, Overtime
<1>7. IsFiniteSet(weeks)
  <2> DEFINE W == [e \in counted |-> WeekOf(e)]
  <2>1. W \in Surjection(counted, weeks)
    BY DEF Surjection
  <2> HIDE DEF W, weeks
  <2> QED
    BY <1>1, <2>1, FS_Surjection
<1>8. DOMAIN excess = weeks /\ \A w \in weeks : excess[w] \in Nat /\ excess[w] = Past(Of(w))
  BY <1>3
<1>9. past = SumFunctionOnSet(excess, weeks)
  BY <1>8 DEF SumFunction
<1>10. past \in Int
  <2> HIDE DEF excess, weeks, past, Past, Of
  <2>1. \A w \in weeks : excess[w] \in Int
    BY <1>8
  <2> QED
    BY <1>7, <1>9, <2>1, SumType
<1>11. ASSUME NEW w, \A e \in counted : WeekOf(e) = w, counted # {}
       PROVE  past = Past(counted)
  <2>1. weeks = {w} /\ Of(w) = counted
    BY <1>11
  <2>2. excess[w] = Past(counted) /\ Past(counted) \in Nat
    BY <1>3, <1>8, <2>1
  <2> HIDE DEF excess, weeks, past, Past, Of
  <2>3. \A v \in weeks : excess[v] \in Int
    BY <1>8
  <2>4. SumFunctionOnSet(excess, weeks) = excess[w] + SumFunctionOnSet(excess, weeks \ {w})
    BY <1>7, <2>1, <2>3, SumAdd
  <2>5. weeks \ {w} = {}
    BY <2>1
  <2> QED
    BY <1>9, <2>2, <2>4, <2>5, SumEmpty
<1> HIDE DEF past, weeks, excess
<1>12. Timesheet(S).overtime \in Int /\ Timesheet(S).overtime >= Total(counted) - RegularOf(counted)
       /\ Timesheet(S).overtime >= past
  BY <1>3, <1>4, <1>6, <1>10 DEF Larger
<1>13. Past(counted) >= Total(counted) - Weekly /\ Past(counted) \in Int
  BY <1>3 DEF Larger, Sized
<1>14. ASSUME NEW w, \A e \in counted : WeekOf(e) = w, counted # {}
       PROVE  Timesheet(S).overtime >= Total(counted) - Weekly
  <2>1. past = Past(counted)
    BY <1>11, <1>14
  <2>2. Total(counted) \in Int /\ Weekly \in Int
    BY <1>3 DEF Sized
  <2> HIDE DEF Past
  <2> QED
    BY <1>12, <1>13, <2>1, <2>2
<1> QED
  BY <1>3, <1>4, <1>5, <1>12, <1>14

LEMMA FairWhenQuiet ==
  ASSUME NEW f \in Handlers, HoursInv(f), Quiet, NEW d \in Int
  PROVE  Fair(d)
  BY DEF HoursInv, Quiet

LEMMA AllocatedNow ==
  ASSUME Sized, Offset = 0, TypeInv, NEW f \in Handlers, HoursInv(f)
  PROVE  Allocated
<1> SUFFICES ASSUME Quiet, NEW e \in Entries, entry[e].out # None
             PROVE  entry[e].regular + entry[e].over = entry[e].total
  BY DEF Allocated
<1> DEFINE d == LocalDate(entry[e].in)
<1>1. Stands(e) /\ entry[e].in \in Int
  BY HoursAre DEF TypeInv, Sound, Row, Stands
<1>2. d \in Int
  BY <1>1, LocalDateType
<1>3. e \in DayEntries(d)
  <2> HIDE DEF d
  <2>1. entry[e].in \in (d * DayHours)..((d + 1) * DayHours - 1)
    BY <1>1, <1>2, DayOf DEF d
  <2> QED
    BY <1>1, <2>1 DEF DayEntries
<1>4. Fair(d)
  BY <1>2, FairWhenQuiet
<1> QED
  BY <1>3, <1>4 DEF Fair

LEMMA PaidNow ==
  ASSUME Sized, Offset = 0, TypeInv, NEW f \in Handlers, HoursInv(f)
  PROVE  PaidWithinThresholds
<1> DEFINE Paid(S) == Timesheet(S).total - Timesheet(S).overtime
           Ended(S) == {g \in S : Stands(g) /\ entry[g].out # None}
           Day(e)  == {g \in Entries : Stands(g) /\ LocalDate(entry[g].in) = LocalDate(entry[e].in)}
           Week(e) == {g \in Entries : Stands(g) /\ WeekOf(g) = WeekOf(e)}
<1> SUFFICES ASSUME Quiet, NEW e \in Entries, Stands(e)
             PROVE  Paid(Day(e)) <= Daily /\ Paid(Week(e)) <= Weekly
  BY DEF PaidWithinThresholds
<1>1. \A g \in Entries : Stands(g) => entry[g].in \in Int
  BY HoursAre DEF TypeInv, Sound, Row, Stands
<1>2. Paid(Day(e)) <= Daily
  <2> DEFINE d == LocalDate(entry[e].in)
             S == Day(e)
             C == Ended(S)
  <2>1. d \in Int
    BY <1>1, LocalDateType
  <2>2. C = DayEntries(d)
    <3>1. \A g \in Entries : Stands(g) =>
            (entry[g].in \in (d * DayHours)..((d + 1) * DayHours - 1) <=> LocalDate(entry[g].in) = d)
      <4> HIDE DEF d
      <4> QED
        BY <1>1, <2>1, DayOf
    <3> QED
      BY <3>1 DEF DayEntries
  <2>3. RegularOf(C) <= Daily
    BY <2>1, <2>2, FairWhenQuiet DEF Fair
  <2>4. S \in SUBSET Entries /\ \A g \in S : Stands(g)
    OBVIOUS
  <2> HIDE DEF S
  <2>5. /\ Timesheet(S).total = Total(C) /\ Total(C) \in Int /\ RegularOf(C) \in Int
        /\ Timesheet(S).overtime \in Int /\ Timesheet(S).overtime >= Total(C) - RegularOf(C)
    BY <2>4, OvertimeIs
  <2>6. Paid(S) <= Daily
    <3> HIDE DEF C
    <3> QED
      BY <2>3, <2>5 DEF Sized
  <2> QED
    BY <2>6 DEF S
<1>3. Paid(Week(e)) <= Weekly
  <2> DEFINE S == Week(e)
             C == Ended(S)
  <2>1. S \in SUBSET Entries /\ (\A g \in S : Stands(g)) /\ \A g \in C : WeekOf(g) = WeekOf(e)
    OBVIOUS
  <2> HIDE DEF S
  <2>2. /\ Timesheet(S).total = Total(C) /\ Total(C) \in Int /\ RegularOf(C) \in Int
        /\ Timesheet(S).overtime \in Int /\ Timesheet(S).overtime >= Total(C) - RegularOf(C)
        /\ Timesheet(S).overtime >= Total(C) - Weekly \/ C = {}
    BY <2>1, OvertimeIs
  <2>3. C = {} => Total(C) = 0 /\ RegularOf(C) = 0
    BY SumEmpty DEF Total, RegularOf
  <2>4. Paid(S) <= Weekly
    <3> HIDE DEF C
    <3>1. Weekly \in Nat
      BY DEF Sized
    <3>2. CASE C = {}
      BY <2>2, <2>3, <3>1, <3>2
    <3>3. CASE C # {}
      BY <2>2, <3>1, <3>3
    <3> QED
      BY <3>2, <3>3
  <2> QED
    BY <2>4 DEF S
<1> QED
  BY <1>2, <1>3

(* One handler at a time, in UTC, the hours of an entry that has ended are *)
(* split into regular and overtime (recalculateDailyOvertime).             *)
THEOREM HoursAllocated ==
  ASSUME Sized, Offset = 0, NEW f \in Handlers, \A h \in Handlers : h = f
  PROVE  Spec => []Allocated
<1>1. TypeInv /\ HoursInv(f) => Allocated
  BY AllocatedNow
<1> QED
  BY <1>1, TypeInit, TypeStep, HoursInit, HoursStep, PTL DEF Spec

(* One handler at a time, in UTC, no day and no week is paid beyond its    *)
(* threshold at the regular rate, whatever was edited or removed           *)
(* (timesheet, recalculateDailyOvertime).                                  *)
THEOREM HoursPaid ==
  ASSUME Sized, Offset = 0, NEW f \in Handlers, \A h \in Handlers : h = f
  PROVE  Spec => []PaidWithinThresholds
<1>1. TypeInv /\ HoursInv(f) => PaidWithinThresholds
  BY PaidNow
<1> QED
  BY <1>1, TypeInit, TypeStep, HoursInit, HoursStep, PTL DEF Spec

(* However the handlers of a user overlap, die or are repeated, rows keep  *)
(* the types of their columns.                                             *)
THEOREM RowsKeepTypes == ASSUME Sized PROVE Spec => []TypeOK
<1>1. TypeInv => TypeOK
  BY DEF TypeInv, TypeOK, Flight, Settable
<1> QED
  BY <1>1, TypeInit, TypeStep, PTL DEF Spec

=============================================================================
