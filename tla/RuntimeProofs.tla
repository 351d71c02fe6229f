--------------------------- MODULE RuntimeProofs ----------------------------
(***************************************************************************)
(* Proofs about the runtime of the generated headers: com_ptr, for any        *)
(* variables and objects, and unique_any_t, for any owners and handles.       *)
(*                                                                           *)
(* That counts are owners between two operations is not inductive: in the     *)
(* middle of an operation a reference has left its slot and is not released   *)
(* yet, or is in a slot and not counted, and releasing one may destroy        *)
(* objects whose members are released in turn. The invariant says what each   *)
(* sequence of steps still to be taken accounts for.                          *)
(***************************************************************************)
EXTENDS MCRuntime, FiniteSetTheorems, SequenceTheorems, TLAPS

\* The steps that an operation is made of.
Steps ==
    ({"clear", "addref"} \X Slot) \cup ({"set", "release", "take"} \X Slot \X (Slot \cup {Null}))

\* How many slots refer to object o in f.
RefsOf(f, o) == Cardinality({s \in Slot : f[s] = o})
One(o, x) == IF o = x THEN 1 ELSE 0

\* Every reference has an owner: a slot, the program, the Release that is about
\* to give up one to x, and the slot that is about to be given one to g.
Balanced(f, c, r, x, g) ==
    \A o \in Object : c[o] = RefsOf(f, o) + r[o] + One(o, x) + One(o, g)

\* What slot p does when it has given up its reference: nothing, take the one to g,
\* count one to an object of R that it takes, or take that of another slot of R.
Behind(b, p, g, R) ==
    \/ b = <<>> /\ g = Null
    \/ p \in R /\ g \in Object /\ b = <<<<"set", p, g>>>>
    \/ /\ p \in R /\ g = Null
       /\ \E o \in (R \cap Object) \cup {Null} : b = <<<<"set", p, o>>, <<"addref", p>>>>
    \/ p \in R /\ g = Null /\ \E q \in R \ {p} : b = <<<<"take", p, q>>>>

\* The objects of R have a reference that is not given up meanwhile.
Supported(f, r, R, p, g) ==
    \A o \in R \cap Object : r[o] > 0 \/ o = g \/ \E t \in R \ {p} : f[t] = o

\* The slots that are gone, or are to be given something, are those of Z or empty.
Given(f, l, b, p, Z) ==
    \A s \in Slot : f[s] # Null /\ (s \notin l \/ (s = p /\ b # <<>>)) => s \in Z

\* The slots of Z are cleared, and then come the steps b.
Cascade(rest, b, Z) ==
    \E c \in Seq({"clear"} \X Slot) : rest = c \o b /\ Z = {c[i][2] : i \in 1..Len(c)}

\* The step of a cascade that comes before the rest of it.
Doing(f, l, c, r, st, rest, b, p, g, R, Z) ==
    \/ st = rest /\ Balanced(f, c, r, Null, g) /\ Given(f, l, b, p, Z)
    \/ \E z \in Slot \ (R \ {p}) :
          /\ f[z] # Null /\ st = <<<<"set", z, Null>>>> \o (<<<<"release", f[z], z>>>> \o rest)
          /\ Balanced(f, c, r, Null, g) /\ Given(f, l, b, p, Z \cup {z})
    \/ \E x \in Object, z \in Slot \ (R \ {p}) :
          /\ st = <<<<"release", x, z>>>> \o rest
          /\ Balanced(f, c, r, x, g) /\ (f[z] = Null \/ g = Null) /\ Given(f, l, b, p, Z)

\* A reference is given up, with those that go with it, while the slots R stay.
Cascading(f, l, c, r, st) ==
    \E p \in Slot \cup {Null}, g \in Object \cup {Null}, R \in SUBSET l, Z \in SUBSET Slot,
       rest \in Seq(Steps), b \in Seq(Steps) :
       /\ Cascade(rest, b, Z) /\ Behind(b, p, g, R)
       /\ Supported(f, r, R, p, g) /\ Z \cap (R \ {p}) = {}
       /\ Doing(f, l, c, r, st, rest, b, p, g, R, Z)

\* A slot has taken a reference that is not counted yet.
Counting(f, l, c, r, st) ==
    \E p \in Slot :
       /\ st = <<<<"addref", p>>>>
       /\ \A o \in Object : c[o] + One(f[p], o) = RefsOf(f, o) + r[o]
       /\ f[p] \in l \cup {Null}
       /\ \A s \in Slot \ l : f[s] = Null

\* The objects that have a reference are those that are alive.
Lively(l, c) == \A o \in Object : o \in l <=> c[o] > 0

\* What is known of the slots, the objects, the counts, the program's references and
\* the steps, unless a slot was assigned from inside of what it alone keeps.
Sound(f, l, c, r, st) == Lively(l, c) /\ (Counting(f, l, c, r, st) \/ Cascading(f, l, c, r, st))

\* The inductive invariant.
IInv ==
    /\ TypeOK /\ fromInside \in BOOLEAN
    /\ fromInside => steps # <<>>
    /\ ~fromInside => Sound(m_ptr, live, count, raw, steps)

-----------------------------------------------------------------------------
(* Sequences of steps *)

\* What a step in front of others makes.
LEMMA Cons ==
    ASSUME NEW S, NEW x \in S, NEW t \in Seq(S)
    PROVE  /\ <<x>> \o t \in Seq(S) /\ <<x>> \o t # <<>>
           /\ Head(<<x>> \o t) = x /\ Tail(<<x>> \o t) = t
<1>1. <<x>> \in Seq(S) /\ Len(<<x>>) = 1 /\ <<x>>[1] = x OBVIOUS
<1>2. /\ <<x>> \o t \in Seq(S) /\ Len(<<x>> \o t) = 1 + Len(t)
      /\ \A i \in 1..(1 + Len(t)) : (<<x>> \o t)[i] = IF i <= 1 THEN <<x>>[i] ELSE t[i - 1]
  BY <1>1
<1>3. Len(t) \in Nat OBVIOUS
<1>4. <<x>> \o t # <<>> BY <1>2, <1>3
<1>5. Head(<<x>> \o t) = x BY <1>1, <1>2, <1>3, <1>4
<1>6. /\ Tail(<<x>> \o t) \in Seq(S) /\ Len(Tail(<<x>> \o t)) = Len(t)
      /\ \A i \in 1..Len(t) : Tail(<<x>> \o t)[i] = (<<x>> \o t)[i + 1]
  BY <1>2, <1>3, <1>4
<1>7. \A i \in 1..Len(t) : Tail(<<x>> \o t)[i] = t[i] BY <1>2, <1>3, <1>6
<1>8. Tail(<<x>> \o t) = t BY <1>6, <1>7, SeqEqual
<1> QED BY <1>2, <1>4, <1>5, <1>8

LEMMA Split ==
    ASSUME NEW S, NEW s \in Seq(S), s # <<>>
    PROVE Head(s) \in S /\ Tail(s) \in Seq(S) /\ s = <<Head(s)>> \o Tail(s)
<1>1. Len(s) \in Nat /\ Len(s) > 0 BY EmptySeq
<1>2. /\ Head(s) = s[1] /\ s[1] \in S /\ Tail(s) \in Seq(S) /\ Len(Tail(s)) = Len(s) - 1
      /\ \A i \in 1..(Len(s) - 1) : Tail(s)[i] = s[i + 1]
  BY <1>1
<1>3. <<Head(s)>> \in Seq(S) /\ Len(<<Head(s)>>) = 1 /\ <<Head(s)>>[1] = s[1] BY <1>2
<1>4. /\ <<Head(s)>> \o Tail(s) \in Seq(S) /\ Len(<<Head(s)>> \o Tail(s)) = Len(s)
      /\ \A i \in 1..Len(s) :
            (<<Head(s)>> \o Tail(s))[i] = IF i <= 1 THEN <<Head(s)>>[i] ELSE Tail(s)[i - 1]
  BY <1>1, <1>2, <1>3
<1>5. \A i \in 1..Len(s) : (<<Head(s)>> \o Tail(s))[i] = s[i] BY <1>1, <1>2, <1>3, <1>4
<1>6. s = <<Head(s)>> \o Tail(s) BY <1>4, <1>5, SeqEqual
<1> QED BY <1>2, <1>6

LEMMA Assoc ==
    ASSUME NEW S, NEW x \in S, NEW c \in Seq(S), NEW b \in Seq(S)
    PROVE  <<x>> \o (c \o b) = (<<x>> \o c) \o b
<1>1. <<x>> \in Seq(S) OBVIOUS
<1> QED BY <1>1, ConcatAssociative

LEMMA ConsTwo ==
    ASSUME NEW x \in Steps, NEW y \in Steps, NEW t \in Seq(Steps)
    PROVE  <<x, y>> \o t = <<x>> \o (<<y>> \o t)
<1> DEFINE S == Steps
<1>1. /\ <<x>> \in Seq(S) /\ Len(<<x>>) = 1 /\ <<x>>[1] = x
      /\ <<y>> \in Seq(S) /\ Len(<<y>>) = 1 /\ <<y>>[1] = y
      /\ <<x, y>> \in Seq(S) /\ Len(<<x, y>>) = 2 /\ <<x, y>>[1] = x /\ <<x, y>>[2] = y
  OBVIOUS
<1>2. /\ <<x>> \o <<y>> \in Seq(S) /\ Len(<<x>> \o <<y>>) = 2
      /\ (<<x>> \o <<y>>)[1] = x /\ (<<x>> \o <<y>>)[2] = y
  BY <1>1, ConcatProperties
<1>3. \A i \in 1..2 : <<x, y>>[i] = (<<x>> \o <<y>>)[i] BY <1>1, <1>2
<1>4. <<x, y>> = <<x>> \o <<y>> BY <1>1, <1>2, <1>3, SeqEqual
<1> QED BY <1>1, <1>4, Assoc

LEMMA ClearStep == ASSUME NEW z \in Slot PROVE <<"clear", z>> \in Steps /\ <<"clear", z>> \in {"clear"} \X Slot
BY DEF Steps

LEMMA CascadeNone == ASSUME NEW b \in Seq(Steps) PROVE Cascade(b, b, {})
<1>1. <<>> \in Seq({"clear"} \X Slot) /\ Len(<<>>) = 0 OBVIOUS
<1>2. b = <<>> \o b BY ConcatEmptySeq
<1>3. {} = {<<>>[i][2] : i \in 1..0} OBVIOUS
<1> QED BY <1>1, <1>2, <1>3 DEF Cascade

LEMMA CascadePush ==
    ASSUME NEW rest, NEW b \in Seq(Steps), NEW Z, Cascade(rest, b, Z), NEW z \in Slot
    PROVE  Cascade(<<<<"clear", z>>>> \o rest, b, Z \cup {z})
<1> DEFINE x == <<"clear", z>>
           C == {"clear"} \X Slot
<1>1. PICK c \in Seq(C) : rest = c \o b /\ Z = {c[i][2] : i \in 1..Len(c)} BY DEF Cascade
<1>2. x \in C /\ x \in Steps /\ C \subseteq Steps BY DEF Steps
<1>3. c \in Seq(Steps) BY <1>2, SeqDef
<1>4. <<x>> \o rest = (<<x>> \o c) \o b BY <1>1, <1>2, <1>3, Assoc
<1>5. Len(c) \in Nat BY <1>1
<1>6. /\ <<x>> \o c \in Seq(C) /\ Len(<<x>> \o c) = 1 + Len(c)
      /\ \A i \in 1..(1 + Len(c)) : (<<x>> \o c)[i] = IF i <= 1 THEN x ELSE c[i - 1]
  <2>1. x \in C BY <1>2
  <2> HIDE DEF x, C
  <2>2. <<x>> \in Seq(C) /\ Len(<<x>>) = 1 /\ <<x>>[1] = x BY <2>1
  <2> QED BY <1>5, <2>2
<1>7. x[2] = z OBVIOUS
<1> HIDE DEF x, C
<1>8. {(<<x>> \o c)[i][2] : i \in 1..Len(<<x>> \o c)} = Z \cup {z}
  <2>1. ASSUME NEW i \in 1..(1 + Len(c)) PROVE (<<x>> \o c)[i][2] \in Z \cup {z}
    <3>1. CASE i = 1 BY <1>5, <1>6, <1>7, <3>1
    <3>2. CASE i # 1
      <4>1. i - 1 \in 1..Len(c) /\ ~(i <= 1) BY <1>5, <2>1, <3>2
      <4> QED BY <1>1, <1>6, <2>1, <4>1
    <3> QED BY <3>1, <3>2
  <2>2. ASSUME NEW y \in Z PROVE \E i \in 1..(1 + Len(c)) : (<<x>> \o c)[i][2] = y
    <3>1. PICK i \in 1..Len(c) : c[i][2] = y BY <1>1, <2>2
    <3>2. i + 1 \in 1..(1 + Len(c)) /\ ~(i + 1 <= 1) /\ (i + 1) - 1 = i BY <1>5
    <3> QED BY <1>6, <3>1, <3>2
  <2>3. 1 \in 1..(1 + Len(c)) /\ (<<x>> \o c)[1][2] = z BY <1>5, <1>6, <1>7
  <2> QED BY <1>6, <2>1, <2>2, <2>3
<1> QED BY <1>4, <1>6, <1>8 DEF Cascade, x, C

\* A slot is to be cleared next.
Clears(rest, b, Z, z, t, Y) == rest = <<<<"clear", z>>>> \o t /\ Z = Y \cup {z} /\ Cascade(t, b, Y)

LEMMA CascadePop ==
    ASSUME NEW rest, NEW b \in Seq(Steps), NEW Z, Cascade(rest, b, Z), ~(rest = b /\ Z = {})
    PROVE  \E z \in Slot, t \in Seq(Steps), Y \in SUBSET Slot : Clears(rest, b, Z, z, t, Y)
<1> DEFINE C == {"clear"} \X Slot
<1>1. PICK c \in Seq(C) : rest = c \o b /\ Z = {c[i][2] : i \in 1..Len(c)} BY DEF Cascade
<1>2. C \subseteq Steps BY DEF Steps
<1>3. c \in Seq(Steps) BY <1>2, SeqDef
<1>4. CASE c = <<>>
  <2>1. rest = b BY <1>1, <1>4, ConcatEmptySeq
  <2>2. Len(c) = 0 BY <1>4
  <2> QED BY <1>1, <2>1, <2>2
<1>5. CASE c # <<>>
  <2>1. Head(c) \in C /\ Tail(c) \in Seq(C) /\ c = <<Head(c)>> \o Tail(c) BY <1>1, <1>5, Split
  <2>2. PICK z \in Slot : Head(c) = <<"clear", z>> BY <2>1
  <2>3. Tail(c) \in Seq(Steps) /\ Head(c) \in Steps BY <1>2, <2>1, SeqDef
  <2>4. rest = <<Head(c)>> \o (Tail(c) \o b) BY <1>1, <2>1, <2>3, Assoc
  <2>5. Tail(c) \o b \in Seq(Steps) BY <2>3
  <2> DEFINE d == Tail(c)
             Y == {d[i][2] : i \in 1..Len(d)}
  <2>6. Cascade(d \o b, b, Y) BY <2>1 DEF Cascade
  <2>7. Len(c) \in Nat /\ Len(c) > 0 /\ Len(d) = Len(c) - 1 BY <1>1, <1>5, EmptySeq
  <2>8. \A i \in 1..(Len(c) - 1) : d[i] = c[i + 1] BY <1>1, <1>5
  <2>9. c[1] = <<"clear", z>> /\ c[1][2] = z BY <1>1, <1>5, <2>2
  <2>10. \A i \in 1..Len(d) : d[i][2] \in Slot
    <3>1. \A i \in 1..Len(d) : d[i] \in C BY <2>1
    <3> QED BY <3>1
  <2> HIDE DEF d
  <2>11. Z = Y \cup {z}
    <3>1. ASSUME NEW i \in 1..Len(c) PROVE c[i][2] \in Y \cup {z}
      <4>1. CASE i = 1 BY <2>9, <4>1
      <4>2. CASE i # 1
        <5>1. i - 1 \in 1..Len(d) /\ d[i - 1] = c[i] BY <2>7, <2>8, <3>1, <4>2
        <5> QED BY <5>1
      <4> QED BY <4>1, <4>2
    <3>2. ASSUME NEW i \in 1..Len(d) PROVE d[i][2] \in Z
      <4>1. i + 1 \in 1..Len(c) /\ d[i] = c[i + 1] BY <2>7, <2>8
      <4> QED BY <1>1, <4>1
    <3>3. z \in Z
      <4>1. 1 \in 1..Len(c) BY <2>7
      <4> QED BY <1>1, <2>9, <4>1
    <3>4. Z \subseteq Y \cup {z} BY <1>1, <3>1
    <3>5. Y \subseteq Z BY <3>2
    <3> HIDE DEF Y
    <3> QED BY <3>3, <3>4, <3>5
  <2>12. Y \in SUBSET Slot BY <2>10
  <2>13. Clears(rest, b, Z, z, d \o b, Y) BY <2>2, <2>4, <2>6, <2>11 DEF Clears, d
  <2>14. d \o b \in Seq(Steps) BY <2>5 DEF d
  <2> HIDE DEF Y
  <2> QED BY <2>12, <2>13, <2>14
<1> QED BY <1>4, <1>5

-----------------------------------------------------------------------------
(* Counting references *)

LEMMA SlotsFinite == IsFiniteSet(Slot)
BY SlotAssumption, FS_Union DEF Slot

LEMMA RefsNat == ASSUME NEW f, NEW o PROVE RefsOf(f, o) \in Nat /\ RefsOf(f, o) <= Cardinality(Slot)
<1>1. {s \in Slot : f[s] = o} \subseteq Slot OBVIOUS
<1> QED BY <1>1, SlotsFinite, FS_Subset, FS_CardinalityType DEF RefsOf

LEMMA SlotsNat == Cardinality(Slot) \in Nat
BY SlotsFinite, FS_CardinalityType

LEMMA OneNat == ASSUME NEW o, NEW x PROVE One(o, x) \in 0..1
BY DEF One

\* One slot is given something else.
OneDiffers(f, h, s) == \A t \in Slot \ {s} : h[t] = f[t]

LEMMA RefsUpdate ==
    ASSUME NEW f, NEW h, NEW s \in Slot, OneDiffers(f, h, s), NEW o
    PROVE  RefsOf(h, o) + One(f[s], o) = RefsOf(f, o) + One(h[s], o)
<1> DEFINE A == {t \in Slot : f[t] = o}
           B == {t \in Slot : h[t] = o}
           K == {t \in Slot \ {s} : f[t] = o}
<1>1. \A t \in Slot \ {s} : h[t] = f[t] BY DEF OneDiffers
<1>2. IsFiniteSet(K) /\ s \notin K
  <2>1. K \subseteq Slot OBVIOUS
  <2> QED BY <2>1, SlotsFinite, FS_Subset
<1>3. IsFiniteSet(K \cup {s}) /\ Cardinality(K \cup {s}) = Cardinality(K) + 1 /\ Cardinality(K) \in Nat
  BY <1>2, FS_AddElement, FS_CardinalityType
<1>4. A = IF f[s] = o THEN K \cup {s} ELSE K OBVIOUS
<1>5. B = IF h[s] = o THEN K \cup {s} ELSE K BY <1>1
<1> HIDE DEF A, B, K
<1>6. Cardinality(A) = Cardinality(K) + One(f[s], o) BY <1>3, <1>4 DEF One
<1>7. Cardinality(B) = Cardinality(K) + One(h[s], o) BY <1>3, <1>5 DEF One
<1>8. RefsOf(f, o) = Cardinality(A) /\ RefsOf(h, o) = Cardinality(B) BY DEF RefsOf, A, B
<1> QED BY <1>3, <1>6, <1>7, <1>8, OneNat

\* Two slots exchange what they have.
LEMMA RefsExchange ==
    ASSUME NEW f, DOMAIN f = Slot, NEW s \in Slot, NEW t \in Slot, NEW h, DOMAIN h = Slot,
           h[s] = f[t], h[t] = f[s], \A r \in Slot \ {s, t} : h[r] = f[r], NEW o
    PROVE  RefsOf(h, o) = RefsOf(f, o)
<1> DEFINE A == {r \in Slot : f[r] = o}
           B == {r \in Slot : h[r] = o}
           swap == [r \in A |-> IF r = s THEN t ELSE IF r = t THEN s ELSE r]
<1>1. swap \in Bijection(A, B)
  <2>1. \A r \in A : swap[r] \in B OBVIOUS
  <2>2. \A r \in B : \E q \in A : swap[q] = r
    <3>1. ASSUME NEW r \in B PROVE \E q \in A : swap[q] = r
      <4> DEFINE q == IF r = s THEN t ELSE IF r = t THEN s ELSE r
      <4>1. q \in A OBVIOUS
      <4>2. swap[q] = r OBVIOUS
      <4> QED BY <4>1, <4>2
    <3> QED BY <3>1
  <2>3. \A q, r \in A : swap[q] = swap[r] => q = r OBVIOUS
  <2>4. swap \in [A -> B] BY <2>1
  <2> HIDE DEF swap, A, B
  <2> QED BY <2>2, <2>3, <2>4 DEF Bijection, Injection, Surjection, IsInjective
<1>2. IsFiniteSet(A)
  <2>1. A \subseteq Slot OBVIOUS
  <2> QED BY <2>1, SlotsFinite, FS_Subset
<1> HIDE DEF A, B, swap
<1>3. Cardinality(A) = Cardinality(B) BY <1>1, <1>2, FS_Bijection DEF ExistsBijection
<1> QED BY <1>3 DEF RefsOf, A, B

\* An object that nobody points to, one that somebody does, and one that two do.
LEMMA RefsSome ==
    ASSUME NEW f, NEW o, RefsOf(f, o) > 0
    PROVE  \E s \in Slot : f[s] = o
<1> DEFINE A == {r \in Slot : f[r] = o}
<1>1. A # {} BY FS_EmptySet DEF RefsOf
<1> QED BY <1>1

LEMMA RefsPointed ==
    ASSUME NEW f, NEW s \in Slot
    PROVE  RefsOf(f, f[s]) > 0
<1> DEFINE A == {r \in Slot : f[r] = f[s]}
<1>1. IsFiniteSet(A) BY SlotsFinite, FS_Subset
<1>2. Cardinality(A) # 0 BY <1>1, FS_EmptySet
<1>3. Cardinality(A) \in Nat BY <1>1, FS_CardinalityType
<1> QED BY <1>2, <1>3 DEF RefsOf

LEMMA RefsTwo ==
    ASSUME NEW f, NEW o, RefsOf(f, o) > 1, NEW s \in Slot
    PROVE  \E t \in Slot \ {s} : f[t] = o
<1> DEFINE A == {r \in Slot : f[r] = o}
           B == A \ {s}
<1>1. IsFiniteSet(A) BY SlotsFinite, FS_Subset
<1>2. Cardinality(A) \in Nat /\ Cardinality(A) > 1 BY <1>1, FS_CardinalityType DEF RefsOf
<1>3. IsFiniteSet(B) /\ Cardinality(B) = IF s \in A THEN Cardinality(A) - 1 ELSE Cardinality(A)
  BY <1>1, FS_RemoveElement
<1>4. B # {}
  <2> HIDE DEF A, B
  <2> QED BY <1>2, <1>3, FS_EmptySet
<1> QED BY <1>4

\* One reference has one owner.
LEMMA RefsUnique ==
    ASSUME NEW f, NEW o, RefsOf(f, o) <= 1, NEW s \in Slot, NEW t \in Slot, f[s] = o, f[t] = o
    PROVE  s = t
<1> SUFFICES ASSUME s # t PROVE FALSE OBVIOUS
<1> DEFINE A == {r \in Slot : f[r] = o}
<1>1. IsFiniteSet(A) BY SlotsFinite, FS_Subset
<1>2. {s, t} \subseteq A OBVIOUS
<1>3. IsFiniteSet({s}) /\ Cardinality({s}) = 1 BY FS_Singleton
<1>4. Cardinality({s} \cup {t}) = 2
  <2>1. Cardinality({s} \cup {t}) = IF t \in {s} THEN Cardinality({s}) ELSE Cardinality({s}) + 1
    BY <1>3, FS_AddElement
  <2>2. t \notin {s} OBVIOUS
  <2> QED BY <1>3, <2>1, <2>2
<1>5. {s} \cup {t} \subseteq A BY <1>2
<1>6. Cardinality({s} \cup {t}) <= Cardinality(A) BY <1>1, <1>5, FS_Subset
<1>7. Cardinality(A) \in Nat BY <1>1, FS_CardinalityType
<1>8. Cardinality(A) <= 1 BY DEF RefsOf
<1> HIDE DEF A
<1> QED BY <1>4, <1>6, <1>7, <1>8

\* A slot that points elsewhere leaves fewer of them.
LEMMA RefsFewer ==
    ASSUME NEW f, NEW o, NEW s \in Slot, f[s] # o
    PROVE  RefsOf(f, o) <= Cardinality(Slot) - 1
<1>1. {r \in Slot : f[r] = o} \subseteq Slot \ {s} OBVIOUS
<1>2. IsFiniteSet(Slot \ {s}) /\ Cardinality(Slot \ {s}) = Cardinality(Slot) - 1
  BY SlotsFinite, FS_RemoveElement
<1> QED BY <1>1, <1>2, FS_Subset DEF RefsOf

-----------------------------------------------------------------------------
(* What an assignment takes away *)

\* Between two operations: every reference has an owner, and slots that are gone are empty.
Settled(f, l, c, r) ==
    /\ f \in [Slot -> Object \cup {Null}] /\ l \subseteq Slot
    /\ c \in [Object -> Nat] /\ r \in [Object -> Nat]
    /\ Lively(l, c)
    /\ \A o \in Object : c[o] = RefsOf(f, o) + r[o]
    /\ \A s \in Slot \ l : f[s] = Null

\* Who is pointed to is alive, and who is alive has an owner.
LEMMA PointedLives ==
    ASSUME NEW f, NEW l, NEW c, NEW r, Settled(f, l, c, r), NEW s \in Slot, f[s] # Null
    PROVE  f[s] \in Object /\ f[s] \in l /\ c[f[s]] > 0 /\ s \in l
<1>1. f[s] \in Object BY DEF Settled
<1>2. RefsOf(f, f[s]) > 0 /\ RefsOf(f, f[s]) \in Nat BY RefsPointed, RefsNat
<1>3. r[f[s]] \in Nat /\ c[f[s]] = RefsOf(f, f[s]) + r[f[s]] BY <1>1 DEF Settled
<1>4. c[f[s]] > 0 BY <1>2, <1>3
<1>5. f[s] \in l BY <1>1, <1>4 DEF Settled, Lively
<1>6. s \in l BY DEF Settled
<1> QED BY <1>1, <1>4, <1>5, <1>6

Idle == Settled(m_ptr, live, count, raw) /\ alive = live \cap Object

\* The program gets at nothing that is gone.
LEMMA UsableLive == ASSUME Idle PROVE Usable \subseteq live
<1>1. live \in SUBSET Slot BY DEF Idle, Settled
<1>2. {o \in Object : raw[o] > 0} \subseteq live
  <2>1. ASSUME NEW o \in Object, raw[o] > 0 PROVE o \in live
    <3>1. RefsOf(m_ptr, o) \in Nat /\ raw[o] \in Nat /\ count[o] = RefsOf(m_ptr, o) + raw[o]
      BY RefsNat DEF Idle, Settled
    <3>2. count[o] > 0 BY <2>1, <3>1
    <3> QED BY <3>2 DEF Idle, Settled, Lively
  <2> QED BY <2>1
<1>3. Reached(live) BY <1>1, <1>2 DEF Reached, Idle
<1> QED BY <1>1, <1>3 DEF Usable

\* What slot p keeps has one owner: p, or something else that p keeps.
LEMMA KeptClosed ==
    ASSUME Idle, NEW p \in Slot, NEW s \in KeptBy(p) \cup {p}, m_ptr[s] # Null, count[m_ptr[s]] = 1
    PROVE  m_ptr[s] \in KeptBy(p)
<1>1. s \in Slot BY DEF KeptBy, Slot
<1>2. m_ptr[s] \in Object BY <1>1 DEF Idle, Settled
<1>3. m_ptr[s] \in Referred(s) BY DEF Referred
<1>4. ASSUME NEW X \in SUBSET Object, Kept(p, X) PROVE m_ptr[s] \in X
  <2>1. s \in X \cup {p} BY <1>4 DEF KeptBy
  <2> QED BY <1>3, <1>4, <2>1 DEF Kept
<1> QED BY <1>2, <1>4 DEF KeptBy

LEMMA KeptOwner ==
    ASSUME Idle, NEW p \in Slot, NEW d \in KeptBy(p)
    PROVE  \E t \in KeptBy(p) \cup {p} : m_ptr[t] = d /\ count[d] = 1
<1> SUFFICES ASSUME \A t \in KeptBy(p) \cup {p} : ~(m_ptr[t] = d /\ count[d] = 1) PROVE FALSE
  OBVIOUS
<1> DEFINE X == KeptBy(p) \ {d}
<1>1. X \in SUBSET Object BY DEF KeptBy
<1>2. Kept(p, X)
  <2> SUFFICES ASSUME NEW s \in X \cup {p}, NEW o \in Referred(s), count[o] = 1 PROVE o \in X
    BY DEF Kept
  <2>1. o = m_ptr[s] /\ o # Null BY DEF Referred
  <2>2. s \in KeptBy(p) \cup {p} OBVIOUS
  <2>3. o \in KeptBy(p) BY <2>1, <2>2, KeptClosed
  <2>4. o # d BY <2>1, <2>2
  <2> QED BY <2>3, <2>4
<1>3. d \in X BY <1>1, <1>2 DEF KeptBy
<1> QED BY <1>3

LEMMA KeptAlone ==
    ASSUME Idle, NEW p \in Slot, NEW s \in Slot, m_ptr[s] \in KeptBy(p)
    PROVE  s \in KeptBy(p) \cup {p}
<1> DEFINE d == m_ptr[s]
<1>1. PICK t \in KeptBy(p) \cup {p} : m_ptr[t] = d /\ count[d] = 1 BY KeptOwner
<1>2. d \in Object /\ t \in Slot BY DEF KeptBy, Slot
<1>3. RefsOf(m_ptr, d) \in Nat /\ raw[d] \in Nat /\ count[d] = RefsOf(m_ptr, d) + raw[d]
  BY <1>2, RefsNat DEF Idle, Settled
<1>4. RefsOf(m_ptr, d) <= 1 BY <1>1, <1>3
<1> HIDE DEF d
<1>5. s = t BY <1>1, <1>2, <1>4, RefsUnique DEF d
<1> QED BY <1>5

\* The program has no reference to it.
LEMMA KeptNotRaw ==
    ASSUME Idle, NEW p \in Slot, NEW d \in KeptBy(p)
    PROVE  d \in Object /\ raw[d] = 0 /\ count[d] = 1
<1>1. PICK t \in KeptBy(p) \cup {p} : m_ptr[t] = d /\ count[d] = 1 BY KeptOwner
<1>2. d \in Object /\ t \in Slot BY DEF KeptBy, Slot
<1>3. RefsOf(m_ptr, d) \in Nat /\ raw[d] \in Nat /\ count[d] = RefsOf(m_ptr, d) + raw[d]
  BY <1>2, RefsNat DEF Idle, Settled
<1>4. RefsOf(m_ptr, d) > 0 BY <1>1, <1>2, RefsPointed
<1> QED BY <1>1, <1>2, <1>3, <1>4

\* A slot that the program can get at does not keep itself.
LEMMA KeptNotSelf == ASSUME Idle, NEW p \in Usable PROVE p \in Slot /\ p \in live /\ p \notin KeptBy(p)
<1>1. p \in Slot BY DEF Usable
<1>2. p \in live BY UsableLive
<1> SUFFICES ASSUME p \in KeptBy(p) PROVE FALSE BY <1>1, <1>2
<1> DEFINE X == Slot \ KeptBy(p)
<1>3. KeptBy(p) \subseteq Object BY DEF KeptBy
<1>4. live \cap Variable \subseteq X BY <1>3, SlotAssumption DEF Idle, Settled
<1>5. {o \in Object : raw[o] > 0} \subseteq X
  <2>1. \A o \in KeptBy(p) : raw[o] = 0 BY <1>1, KeptNotRaw
  <2> QED BY <2>1 DEF Slot
<1>6. ASSUME NEW s \in X PROVE Referred(s) \cap alive \subseteq X
  <2>1. m_ptr[s] \notin KeptBy(p) BY <1>1, KeptAlone
  <2> QED BY <2>1 DEF Referred, Idle, Slot
<1>7. Reached(X) BY <1>4, <1>5, <1>6 DEF Reached
<1>8. p \in X BY <1>7 DEF Usable
<1> QED BY <1>8

LEMMA OneLess ==
    ASSUME NEW S, IsFiniteSet(S), NEW n \in Nat, Cardinality(S) = n, NEW x \in S
    PROVE  IsFiniteSet(S \ {x}) /\ Cardinality(S \ {x}) = n - 1
BY FS_RemoveElement

\* What is not kept by p has an owner that is not kept by p either.
LEMMA Survive ==
    ASSUME Idle, NEW p \in Usable
    PROVE  Supported(m_ptr, raw, live \ KeptBy(p), p, Null)
<1> DEFINE D == KeptBy(p)
           R == live \ D
<1>1. p \in Slot /\ p \in live /\ p \notin D /\ D \subseteq Object BY KeptNotSelf DEF KeptBy
<1> SUFFICES ASSUME NEW o \in R \cap Object, raw[o] = 0, \A t \in R \ {p} : m_ptr[t] # o PROVE FALSE
  <2>2. \A o \in R \cap Object : raw[o] = 0 \/ raw[o] > 0 BY DEF Idle, Settled
  <2> QED BY <2>2 DEF Supported
<1>2. o # Null /\ count[o] > 0 /\ count[o] = RefsOf(m_ptr, o) + raw[o] /\ RefsOf(m_ptr, o) \in Nat
  BY RefsNat, SlotAssumption DEF Idle, Settled, Lively
<1>3. RefsOf(m_ptr, o) > 0 BY <1>2
<1>4. \A t \in Slot : m_ptr[t] = o => t \in D \cup {p} BY <1>2, PointedLives DEF Idle
<1>5. PICK t1 \in Slot : m_ptr[t1] = o BY <1>3, RefsSome
<1>6. t1 \in D \cup {p} BY <1>4, <1>5
<1>7. count[o] # 1
  <2>1. o \notin D OBVIOUS
  <2> HIDE DEF D
  <2> QED BY <1>1, <1>2, <1>5, <1>6, <2>1, KeptClosed DEF D
<1>8. RefsOf(m_ptr, o) > 1 BY <1>2, <1>7
<1>9. PICK t2 \in Slot \ {t1} : m_ptr[t2] = o BY <1>8, RefsTwo
<1>10. t2 \in D \cup {p} BY <1>4, <1>9
<1> DEFINE E == D \cup {p}
           T == (E \ {t1}) \ {t2}
<1>11. IsFiniteSet(D) BY <1>1, SlotAssumption, FS_Subset
<1>12. Cardinality(D) \in Nat /\ IsFiniteSet(E) /\ Cardinality(E) = Cardinality(D) + 1
  BY <1>1, <1>11, FS_AddElement, FS_CardinalityType
<1>13. IsFiniteSet(E \ {t1}) /\ Cardinality(E \ {t1}) = Cardinality(D)
  <2>1. t1 \in E BY <1>6
  <2> HIDE DEF E, D
  <2>2. Cardinality(D) + 1 \in Nat /\ (Cardinality(D) + 1) - 1 = Cardinality(D) BY <1>12
  <2> QED BY <1>12, <2>1, <2>2, OneLess
<1>14. IsFiniteSet(T) /\ Cardinality(T) = Cardinality(D) - 1
  <2>1. t2 \in E \ {t1} BY <1>9, <1>10
  <2> HIDE DEF E, D
  <2> QED BY <1>12, <1>13, <2>1, OneLess
<1> DEFINE owner == [d \in D |-> CHOOSE t \in E : m_ptr[t] = d]
<1>15. \A d \in D : owner[d] \in E /\ m_ptr[owner[d]] = d
  <2> SUFFICES ASSUME NEW d \in D PROVE owner[d] \in E /\ m_ptr[owner[d]] = d OBVIOUS
  <2>1. \E t \in E : m_ptr[t] = d BY <1>1, KeptOwner
  <2> QED BY <2>1
<1>16. owner \in Injection(D, T)
  <2>1. o \notin D OBVIOUS
  <2> HIDE DEF D
  <2>2. DOMAIN owner = D OBVIOUS
  <2>3. owner = [d \in D |-> owner[d]] OBVIOUS
  <2> HIDE DEF owner
  <2>4. \A d \in D : owner[d] \in T BY <1>5, <1>9, <1>15, <2>1
  <2>5. owner \in [D -> T] BY <2>2, <2>3, <2>4
  <2>6. \A a, b \in D : owner[a] = owner[b] => a = b BY <1>15
  <2> QED BY <2>2, <2>5, <2>6 DEF Injection, IsInjective
<1> HIDE DEF owner, T, E, D
<1>17. Cardinality(D) <= Cardinality(T) BY <1>14, <1>16, FS_Injection
<1> QED BY <1>12, <1>14, <1>17

\* Another slot that is not kept by p points to nothing that is.
LEMMA SurvivesToo ==
    ASSUME Idle, NEW p \in Usable, NEW q \in Usable, q # p, q \notin KeptBy(p), m_ptr[q] # Null
    PROVE  m_ptr[q] \in (live \ KeptBy(p)) \cap Object
<1>1. p \in Slot /\ q \in Slot BY DEF Usable
<1>2. m_ptr[q] \notin KeptBy(p) BY <1>1, KeptAlone
<1>3. m_ptr[q] \in Object /\ m_ptr[q] \in live BY <1>1, PointedLives DEF Idle
<1> QED BY <1>2, <1>3

-----------------------------------------------------------------------------
(* What comes next in a cascade *)

\* The types, without the bounds.
Typed(f, l, c, r) ==
    /\ f \in [Slot -> Object \cup {Null}] /\ l \subseteq Slot
    /\ c \in [Object -> Nat] /\ r \in [Object -> Nat]

\* What is below the step that comes next.
Below(f, r, rest, b, p, g, R, Z) ==
    /\ Cascade(rest, b, Z) /\ Behind(b, p, g, R)
    /\ Supported(f, r, R, p, g) /\ Z \cap (R \ {p}) = {}

LEMMA CascadingIntro ==
    ASSUME NEW f, NEW l, NEW c, NEW r, NEW st,
           NEW p \in Slot \cup {Null}, NEW g \in Object \cup {Null}, NEW R \in SUBSET l,
           NEW Z \in SUBSET Slot, NEW rest \in Seq(Steps), NEW b \in Seq(Steps),
           Below(f, r, rest, b, p, g, R, Z), Doing(f, l, c, r, st, rest, b, p, g, R, Z)
    PROVE  Cascading(f, l, c, r, st)
BY DEF Cascading, Below

\* The four kinds of steps that can come next.
ClearNext(f, l, c, r, st, p, g, R, b) ==
    \E Z \in SUBSET Slot, t \in Seq(Steps), z \in Slot \ (R \ {p}) :
       /\ Head(st) = <<"clear", z>> /\ Tail(st) = t
       /\ Below(f, r, t, b, p, g, R, Z)
       /\ Balanced(f, c, r, Null, g) /\ Given(f, l, b, p, Z \cup {z})

SetNext(f, l, c, r, st, p, g, R, b) ==
    \E Z \in SUBSET Slot, t \in Seq(Steps), z \in Slot \ (R \ {p}) :
       /\ Head(st) = <<"set", z, Null>> /\ Tail(st) = <<<<"release", f[z], z>>>> \o t
       /\ f[z] # Null
       /\ Below(f, r, t, b, p, g, R, Z)
       /\ Balanced(f, c, r, Null, g) /\ Given(f, l, b, p, Z \cup {z})

ReleaseNext(f, l, c, r, st, p, g, R, b) ==
    \E Z \in SUBSET Slot, t \in Seq(Steps), z \in Slot \ (R \ {p}), x \in Object :
       /\ Head(st) = <<"release", x, z>> /\ Tail(st) = t
       /\ Below(f, r, t, b, p, g, R, Z)
       /\ Balanced(f, c, r, x, g) /\ (f[z] = Null \/ g = Null) /\ Given(f, l, b, p, Z)

BottomNext(f, l, c, r, st, p, g, R, b) ==
    /\ st = b /\ Behind(b, p, g, R)
    /\ Balanced(f, c, r, Null, g) /\ Given(f, l, b, p, {})

LEMMA StepsMade ==
    ASSUME NEW z \in Slot, NEW v \in Slot \cup {Null}
    PROVE  <<"set", z, v>> \in Steps /\ <<"release", z, v>> \in Steps /\ <<"take", z, v>> \in Steps
BY DEF Steps

LEMMA CascadingElim ==
    ASSUME NEW f, NEW l, NEW c, NEW r, NEW st, Typed(f, l, c, r), Cascading(f, l, c, r, st)
    PROVE  \E p \in Slot \cup {Null}, g \in Object \cup {Null}, R \in SUBSET l, b \in Seq(Steps) :
              \/ ClearNext(f, l, c, r, st, p, g, R, b)
              \/ SetNext(f, l, c, r, st, p, g, R, b)
              \/ ReleaseNext(f, l, c, r, st, p, g, R, b)
              \/ BottomNext(f, l, c, r, st, p, g, R, b)
<1>1. PICK p \in Slot \cup {Null}, g \in Object \cup {Null}, R \in SUBSET l, Z \in SUBSET Slot,
           rest \in Seq(Steps), b \in Seq(Steps) :
           /\ Cascade(rest, b, Z) /\ Behind(b, p, g, R)
           /\ Supported(f, r, R, p, g) /\ Z \cap (R \ {p}) = {}
           /\ Doing(f, l, c, r, st, rest, b, p, g, R, Z)
  BY DEF Cascading
<1>2. Below(f, r, rest, b, p, g, R, Z) BY <1>1 DEF Below
<1>3. CASE st = rest /\ Balanced(f, c, r, Null, g) /\ Given(f, l, b, p, Z)
  <2>1. CASE rest = b /\ Z = {}
    <3>1. BottomNext(f, l, c, r, st, p, g, R, b) BY <1>1, <1>3, <2>1 DEF BottomNext
    <3> QED BY <3>1
  <2>2. CASE ~(rest = b /\ Z = {})
    <3>1. PICK z \in Slot, t \in Seq(Steps), Y \in SUBSET Slot : Clears(rest, b, Z, z, t, Y)
      BY <1>1, <2>2, CascadePop
    <3>2. rest = <<<<"clear", z>>>> \o t /\ Z = Y \cup {z} /\ Cascade(t, b, Y) BY <3>1 DEF Clears
    <3>3. <<"clear", z>> \in Steps BY ClearStep
    <3>4. Head(rest) = <<"clear", z>> /\ Tail(rest) = t BY <3>2, <3>3, Cons
    <3>5. Y \cap (R \ {p}) = {} /\ z \in Slot \ (R \ {p}) BY <1>1, <3>2
    <3>6. Below(f, r, t, b, p, g, R, Y) BY <1>1, <3>2, <3>5 DEF Below
    <3>7. Given(f, l, b, p, Y \cup {z}) BY <1>3, <3>2
    <3>8. ClearNext(f, l, c, r, st, p, g, R, b) BY <1>3, <3>4, <3>5, <3>6, <3>7 DEF ClearNext
    <3> QED BY <3>8
  <2> QED BY <2>1, <2>2
<1>4. CASE \E z \in Slot \ (R \ {p}) :
          /\ f[z] # Null /\ st = <<<<"set", z, Null>>>> \o (<<<<"release", f[z], z>>>> \o rest)
          /\ Balanced(f, c, r, Null, g) /\ Given(f, l, b, p, Z \cup {z})
  <2>1. PICK z \in Slot \ (R \ {p}) :
          /\ f[z] # Null /\ st = <<<<"set", z, Null>>>> \o (<<<<"release", f[z], z>>>> \o rest)
          /\ Balanced(f, c, r, Null, g) /\ Given(f, l, b, p, Z \cup {z})
    BY <1>4
  <2>2. f[z] \in Slot BY <2>1 DEF Typed, Slot
  <2>3. <<"set", z, Null>> \in Steps /\ <<"release", f[z], z>> \in Steps BY <2>2, StepsMade
  <2>4. <<<<"release", f[z], z>>>> \o rest \in Seq(Steps) BY <2>3, Cons
  <2>5. Head(st) = <<"set", z, Null>> /\ Tail(st) = <<<<"release", f[z], z>>>> \o rest
    BY <2>1, <2>3, <2>4, Cons
  <2>6. SetNext(f, l, c, r, st, p, g, R, b) BY <1>2, <2>1, <2>5 DEF SetNext
  <2> QED BY <2>6
<1>5. CASE \E x \in Object, z \in Slot \ (R \ {p}) :
          /\ st = <<<<"release", x, z>>>> \o rest
          /\ Balanced(f, c, r, x, g) /\ (f[z] = Null \/ g = Null) /\ Given(f, l, b, p, Z)
  <2>1. PICK x \in Object, z \in Slot \ (R \ {p}) :
          /\ st = <<<<"release", x, z>>>> \o rest
          /\ Balanced(f, c, r, x, g) /\ (f[z] = Null \/ g = Null) /\ Given(f, l, b, p, Z)
    BY <1>5
  <2>2. x \in Slot BY DEF Slot
  <2>3. <<"release", x, z>> \in Steps BY <2>2, StepsMade
  <2>4. Head(st) = <<"release", x, z>> /\ Tail(st) = rest BY <2>1, <2>3, Cons
  <2>5. ReleaseNext(f, l, c, r, st, p, g, R, b) BY <1>2, <2>1, <2>4 DEF ReleaseNext
  <2> QED BY <2>5
<1> QED BY <1>1, <1>3, <1>4, <1>5 DEF Doing

-----------------------------------------------------------------------------
(* Between two operations *)

LEMMA SettledIsSound ==
    ASSUME NEW f, NEW l, NEW c, NEW r, Settled(f, l, c, r)
    PROVE  Sound(f, l, c, r, <<>>)
<1>1. <<>> \in Seq(Steps) OBVIOUS
<1>2. Cascade(<<>>, <<>>, {}) BY <1>1, CascadeNone
<1>3. Behind(<<>>, Null, Null, {}) BY DEF Behind
<1>4. Below(f, r, <<>>, <<>>, Null, Null, {}, {}) BY <1>2, <1>3 DEF Below, Supported
<1>5. Balanced(f, c, r, Null, Null)
  <2> SUFFICES ASSUME NEW o \in Object
               PROVE c[o] = RefsOf(f, o) + r[o] + One(o, Null) + One(o, Null)
    BY DEF Balanced
  <2>1. One(o, Null) = 0 BY SlotAssumption DEF One
  <2>2. RefsOf(f, o) \in Nat /\ r[o] \in Nat /\ c[o] = RefsOf(f, o) + r[o] BY RefsNat DEF Settled
  <2> QED BY <2>1, <2>2
<1>6. Given(f, l, <<>>, Null, {}) BY DEF Given, Settled
<1>7. Doing(f, l, c, r, <<>>, <<>>, <<>>, Null, Null, {}, {}) BY <1>5, <1>6 DEF Doing
<1>8. Cascading(f, l, c, r, <<>>)
  <2>1. {} \in SUBSET l /\ {} \in SUBSET Slot OBVIOUS
  <2> QED BY <1>1, <1>4, <1>7, <2>1, CascadingIntro
<1> QED BY <1>8 DEF Sound, Settled

LEMMA ConsNotEmpty == ASSUME NEW x \in Steps, NEW t \in Seq(Steps) PROVE <<x>> \o t # <<>>
BY Cons

LEMMA SoundIsSettled ==
    ASSUME NEW f, NEW l, NEW c, NEW r, Typed(f, l, c, r), Sound(f, l, c, r, <<>>)
    PROVE  Settled(f, l, c, r)
<1>1. ~Counting(f, l, c, r, <<>>)
  <2>1. \A p \in Slot : <<<<"addref", p>>>> # <<>> OBVIOUS
  <2> QED BY <2>1 DEF Counting
<1>2. PICK p \in Slot \cup {Null}, g \in Object \cup {Null}, R \in SUBSET l, Z \in SUBSET Slot,
           rest \in Seq(Steps), b \in Seq(Steps) :
           /\ Cascade(rest, b, Z) /\ Behind(b, p, g, R)
           /\ Supported(f, r, R, p, g) /\ Z \cap (R \ {p}) = {}
           /\ Doing(f, l, c, r, <<>>, rest, b, p, g, R, Z)
  BY <1>1 DEF Sound, Cascading
<1>3. rest = <<>> /\ Balanced(f, c, r, Null, g) /\ Given(f, l, b, p, Z)
  <2>1. ASSUME NEW z \in Slot, f[z] # Null
        PROVE  <<<<"set", z, Null>>>> \o (<<<<"release", f[z], z>>>> \o rest) # <<>>
    <3>1. f[z] \in Slot BY <2>1 DEF Typed, Slot
    <3>2. <<"set", z, Null>> \in Steps /\ <<"release", f[z], z>> \in Steps BY <3>1, StepsMade
    <3>3. <<<<"release", f[z], z>>>> \o rest \in Seq(Steps) BY <3>2, Cons
    <3> QED BY <3>2, <3>3, Cons
  <2>2. ASSUME NEW x \in Object, NEW z \in Slot PROVE <<<<"release", x, z>>>> \o rest # <<>>
    <3>1. <<"release", x, z>> \in Steps BY StepsMade DEF Slot
    <3> QED BY <3>1, Cons
  <2> QED BY <1>2, <2>1, <2>2 DEF Doing
<1>4. rest = b /\ Z = {}
  <2>1. ASSUME NEW z \in Slot, NEW t \in Seq(Steps), NEW Y PROVE ~Clears(rest, b, Z, z, t, Y)
    <3>1. <<<<"clear", z>>>> \o t # <<>> BY ClearStep, Cons
    <3> QED BY <1>3, <3>1 DEF Clears
  <2> QED BY <1>2, <2>1, CascadePop
<1>5. g = Null
  <2>1. \A v : <<v>> # <<>> OBVIOUS
  <2>2. \A v, w : <<v, w>> # <<>> OBVIOUS
  <2> QED BY <1>2, <1>3, <1>4, <2>1, <2>2 DEF Behind
<1>6. ASSUME NEW o \in Object PROVE c[o] = RefsOf(f, o) + r[o]
  <2>1. One(o, Null) = 0 BY SlotAssumption DEF One
  <2>2. RefsOf(f, o) \in Nat /\ r[o] \in Nat BY RefsNat DEF Typed
  <2> QED BY <1>3, <1>5, <2>1, <2>2 DEF Balanced
<1>7. \A s \in Slot \ l : f[s] = Null BY <1>3, <1>4 DEF Given
<1> QED BY <1>6, <1>7 DEF Settled, Typed, Sound

-----------------------------------------------------------------------------
(* The steps *)

ReadyToStep ==
    Typed(m_ptr, live, count, raw) /\ Sound(m_ptr, live, count, raw, steps) /\ alive = live \cap Object

SoundNext == Sound(m_ptr', live', count', raw', steps')

\* What the first step can be, by its name.
LEMMA WhatBehind ==
    ASSUME NEW b, NEW p, NEW g, NEW R, Behind(b, p, g, R), b # <<>>
    PROVE  /\ Head(b)[1] \in {"set", "take"} /\ p \in R
           /\ Head(b)[1] = "set" =>
                 \/ g \in Object /\ Head(b) = <<"set", p, g>> /\ Tail(b) = <<>>
                 \/ g = Null /\ \E o \in (R \cap Object) \cup {Null} :
                       Head(b) = <<"set", p, o>> /\ Tail(b) = <<<<"addref", p>>>>
           /\ Head(b)[1] = "take" =>
                 g = Null /\ \E q \in R \ {p} : Head(b) = <<"take", p, q>> /\ Tail(b) = <<>>
<1>1. CASE p \in R /\ g \in Object /\ b = <<<<"set", p, g>>>>
  <2>1. Head(b) = <<"set", p, g>> /\ Tail(b) = <<>> BY <1>1
  <2> QED BY <1>1, <2>1
<1>2. CASE /\ p \in R /\ g = Null
           /\ \E o \in (R \cap Object) \cup {Null} : b = <<<<"set", p, o>>, <<"addref", p>>>>
  <2>1. PICK o \in (R \cap Object) \cup {Null} : b = <<<<"set", p, o>>, <<"addref", p>>>> BY <1>2
  <2>2. Head(b) = <<"set", p, o>> /\ Tail(b) = <<<<"addref", p>>>> BY <2>1
  <2>3. Head(b)[1] = "set" BY <2>2
  <2> QED BY <1>2, <2>2, <2>3
<1>3. CASE p \in R /\ g = Null /\ \E q \in R \ {p} : b = <<<<"take", p, q>>>>
  <2>1. PICK q \in R \ {p} : b = <<<<"take", p, q>>>> BY <1>3
  <2>2. Head(b) = <<"take", p, q>> /\ Tail(b) = <<>> BY <2>1
  <2>3. Head(b)[1] = "take" BY <2>2
  <2> QED BY <1>3, <2>2, <2>3
<1> QED BY <1>1, <1>2, <1>3 DEF Behind

\* The first step by its name.
LEMMA WhatNext ==
    ASSUME ReadyToStep, steps # <<>>, ~Counting(m_ptr, live, count, raw, steps)
    PROVE  \E p \in Slot \cup {Null}, g \in Object \cup {Null}, R \in SUBSET live, b \in Seq(Steps) :
              \/ Next1[1] = "clear" /\ ClearNext(m_ptr, live, count, raw, steps, p, g, R, b)
              \/ Next1[1] = "set" /\ SetNext(m_ptr, live, count, raw, steps, p, g, R, b)
              \/ Next1[1] = "release" /\ ReleaseNext(m_ptr, live, count, raw, steps, p, g, R, b)
              \/ /\ Next1[1] \in {"set", "take"}
                 /\ BottomNext(m_ptr, live, count, raw, steps, p, g, R, b)
<1>1. Cascading(m_ptr, live, count, raw, steps) BY DEF ReadyToStep, Sound
<1>2. PICK p \in Slot \cup {Null}, g \in Object \cup {Null}, R \in SUBSET live, b \in Seq(Steps) :
              \/ ClearNext(m_ptr, live, count, raw, steps, p, g, R, b)
              \/ SetNext(m_ptr, live, count, raw, steps, p, g, R, b)
              \/ ReleaseNext(m_ptr, live, count, raw, steps, p, g, R, b)
              \/ BottomNext(m_ptr, live, count, raw, steps, p, g, R, b)
  BY <1>1, CascadingElim DEF ReadyToStep
<1>3. ClearNext(m_ptr, live, count, raw, steps, p, g, R, b) => Next1[1] = "clear"
  BY DEF ClearNext, Next1
<1>4. SetNext(m_ptr, live, count, raw, steps, p, g, R, b) => Next1[1] = "set"
  BY DEF SetNext, Next1
<1>5. ReleaseNext(m_ptr, live, count, raw, steps, p, g, R, b) => Next1[1] = "release"
  BY DEF ReleaseNext, Next1
<1>6. BottomNext(m_ptr, live, count, raw, steps, p, g, R, b) => Next1[1] \in {"set", "take"}
  BY WhatBehind DEF BottomNext, Next1
<1> QED BY <1>2, <1>3, <1>4, <1>5, <1>6

LEMMA WhatCounting ==
    ASSUME ReadyToStep, Counting(m_ptr, live, count, raw, steps)
    PROVE  Next1[1] = "addref" /\ Rest = <<>> /\ steps # <<>>
<1>1. PICK p \in Slot : steps = <<<<"addref", p>>>> BY DEF Counting
<1>2. Head(steps) = <<"addref", p>> /\ Tail(steps) = <<>> /\ steps # <<>> BY <1>1
<1> QED BY <1>2 DEF Next1, Rest

LEMMA ReleaseRefSound == ASSUME ReadyToStep, ReleaseRef PROVE SoundNext
<1>1. /\ steps # <<>> /\ Next1[1] = "clear" /\ UNCHANGED <<m_ptr, live, alive, count, raw>>
      /\ steps' = (IF m_ptr[Next1[2]] = Null THEN <<>> ELSE Clearing(Next1[2])) \o Rest
  BY DEF ReleaseRef, Taking
<1>2. ~Counting(m_ptr, live, count, raw, steps) BY <1>1, WhatCounting
<1>3. PICK p \in Slot \cup {Null}, g \in Object \cup {Null}, R \in SUBSET live, b \in Seq(Steps) :
         ClearNext(m_ptr, live, count, raw, steps, p, g, R, b)
  BY <1>1, <1>2, WhatNext
<1>4. PICK Z \in SUBSET Slot, t \in Seq(Steps), z \in Slot \ (R \ {p}) :
       /\ Head(steps) = <<"clear", z>> /\ Tail(steps) = t
       /\ Below(m_ptr, raw, t, b, p, g, R, Z)
       /\ Balanced(m_ptr, count, raw, Null, g) /\ Given(m_ptr, live, b, p, Z \cup {z})
  BY <1>3 DEF ClearNext
<1>5. Next1[2] = z /\ Rest = t BY <1>4 DEF Next1, Rest
<1>6. CASE m_ptr[z] = Null
  <2>1. steps' = t BY <1>1, <1>4, <1>5, <1>6, ConcatEmptySeq
  <2>2. Given(m_ptr, live, b, p, Z) BY <1>4, <1>6 DEF Given
  <2>3. Doing(m_ptr, live, count, raw, t, t, b, p, g, R, Z) BY <1>4, <2>2 DEF Doing
  <2>4. Cascading(m_ptr, live, count, raw, t) BY <1>4, <2>3, CascadingIntro
  <2> QED BY <1>1, <2>1, <2>4 DEF SoundNext, Sound, ReadyToStep
<1>7. CASE m_ptr[z] # Null
  <2>1. m_ptr[z] \in Slot BY <1>7 DEF ReadyToStep, Typed, Slot
  <2>2. <<"set", z, Null>> \in Steps /\ <<"release", m_ptr[z], z>> \in Steps BY <2>1, StepsMade
  <2>3. steps' = <<<<"set", z, Null>>, <<"release", m_ptr[z], z>>>> \o t
    BY <1>1, <1>5, <1>7 DEF Clearing
  <2>4. steps' = <<<<"set", z, Null>>>> \o (<<<<"release", m_ptr[z], z>>>> \o t)
    BY <2>2, <2>3, ConsTwo
  <2>5. Doing(m_ptr, live, count, raw, steps', t, b, p, g, R, Z) BY <1>4, <1>7, <2>4 DEF Doing
  <2>6. Cascading(m_ptr, live, count, raw, steps') BY <1>4, <2>5, CascadingIntro
  <2> QED BY <1>1, <2>6 DEF SoundNext, Sound, ReadyToStep
<1> QED BY <1>6, <1>7

LEMMA SetSound == ASSUME ReadyToStep, Set PROVE SoundNext
<1>1. /\ steps # <<>> /\ Next1[1] = "set" /\ UNCHANGED <<live, alive, count, raw>>
      /\ m_ptr' = [m_ptr EXCEPT ![Next1[2]] = Next1[3]] /\ steps' = Rest
  BY DEF Set, Taking
<1>2. ~Counting(m_ptr, live, count, raw, steps) BY <1>1, WhatCounting
<1>3. PICK p \in Slot \cup {Null}, g \in Object \cup {Null}, R \in SUBSET live, b \in Seq(Steps) :
         \/ SetNext(m_ptr, live, count, raw, steps, p, g, R, b)
         \/ BottomNext(m_ptr, live, count, raw, steps, p, g, R, b)
  BY <1>1, <1>2, WhatNext
<1>4. DOMAIN m_ptr = Slot /\ live \subseteq Slot /\ m_ptr \in [Slot -> Object \cup {Null}]
  BY DEF ReadyToStep, Typed
<1>7. \A o \in Object : /\ raw[o] \in Nat /\ count[o] \in Nat
                        /\ RefsOf(m_ptr, o) \in Nat /\ RefsOf(m_ptr', o) \in Nat
                        /\ One(o, Null) = 0 /\ One(Null, o) = 0 /\ o # Null
  BY RefsNat, SlotAssumption DEF ReadyToStep, Typed, One
<1>5. CASE SetNext(m_ptr, live, count, raw, steps, p, g, R, b)
  <2>1. PICK Z \in SUBSET Slot, t \in Seq(Steps), z \in Slot \ (R \ {p}) :
       /\ Head(steps) = <<"set", z, Null>> /\ Tail(steps) = <<<<"release", m_ptr[z], z>>>> \o t
       /\ m_ptr[z] # Null
       /\ Below(m_ptr, raw, t, b, p, g, R, Z)
       /\ Balanced(m_ptr, count, raw, Null, g) /\ Given(m_ptr, live, b, p, Z \cup {z})
    BY <1>5 DEF SetNext
  <2>2. Next1[2] = z /\ Next1[3] = Null BY <2>1 DEF Next1
  <2>11. steps' = <<<<"release", m_ptr[z], z>>>> \o t BY <1>1, <2>1 DEF Rest
  <2>3. m_ptr' = [m_ptr EXCEPT ![z] = Null] BY <1>1, <2>2
  <2>4. m_ptr'[z] = Null /\ \A s \in Slot \ {z} : m_ptr'[s] = m_ptr[s] BY <1>4, <2>3
  <2> DEFINE x == m_ptr[z]
  <2>5. x \in Object BY <1>4, <2>1
  <2>6. Balanced(m_ptr', count, raw, x, g)
    <3> SUFFICES ASSUME NEW o \in Object
                 PROVE  count[o] = RefsOf(m_ptr', o) + raw[o] + One(o, x) + One(o, g)
      BY DEF Balanced
    <3>0. OneDiffers(m_ptr, m_ptr', z) BY <2>4 DEF OneDiffers
    <3>1. RefsOf(m_ptr', o) + One(x, o) = RefsOf(m_ptr, o) + One(Null, o)
      BY <2>4, <3>0, RefsUpdate
    <3>2. count[o] = RefsOf(m_ptr, o) + raw[o] + One(o, Null) + One(o, g) BY <2>1 DEF Balanced
    <3>3. One(x, o) = One(o, x) BY DEF One
    <3>4. One(o, x) \in 0..1 /\ One(o, g) \in 0..1 BY OneNat
    <3> HIDE DEF x
    <3>5. RefsOf(m_ptr, o) = RefsOf(m_ptr', o) + One(o, x) BY <1>7, <3>1, <3>3, <3>4
    <3>6. count[o] = RefsOf(m_ptr, o) + raw[o] + One(o, g) BY <1>7, <3>2, <3>4
    <3> QED BY <1>7, <3>4, <3>5, <3>6
  <2>7. Given(m_ptr', live, b, p, Z) BY <2>1, <2>4 DEF Given
  <2>8. Below(m_ptr', raw, t, b, p, g, R, Z)
    <3>1. Supported(m_ptr', raw, R, p, g)
      <4>1. \A s \in R \ {p} : m_ptr'[s] = m_ptr[s] BY <1>4, <2>1, <2>4
      <4> QED BY <2>1, <4>1 DEF Supported, Below
    <3> QED BY <2>1, <3>1 DEF Below
  <2>9. Doing(m_ptr', live, count, raw, steps', t, b, p, g, R, Z)
    <3> HIDE DEF x
    <3>1. steps' = <<<<"release", x, z>>>> \o t BY <2>11 DEF x
    <3> QED BY <2>4, <2>5, <2>6, <2>7, <3>1 DEF Doing
  <2>10. Cascading(m_ptr', live, count, raw, steps') BY <2>8, <2>9, CascadingIntro
  <2> QED BY <1>1, <2>10 DEF SoundNext, Sound, ReadyToStep
<1>6. CASE BottomNext(m_ptr, live, count, raw, steps, p, g, R, b)
  <2>1. /\ steps = b /\ Behind(b, p, g, R)
        /\ Balanced(m_ptr, count, raw, Null, g) /\ Given(m_ptr, live, b, p, {})
    BY <1>6 DEF BottomNext
  <2>2. p \in R /\ p \in Slot /\ p \in live BY <1>1, <1>4, <2>1, WhatBehind
  <2>3. m_ptr[p] = Null /\ \A s \in Slot \ live : m_ptr[s] = Null BY <1>1, <2>1, <2>2 DEF Given
  <2>4. CASE g \in Object /\ Head(b) = <<"set", p, g>> /\ Tail(b) = <<>>
    <3>0. Next1[2] = p /\ Next1[3] = g /\ steps' = <<>> BY <1>1, <2>1, <2>4 DEF Next1, Rest
    <3>1. m_ptr' = [m_ptr EXCEPT ![p] = g] /\ steps' = <<>> BY <1>1, <3>0
    <3>2. ASSUME NEW o \in Object PROVE count[o] = RefsOf(m_ptr', o) + raw[o]
      <4>0. OneDiffers(m_ptr, m_ptr', p) /\ m_ptr'[p] = g BY <1>4, <2>2, <3>1 DEF OneDiffers
      <4>1. RefsOf(m_ptr', o) + One(m_ptr[p], o) = RefsOf(m_ptr, o) + One(g, o)
        BY <2>2, <4>0, RefsUpdate
      <4>2. count[o] = RefsOf(m_ptr, o) + raw[o] + One(o, Null) + One(o, g) BY <2>1 DEF Balanced
      <4>3. One(g, o) = One(o, g) BY DEF One
      <4>4. One(o, g) \in 0..1 /\ One(m_ptr[p], o) = 0 BY <1>7, <2>3, OneNat
      <4> QED BY <1>7, <4>1, <4>2, <4>3, <4>4
    <3>3. \A s \in Slot \ live : m_ptr'[s] = Null BY <1>4, <2>2, <2>3, <3>1
    <3>4. m_ptr' \in [Slot -> Object \cup {Null}] BY <1>4, <2>4, <3>1
    <3>5. Settled(m_ptr', live, count, raw)
      BY <3>2, <3>3, <3>4 DEF Settled, ReadyToStep, Typed, Sound
    <3> QED BY <1>1, <3>1, <3>5, SettledIsSound DEF SoundNext
  <2>5. CASE g = Null /\ \E o \in (R \cap Object) \cup {Null} :
                Head(b) = <<"set", p, o>> /\ Tail(b) = <<<<"addref", p>>>>
    <3>1. PICK v \in (R \cap Object) \cup {Null} :
                Head(b) = <<"set", p, v>> /\ Tail(b) = <<<<"addref", p>>>>
      BY <2>5
    <3>0. Next1[2] = p /\ Next1[3] = v /\ steps' = <<<<"addref", p>>>>
      BY <1>1, <2>1, <3>1 DEF Next1, Rest
    <3>2. m_ptr' = [m_ptr EXCEPT ![p] = v] /\ steps' = <<<<"addref", p>>>> BY <1>1, <3>0
    <3>3. m_ptr'[p] = v BY <1>4, <2>2, <3>2
    <3>4. ASSUME NEW o \in Object PROVE count[o] + One(m_ptr'[p], o) = RefsOf(m_ptr', o) + raw[o]
      <4>0. OneDiffers(m_ptr, m_ptr', p) /\ m_ptr'[p] = v BY <1>4, <2>2, <3>2 DEF OneDiffers
      <4>1. RefsOf(m_ptr', o) + One(m_ptr[p], o) = RefsOf(m_ptr, o) + One(v, o)
        BY <2>2, <4>0, RefsUpdate
      <4>2. count[o] = RefsOf(m_ptr, o) + raw[o] + One(o, Null) + One(o, g) BY <2>1 DEF Balanced
      <4>3. One(v, o) \in 0..1 BY OneNat
      <4>4. One(m_ptr[p], o) = 0 /\ One(o, g) = 0 BY <1>7, <2>3, <2>5
      <4> QED BY <1>7, <3>3, <4>1, <4>2, <4>3, <4>4
    <3>5. \A s \in Slot \ live : m_ptr'[s] = Null BY <1>4, <2>2, <2>3, <3>2
    <3>6. Counting(m_ptr', live, count, raw, steps') BY <2>2, <3>2, <3>3, <3>4, <3>5 DEF Counting
    <3> QED BY <1>1, <3>6 DEF SoundNext, Sound, ReadyToStep
  <2> QED
    <3>1. Head(b)[1] = "set" /\ b # <<>> BY <1>1, <2>1 DEF Next1
    <3> QED BY <2>1, <2>4, <2>5, <3>1, WhatBehind
<1> QED BY <1>3, <1>5, <1>6

LEMMA ExchangeSettled ==
    ASSUME NEW f, NEW l, NEW c, NEW r, Settled(f, l, c, r), NEW s \in l, NEW t \in l,
           NEW h, h \in [Slot -> Object \cup {Null}],
           h[s] = f[t], h[t] = f[s], \A q \in Slot \ {s, t} : h[q] = f[q]
    PROVE  Settled(h, l, c, r)
<1>1. s \in Slot /\ t \in Slot /\ DOMAIN f = Slot /\ DOMAIN h = Slot BY DEF Settled
<1>2. ASSUME NEW o \in Object PROVE RefsOf(h, o) = RefsOf(f, o) BY <1>1, RefsExchange
<1>3. \A q \in Slot \ l : h[q] = Null BY <1>1 DEF Settled
<1> QED BY <1>2, <1>3 DEF Settled

LEMMA TakeSound == ASSUME ReadyToStep, Take PROVE SoundNext
<1>1. /\ steps # <<>> /\ Next1[1] = "take" /\ UNCHANGED <<live, alive, count, raw>>
      /\ m_ptr' = [m_ptr EXCEPT ![Next1[2]] = m_ptr[Next1[3]], ![Next1[3]] = Null]
      /\ steps' = Rest
  BY DEF Take, Taking
<1>2. ~Counting(m_ptr, live, count, raw, steps) BY <1>1, WhatCounting
<1>3. PICK p \in Slot \cup {Null}, g \in Object \cup {Null}, R \in SUBSET live, b \in Seq(Steps) :
         BottomNext(m_ptr, live, count, raw, steps, p, g, R, b)
  BY <1>1, <1>2, WhatNext
<1>4. m_ptr \in [Slot -> Object \cup {Null}] /\ live \subseteq Slot BY DEF ReadyToStep, Typed
<1>5. /\ steps = b /\ Behind(b, p, g, R)
      /\ Balanced(m_ptr, count, raw, Null, g) /\ Given(m_ptr, live, b, p, {})
  BY <1>3 DEF BottomNext
<1>6. /\ p \in R /\ g = Null
      /\ \E q \in R \ {p} : Head(b) = <<"take", p, q>> /\ Tail(b) = <<>>
  <2>1. b # <<>> /\ Head(b)[1] = "take" BY <1>1, <1>5 DEF Next1
  <2> QED BY <1>5, <2>1, WhatBehind
<1>7. PICK q \in R \ {p} : Head(b) = <<"take", p, q>> /\ Tail(b) = <<>> BY <1>6
<1>8. Next1[2] = p /\ Next1[3] = q /\ steps' = <<>> BY <1>1, <1>5, <1>7 DEF Next1, Rest
<1>9. p \in live /\ q \in live /\ p # q BY <1>6
<1>10. m_ptr[p] = Null /\ \A s \in Slot \ live : m_ptr[s] = Null
  BY <1>1, <1>4, <1>5, <1>9 DEF Given
<1>11. Settled(m_ptr, live, count, raw)
  <2>1. ASSUME NEW o \in Object PROVE count[o] = RefsOf(m_ptr, o) + raw[o]
    <3>1. One(o, Null) = 0 BY SlotAssumption DEF One
    <3>2. RefsOf(m_ptr, o) \in Nat /\ raw[o] \in Nat BY RefsNat DEF ReadyToStep, Typed
    <3> QED BY <1>5, <1>6, <3>1, <3>2 DEF Balanced
  <2> QED BY <1>10, <2>1 DEF Settled, ReadyToStep, Typed, Sound
<1>12. m_ptr' = [m_ptr EXCEPT ![p] = m_ptr[q], ![q] = Null] BY <1>1, <1>8
<1>13. /\ m_ptr' \in [Slot -> Object \cup {Null}] /\ m_ptr'[p] = m_ptr[q] /\ m_ptr'[q] = m_ptr[p]
       /\ \A s \in Slot \ {p, q} : m_ptr'[s] = m_ptr[s]
  BY <1>4, <1>9, <1>10, <1>12
<1>14. Settled(m_ptr', live, count, raw) BY <1>9, <1>11, <1>13, ExchangeSettled
<1> QED BY <1>1, <1>8, <1>14, SettledIsSound DEF SoundNext

LEMMA AddRefSound == ASSUME ReadyToStep, AddRef PROVE SoundNext /\ count' \in [Object -> Nat]
<1>1. steps # <<>> /\ Next1[1] = "addref" /\ UNCHANGED <<m_ptr, live, alive, raw>> /\ steps' = Rest
  BY DEF AddRef, Taking
<1>2. Counting(m_ptr, live, count, raw, steps)
  <2> SUFFICES ASSUME ~Counting(m_ptr, live, count, raw, steps) PROVE FALSE OBVIOUS
  <2>1. Next1[1] \in {"clear", "set", "release", "take"} BY <1>1, WhatNext
  <2> QED BY <1>1, <2>1
<1>3. PICK p \in Slot :
       /\ steps = <<<<"addref", p>>>>
       /\ \A o \in Object : count[o] + One(m_ptr[p], o) = RefsOf(m_ptr, o) + raw[o]
       /\ m_ptr[p] \in live \cup {Null}
       /\ \A s \in Slot \ live : m_ptr[s] = Null
  BY <1>2 DEF Counting
<1>4. Next1[2] = p /\ Rest = <<>> BY <1>3 DEF Next1, Rest
<1>5. count' = IF m_ptr[p] = Null THEN count ELSE [count EXCEPT ![m_ptr[p]] = @ + 1]
  BY <1>4 DEF AddRef
<1>6. m_ptr[p] \in Object \cup {Null} /\ Null \notin Object /\ count \in [Object -> Nat]
  BY SlotAssumption DEF ReadyToStep, Typed
<1>7. ASSUME NEW o \in Object PROVE count'[o] = count[o] + One(m_ptr[p], o)
  BY <1>5, <1>6 DEF One
<1>8. count' \in [Object -> Nat] BY <1>5, <1>6
<1>9. \A o \in Object : count'[o] = RefsOf(m_ptr, o) + raw[o] BY <1>3, <1>7
<1>10. Lively(live, count')
  <2> SUFFICES ASSUME NEW o \in Object PROVE o \in live <=> count'[o] > 0 BY DEF Lively
  <2>1. o \in live <=> count[o] > 0 BY DEF ReadyToStep, Sound, Lively
  <2>2. count[o] \in Nat BY <1>6
  <2>3. CASE m_ptr[p] = o
    <3>1. One(m_ptr[p], o) = 1 /\ o \in live BY <1>3, <1>6, <2>3 DEF One
    <3> QED BY <1>7, <2>1, <2>2, <3>1
  <2>4. CASE m_ptr[p] # o
    <3>1. One(m_ptr[p], o) = 0 BY <2>4 DEF One
    <3> QED BY <1>7, <2>1, <2>2, <3>1
  <2> QED BY <2>3, <2>4
<1>11. Settled(m_ptr, live, count', raw)
  BY <1>3, <1>8, <1>9, <1>10 DEF Settled, ReadyToStep, Typed
<1> QED BY <1>1, <1>4, <1>8, <1>11, SettledIsSound DEF SoundNext

LEMMA ReleaseSound ==
    ASSUME ReadyToStep, Release
    PROVE  /\ SoundNext /\ count' \in [Object -> Nat]
           /\ live' \subseteq Slot /\ alive' = live' \cap Object
<1>1. steps # <<>> /\ Next1[1] = "release" /\ UNCHANGED <<m_ptr, raw>> BY DEF Release, Taking
<1>2. ~Counting(m_ptr, live, count, raw, steps) BY <1>1, WhatCounting
<1>3. PICK p \in Slot \cup {Null}, g \in Object \cup {Null}, R \in SUBSET live, b \in Seq(Steps) :
         ReleaseNext(m_ptr, live, count, raw, steps, p, g, R, b)
  BY <1>1, <1>2, WhatNext
<1>4. PICK Z \in SUBSET Slot, t \in Seq(Steps), z \in Slot \ (R \ {p}), x \in Object :
       /\ Head(steps) = <<"release", x, z>> /\ Tail(steps) = t
       /\ Below(m_ptr, raw, t, b, p, g, R, Z)
       /\ Balanced(m_ptr, count, raw, x, g) /\ (m_ptr[z] = Null \/ g = Null)
       /\ Given(m_ptr, live, b, p, Z)
  BY <1>3 DEF ReleaseNext
<1>5. Next1[2] = x /\ Next1[3] = z /\ Rest = t BY <1>4 DEF Next1, Rest
<1>6. count' = [count EXCEPT ![x] = @ - 1] BY <1>5 DEF Release
<1>7. count \in [Object -> Nat] /\ live \subseteq Slot /\ alive = live \cap Object
  BY DEF ReadyToStep, Typed
<1>8. \A o \in Object : /\ raw[o] \in Nat /\ RefsOf(m_ptr, o) \in Nat
                        /\ One(o, x) \in 0..1 /\ One(o, g) \in 0..1 /\ One(o, Null) = 0
  BY RefsNat, OneNat, SlotAssumption DEF ReadyToStep, Typed, One
<1>9. \A o \in Object : count[o] = RefsOf(m_ptr, o) + raw[o] + One(o, x) + One(o, g)
  BY <1>4 DEF Balanced
<1>10. One(x, x) = 1 /\ count[x] > 0 /\ count[x] \in Nat
  <2>1. One(x, x) = 1 BY DEF One
  <2> QED BY <1>7, <1>8, <1>9, <2>1
<1>11. count' \in [Object -> Nat] /\ \A o \in Object : count'[o] = count[o] - One(o, x)
  <2>1. \A o \in Object \ {x} : One(o, x) = 0 BY DEF One
  <2>2. \A o \in Object : count[o] \in Nat BY <1>7
  <2>3. count[x] - 1 \in Nat BY <1>10
  <2>4. count' \in [Object -> Nat] BY <1>6, <1>7, <2>3
  <2>5. \A o \in Object : count'[o] = IF o = x THEN count[o] - 1 ELSE count[o] BY <1>6, <1>7
  <2> QED BY <1>10, <2>1, <2>2, <2>4, <2>5
<1>12. Balanced(m_ptr, count', raw, Null, g)
  <2> SUFFICES ASSUME NEW o \in Object
               PROVE  count'[o] = RefsOf(m_ptr, o) + raw[o] + One(o, Null) + One(o, g)
    BY DEF Balanced
  <2>1. count[o] = RefsOf(m_ptr, o) + raw[o] + One(o, x) + One(o, g) BY <1>9
  <2>2. count'[o] = count[o] - One(o, x) BY <1>11
  <2>3. /\ raw[o] \in Nat /\ RefsOf(m_ptr, o) \in Nat
        /\ One(o, x) \in 0..1 /\ One(o, g) \in 0..1 /\ One(o, Null) = 0
    BY <1>8
  <2> QED BY <2>1, <2>2, <2>3
<1>13. \A o \in Object : o \in live <=> count[o] > 0 BY DEF ReadyToStep, Sound, Lively
<1>14. CASE count[x] # 1
  <2>1. UNCHANGED <<alive, live>> /\ steps' = t BY <1>5, <1>14 DEF Release
  <2>2. Lively(live, count')
    <3> SUFFICES ASSUME NEW o \in Object PROVE o \in live <=> count'[o] > 0 BY DEF Lively
    <3>1. o \in live <=> count[o] > 0 BY <1>13
    <3>2. CASE o = x
      <4>1. count'[o] = count[o] - 1 BY <1>10, <1>11, <3>2
      <4> QED BY <1>10, <1>14, <3>1, <3>2, <4>1
    <3>3. CASE o # x
      <4>1. One(o, x) = 0 /\ count[o] \in Nat BY <1>7, <3>3 DEF One
      <4>2. count'[o] = count[o] BY <1>11, <4>1
      <4> QED BY <3>1, <4>2
    <3> QED BY <3>2, <3>3
  <2>3. Doing(m_ptr, live, count', raw, t, t, b, p, g, R, Z) BY <1>4, <1>12 DEF Doing
  <2>4. Cascading(m_ptr, live, count', raw, t) BY <1>4, <2>3, CascadingIntro
  <2> QED BY <1>1, <1>7, <1>11, <2>1, <2>2, <2>4 DEF SoundNext, Sound
<1>15. CASE count[x] = 1
  <2>1. alive' = alive \ {x} /\ live' = live \ {x} /\ \E d \in Destructor(x, z) : steps' = d \o t
    BY <1>5, <1>15 DEF Release
  <2>2. x \notin R
    <3>1. /\ RefsOf(m_ptr, x) = 0 /\ raw[x] = 0 /\ One(x, g) = 0
      <4>1. count[x] = RefsOf(m_ptr, x) + raw[x] + One(x, x) + One(x, g) BY <1>9
      <4>2. raw[x] \in Nat /\ RefsOf(m_ptr, x) \in Nat /\ One(x, g) \in 0..1 BY <1>8
      <4> QED BY <1>10, <1>15, <4>1, <4>2
    <3>2. \A s \in Slot : m_ptr[s] # x
      <4> SUFFICES ASSUME NEW s \in Slot, m_ptr[s] = x PROVE FALSE OBVIOUS
      <4>1. RefsOf(m_ptr, m_ptr[s]) > 0 BY RefsPointed
      <4> QED BY <3>1, <4>1
    <3>3. x # g BY <3>1 DEF One
    <3>4. Supported(m_ptr, raw, R, p, g) BY <1>4 DEF Below
    <3>5. \A s \in R \ {p} : m_ptr[s] # x BY <1>7, <3>2
    <3> QED BY <3>1, <3>3, <3>4, <3>5 DEF Supported
  <2>3. R \in SUBSET live' BY <2>1, <2>2
  <2>4. Lively(live', count')
    <3> SUFFICES ASSUME NEW o \in Object PROVE o \in live' <=> count'[o] > 0 BY DEF Lively
    <3>1. o \in live <=> count[o] > 0 BY <1>13
    <3>2. CASE o = x
      <4>1. count'[o] = count[o] - 1 BY <1>10, <1>11, <3>2
      <4> QED BY <1>15, <2>1, <3>2, <4>1
    <3>3. CASE o # x
      <4>1. One(o, x) = 0 /\ count[o] \in Nat BY <1>7, <3>3 DEF One
      <4>2. count'[o] = count[o] BY <1>11, <4>1
      <4> QED BY <2>1, <3>1, <3>3, <4>2
    <3> QED BY <3>2, <3>3
  <2>5. x \in Slot /\ <<"clear", x>> \in Steps /\ <<"clear", z>> \in Steps BY ClearStep DEF Slot
  <2>6. Cascade(t, b, Z) /\ Behind(b, p, g, R) /\ Supported(m_ptr, raw, R, p, g) /\ Z \cap (R \ {p}) = {}
    BY <1>4 DEF Below
  <2>7. Cascade(<<<<"clear", x>>>> \o t, b, Z \cup {x}) /\ <<<<"clear", x>>>> \o t \in Seq(Steps)
    BY <2>5, <2>6, CascadePush, Cons
  <2>8. /\ Cascade(<<<<"clear", z>>>> \o (<<<<"clear", x>>>> \o t), b, (Z \cup {x}) \cup {z})
        /\ <<<<"clear", z>>>> \o (<<<<"clear", x>>>> \o t) \in Seq(Steps)
    BY <2>5, <2>7, CascadePush, Cons
  <2>9. \A s \in Slot : m_ptr[s] # Null /\ (s \notin live' \/ (s = p /\ b # <<>>)) => s \in Z \cup {x}
    BY <1>4, <2>1 DEF Given
  <2>10. CASE steps' = <<<<"clear", x>>>> \o t
    <3>1. Below(m_ptr, raw, steps', b, p, g, R, Z \cup {x}) BY <2>2, <2>6, <2>7, <2>10 DEF Below
    <3>2. Doing(m_ptr, live', count', raw, steps', steps', b, p, g, R, Z \cup {x})
      BY <1>12, <2>9 DEF Doing, Given
    <3>3. steps' \in Seq(Steps) /\ Z \cup {x} \in SUBSET Slot BY <2>5, <2>7, <2>10
    <3>4. Cascading(m_ptr, live', count', raw, steps') BY <2>3, <3>1, <3>2, <3>3, CascadingIntro
    <3> QED BY <1>1, <1>7, <1>11, <2>1, <2>4, <3>4 DEF SoundNext, Sound
  <2>11. CASE steps' = <<<<"clear", z>>>> \o (<<<<"clear", x>>>> \o t)
    <3> DEFINE Y == (Z \cup {x}) \cup {z}
    <3>1. Below(m_ptr, raw, steps', b, p, g, R, Y) BY <2>2, <2>6, <2>8, <2>11 DEF Below
    <3>2. Doing(m_ptr, live', count', raw, steps', steps', b, p, g, R, Y)
      BY <1>12, <2>9 DEF Doing, Given
    <3>3. steps' \in Seq(Steps) /\ Y \in SUBSET Slot BY <2>5, <2>8, <2>11
    <3> HIDE DEF Y
    <3>4. Cascading(m_ptr, live', count', raw, steps') BY <2>3, <3>1, <3>2, <3>3, CascadingIntro
    <3> QED BY <1>1, <1>7, <1>11, <2>1, <2>4, <3>4 DEF SoundNext, Sound
  <2> QED
    <3>1. PICK d \in Destructor(x, z) : steps' = d \o t BY <2>1
    <3>2. <<<<"clear", z>>, <<"clear", x>>>> \o t = <<<<"clear", z>>>> \o (<<<<"clear", x>>>> \o t)
      BY <2>5, ConsTwo
    <3> QED BY <2>10, <2>11, <3>1, <3>2 DEF Destructor
<1> QED BY <1>14, <1>15

-----------------------------------------------------------------------------
(* What the invariant says of a state *)

\* No count is higher than all slots, the program's references and one more.
LEMMA CountBounded ==
    ASSUME NEW f, NEW l, NEW c, NEW r, NEW st, Typed(f, l, c, r), r \in [Object -> 0..MaxRaw],
           Sound(f, l, c, r, st)
    PROVE  c \in [Object -> 0..(Cardinality(Slot) + MaxRaw + 1)]
<1>1. MaxRaw \in Nat /\ Cardinality(Slot) \in Nat BY SlotAssumption, SlotsNat
<1> SUFFICES ASSUME NEW o \in Object PROVE c[o] <= Cardinality(Slot) + MaxRaw + 1
  <2>1. \A o \in Object : c[o] \in Nat BY DEF Typed
  <2>2. \A o \in Object : c[o] \in 0..(Cardinality(Slot) + MaxRaw + 1) BY <1>1, <2>1
  <2> QED BY <2>2 DEF Typed
<1>2. /\ RefsOf(f, o) \in Nat /\ RefsOf(f, o) <= Cardinality(Slot) /\ One(o, Null) = 0
      /\ r[o] \in Nat /\ r[o] <= MaxRaw /\ c[o] \in Nat
  BY <1>1, RefsNat, SlotAssumption DEF Typed, One
<1>3. CASE Counting(f, l, c, r, st)
  <2>1. PICK p \in Slot : c[o] + One(f[p], o) = RefsOf(f, o) + r[o] BY <1>3 DEF Counting
  <2>2. One(f[p], o) \in 0..1 BY OneNat
  <2> QED BY <1>1, <1>2, <2>1, <2>2
<1>4. CASE Cascading(f, l, c, r, st)
  <2>1. PICK p \in Slot \cup {Null}, g \in Object \cup {Null}, R \in SUBSET l, Z \in SUBSET Slot,
             rest \in Seq(Steps), b \in Seq(Steps) :
             /\ Cascade(rest, b, Z) /\ Behind(b, p, g, R)
             /\ Supported(f, r, R, p, g) /\ Z \cap (R \ {p}) = {}
             /\ Doing(f, l, c, r, st, rest, b, p, g, R, Z)
    BY <1>4 DEF Cascading
  <2>2. One(o, g) \in 0..1 BY OneNat
  <2>3. CASE Balanced(f, c, r, Null, g)
    <3>1. c[o] = RefsOf(f, o) + r[o] + One(o, Null) + One(o, g) BY <2>3 DEF Balanced
    <3> QED BY <1>1, <1>2, <2>2, <3>1
  <2>4. CASE \E x \in Object, z \in Slot : Balanced(f, c, r, x, g) /\ (f[z] = Null \/ g = Null)
    <3>1. PICK x \in Object, z \in Slot : Balanced(f, c, r, x, g) /\ (f[z] = Null \/ g = Null)
      BY <2>4
    <3>2. c[o] = RefsOf(f, o) + r[o] + One(o, x) + One(o, g) /\ One(o, x) \in 0..1
      BY <3>1, OneNat DEF Balanced
    <3>3. CASE g = Null BY <1>1, <1>2, <3>2, <3>3
    <3>4. CASE f[z] = Null
      <4>1. f[z] # o BY <3>4, SlotAssumption
      <4>2. RefsOf(f, o) <= Cardinality(Slot) - 1 BY <4>1, RefsFewer
      <4> QED BY <1>1, <1>2, <2>2, <3>2, <4>2
    <3> QED BY <3>1, <3>3, <3>4
  <2> QED BY <2>1, <2>3, <2>4 DEF Doing
<1> QED BY <1>3, <1>4 DEF Sound

LEMMA SoundCallsNoDead == ASSUME ReadyToStep PROVE NothingCalledDead
<1> SUFFICES ASSUME steps # <<>>
             PROVE  /\ Taking("release") => Next1[2] \in alive
                    /\ Taking("addref") => m_ptr[Next1[2]] \in alive \cup {Null}
                    /\ Taking("take") => {Next1[2], Next1[3]} \subseteq live
                    /\ Taking("set") => Next1[2] \in live \/ Next1[3] = Null
  BY DEF NothingCalledDead
<1>1. CASE Counting(m_ptr, live, count, raw, steps)
  <2>1. Next1[1] = "addref" BY <1>1, WhatCounting
  <2>2. PICK p \in Slot : steps = <<<<"addref", p>>>> /\ m_ptr[p] \in live \cup {Null}
    BY <1>1 DEF Counting
  <2>3. Next1[2] = p BY <2>2 DEF Next1
  <2>4. m_ptr[p] \in alive \cup {Null} BY <2>2 DEF ReadyToStep, Typed
  <2> QED BY <2>1, <2>3, <2>4 DEF Taking
<1>2. CASE ~Counting(m_ptr, live, count, raw, steps)
  <2>1. PICK p \in Slot \cup {Null}, g \in Object \cup {Null}, R \in SUBSET live, b \in Seq(Steps) :
              \/ Next1[1] = "clear" /\ ClearNext(m_ptr, live, count, raw, steps, p, g, R, b)
              \/ Next1[1] = "set" /\ SetNext(m_ptr, live, count, raw, steps, p, g, R, b)
              \/ Next1[1] = "release" /\ ReleaseNext(m_ptr, live, count, raw, steps, p, g, R, b)
              \/ /\ Next1[1] \in {"set", "take"}
                 /\ BottomNext(m_ptr, live, count, raw, steps, p, g, R, b)
    BY <1>2, WhatNext
  <2>2. CASE Next1[1] = "clear" BY <2>2 DEF Taking
  <2>3. CASE Next1[1] = "set" /\ SetNext(m_ptr, live, count, raw, steps, p, g, R, b)
    <3>1. PICK z \in Slot : Head(steps) = <<"set", z, Null>> BY <2>3 DEF SetNext
    <3>2. Next1[3] = Null BY <3>1 DEF Next1
    <3> QED BY <2>3, <3>2 DEF Taking
  <2>4. CASE Next1[1] = "release" /\ ReleaseNext(m_ptr, live, count, raw, steps, p, g, R, b)
    <3>1. PICK z \in Slot, x \in Object :
             Head(steps) = <<"release", x, z>> /\ Balanced(m_ptr, count, raw, x, g)
      BY <2>4 DEF ReleaseNext
    <3>2. Next1[2] = x BY <3>1 DEF Next1
    <3>3. /\ RefsOf(m_ptr, x) \in Nat /\ raw[x] \in Nat /\ One(x, g) \in 0..1 /\ One(x, x) = 1
          /\ count[x] = RefsOf(m_ptr, x) + raw[x] + One(x, x) + One(x, g)
      BY <3>1, RefsNat, OneNat DEF ReadyToStep, Typed, Balanced, One
    <3>4. count[x] > 0 BY <3>3
    <3>5. x \in alive BY <3>4 DEF ReadyToStep, Sound, Lively
    <3> QED BY <2>4, <3>2, <3>5 DEF Taking
  <2>5. CASE /\ Next1[1] \in {"set", "take"}
             /\ BottomNext(m_ptr, live, count, raw, steps, p, g, R, b)
    <3>1. steps = b /\ Behind(b, p, g, R) BY <2>5 DEF BottomNext
    <3>2. p \in live BY <3>1, WhatBehind
    <3>3. CASE Next1[1] = "set"
      <4>1. Head(b)[1] = "set" BY <3>1, <3>3 DEF Next1
      <4>2. \E v : Head(b) = <<"set", p, v>> BY <3>1, <4>1, WhatBehind
      <4>3. Next1[2] = p BY <3>1, <4>2 DEF Next1
      <4> QED BY <3>2, <3>3, <4>3 DEF Taking
    <3>4. CASE Next1[1] = "take"
      <4>1. Head(b)[1] = "take" BY <3>1, <3>4 DEF Next1
      <4>2. PICK q \in R \ {p} : Head(b) = <<"take", p, q>> BY <3>1, <4>1, WhatBehind
      <4>3. Next1[2] = p /\ Next1[3] = q BY <3>1, <4>2 DEF Next1
      <4> QED BY <3>2, <3>4, <4>3 DEF Taking
    <3> QED BY <2>5, <3>3, <3>4
  <2> QED BY <2>1, <2>2, <2>3, <2>4, <2>5
<1> QED BY <1>1, <1>2

\* What is set and taken are pointers.
LEMMA PointersTyped ==
    ASSUME ReadyToStep, Set \/ Take PROVE m_ptr' \in [Slot -> Object \cup {Null}]
<1>1. m_ptr \in [Slot -> Object \cup {Null}] /\ live \subseteq Slot BY DEF ReadyToStep, Typed
<1>2. steps # <<>> /\ Next1[1] \in {"set", "take"} BY DEF Set, Take, Taking
<1>3. ~Counting(m_ptr, live, count, raw, steps) BY <1>2, WhatCounting
<1>4. PICK p \in Slot \cup {Null}, g \in Object \cup {Null}, R \in SUBSET live, b \in Seq(Steps) :
              \/ Next1[1] = "set" /\ SetNext(m_ptr, live, count, raw, steps, p, g, R, b)
              \/ /\ Next1[1] \in {"set", "take"}
                 /\ BottomNext(m_ptr, live, count, raw, steps, p, g, R, b)
  BY <1>2, <1>3, WhatNext
<1>5. CASE Set
  <2>1. m_ptr' = [m_ptr EXCEPT ![Next1[2]] = Next1[3]] /\ Next1[1] = "set" BY <1>5 DEF Set, Taking
  <2>2. Next1[3] \in Object \cup {Null}
    <3>1. CASE SetNext(m_ptr, live, count, raw, steps, p, g, R, b)
      <4>1. PICK z \in Slot : Head(steps) = <<"set", z, Null>> BY <3>1 DEF SetNext
      <4> QED BY <4>1 DEF Next1
    <3>2. CASE BottomNext(m_ptr, live, count, raw, steps, p, g, R, b)
      <4>1. steps = b /\ Behind(b, p, g, R) BY <3>2 DEF BottomNext
      <4>2. Head(b)[1] = "set" BY <2>1, <4>1 DEF Next1
      <4>3. PICK v \in Object \cup {Null} : Head(b) = <<"set", p, v>>
        BY <1>2, <4>1, <4>2, WhatBehind
      <4> QED BY <4>1, <4>3 DEF Next1
    <3> QED BY <1>4, <3>1, <3>2
  <2> QED BY <1>1, <2>1, <2>2
<1>6. CASE Take
  <2>1. /\ m_ptr' = [m_ptr EXCEPT ![Next1[2]] = m_ptr[Next1[3]], ![Next1[3]] = Null]
        /\ Next1[1] = "take"
    BY <1>6 DEF Take, Taking
  <2>2. BottomNext(m_ptr, live, count, raw, steps, p, g, R, b) BY <1>4, <2>1
  <2>3. steps = b /\ Behind(b, p, g, R) BY <2>2 DEF BottomNext
  <2>4. Head(b)[1] = "take" BY <2>1, <2>3 DEF Next1
  <2>5. PICK q \in R \ {p} : Head(b) = <<"take", p, q>> BY <1>2, <2>3, <2>4, WhatBehind
  <2>6. Next1[3] = q /\ q \in Slot BY <1>1, <2>3, <2>5 DEF Next1
  <2> QED BY <1>1, <2>1, <2>6
<1> QED BY <1>5, <1>6

-----------------------------------------------------------------------------
(* The operations *)

LEMMA IdleFacts ==
    ASSUME IInv, idle
    PROVE  /\ Idle /\ Typed(m_ptr, live, count, raw)
           /\ raw \in [Object -> 0..MaxRaw] /\ live \subseteq Slot
           /\ fromInside = FALSE
<1>1. TypeOK /\ Sound(m_ptr, live, count, raw, <<>>) /\ fromInside = FALSE BY DEF IInv, idle
<1>2. MaxRaw \in Nat /\ Cardinality(Slot) \in Nat BY SlotAssumption, SlotsNat
<1>3. 0..MaxRaw \subseteq Nat /\ 0..(Cardinality(Slot) + MaxRaw + 1) \subseteq Nat BY <1>2
<1>4. raw \in [Object -> Nat] /\ count \in [Object -> Nat] BY <1>1, <1>3 DEF TypeOK
<1>5. Typed(m_ptr, live, count, raw) BY <1>1, <1>4 DEF TypeOK, Typed
<1> QED BY <1>1, <1>5, SoundIsSettled DEF Idle, TypeOK

LEMMA Rebuild ==
    ASSUME Typed(m_ptr', live', count', raw'), raw' \in [Object -> 0..MaxRaw],
           alive' = live' \cap Object, fromInside' = FALSE, SoundNext
    PROVE  IInv'
<1>1. count' \in [Object -> 0..(Cardinality(Slot) + MaxRaw + 1)] BY CountBounded DEF SoundNext
<1>2. TypeOK' BY <1>1 DEF TypeOK, Typed
<1> QED BY <1>2 DEF IInv, SoundNext

LEMMA RebuildSettled ==
    ASSUME Settled(m_ptr', live', count', raw'), raw' \in [Object -> 0..MaxRaw],
           alive' = live' \cap Object, fromInside' = FALSE, steps' = <<>>
    PROVE  IInv'
<1>1. Sound(m_ptr', live', count', raw', <<>>) BY SettledIsSound
<1>2. SoundNext BY <1>1 DEF SoundNext
<1>3. Typed(m_ptr', live', count', raw') BY DEF Settled, Typed
<1> QED BY <1>2, <1>3, Rebuild

LEMMA RebuildInside ==
    ASSUME IInv, UNCHANGED <<m_ptr, live, alive, count, raw>>, fromInside' = TRUE, steps' # <<>>
    PROVE  IInv'
<1>1. TypeOK' BY DEF IInv, TypeOK
<1> QED BY <1>1 DEF IInv

\* A cascade begins with a slot that gives up its reference.
LEMMA CascadeBegins ==
    ASSUME NEW f, NEW l, NEW c, NEW r, Lively(l, c), \A s \in Slot \ l : f[s] = Null,
           NEW p \in Slot, NEW g \in Object \cup {Null}, NEW R \in SUBSET l, NEW b \in Seq(Steps),
           Behind(b, p, g, R), Supported(f, r, R, p, g), Balanced(f, c, r, Null, g)
    PROVE  Sound(f, l, c, r, <<<<"clear", p>>>> \o b)
<1> DEFINE rest == <<<<"clear", p>>>> \o b
<1>1. Cascade(b, b, {}) BY CascadeNone
<1>2. Cascade(rest, b, {} \cup {p}) BY <1>1, CascadePush
<1>3. rest \in Seq(Steps) BY ClearStep, Cons
<1>4. {} \cup {p} = {p} /\ {p} \in SUBSET Slot /\ {p} \cap (R \ {p}) = {} OBVIOUS
<1> HIDE DEF rest
<1>5. Below(f, r, rest, b, p, g, R, {p}) BY <1>2, <1>4 DEF Below
<1>6. Given(f, l, b, p, {p}) BY DEF Given
<1>7. Doing(f, l, c, r, rest, rest, b, p, g, R, {p}) BY <1>6 DEF Doing
<1>8. Cascading(f, l, c, r, rest) BY <1>3, <1>4, <1>5, <1>7, CascadingIntro
<1> QED BY <1>8 DEF Sound, rest

LEMMA OneIsCons == ASSUME NEW x \in Steps PROVE <<x>> = <<x>> \o <<>>
<1>1. <<x>> \in Seq(Steps) OBVIOUS
<1> QED BY <1>1, ConcatEmptySeq

LEMMA TwoIsCons == ASSUME NEW x \in Steps, NEW y \in Steps PROVE <<x, y>> = <<x>> \o <<y>>
<1>1. <<>> \in Seq(Steps) /\ <<x, y>> \in Seq(Steps) OBVIOUS
<1>2. <<x, y>> \o <<>> = <<x>> \o (<<y>> \o <<>>) BY <1>1, ConsTwo
<1> QED BY <1>1, <1>2, OneIsCons, ConcatEmptySeq

LEMMA ThreeIsCons ==
    ASSUME NEW x \in Steps, NEW y \in Steps, NEW z \in Steps
    PROVE  <<x, y, z>> = <<x>> \o <<y, z>>
<1>1. /\ <<x>> \in Seq(Steps) /\ Len(<<x>>) = 1 /\ <<x>>[1] = x
      /\ <<y, z>> \in Seq(Steps) /\ Len(<<y, z>>) = 2 /\ <<y, z>>[1] = y /\ <<y, z>>[2] = z
      /\ <<x, y, z>> \in Seq(Steps) /\ Len(<<x, y, z>>) = 3
      /\ <<x, y, z>>[1] = x /\ <<x, y, z>>[2] = y /\ <<x, y, z>>[3] = z
  OBVIOUS
<1>2. /\ <<x>> \o <<y, z>> \in Seq(Steps) /\ Len(<<x>> \o <<y, z>>) = 3
      /\ (<<x>> \o <<y, z>>)[1] = x /\ (<<x>> \o <<y, z>>)[2] = y /\ (<<x>> \o <<y, z>>)[3] = z
  BY <1>1, ConcatProperties
<1>3. \A i \in 1..3 : <<x, y, z>>[i] = (<<x>> \o <<y, z>>)[i] BY <1>1, <1>2
<1> QED BY <1>1, <1>2, <1>3, SeqEqual

LEMMA SettledBalanced ==
    ASSUME NEW f, NEW l, NEW c, NEW r, Settled(f, l, c, r)
    PROVE  Balanced(f, c, r, Null, Null)
<1> SUFFICES ASSUME NEW o \in Object
             PROVE c[o] = RefsOf(f, o) + r[o] + One(o, Null) + One(o, Null)
  BY DEF Balanced
<1>1. One(o, Null) = 0 BY SlotAssumption DEF One
<1>2. RefsOf(f, o) \in Nat /\ r[o] \in Nat /\ c[o] = RefsOf(f, o) + r[o] BY RefsNat DEF Settled
<1> QED BY <1>1, <1>2

LEMMA ConstructIInv == ASSUME IInv, NEW p \in Slot, Construct(p) PROVE IInv'
<1>1. /\ idle /\ p \in Variable \ live /\ live' = live \cup {p}
      /\ UNCHANGED <<alive, count, raw, m_ptr, steps, fromInside>>
  BY DEF Construct, unchangedObjects
<1>2. /\ Settled(m_ptr, live, count, raw) /\ alive = live \cap Object
      /\ raw \in [Object -> 0..MaxRaw] /\ fromInside = FALSE /\ steps = <<>>
  BY <1>1, IdleFacts DEF Idle, idle
<1>3. p \notin Object BY <1>1, SlotAssumption
<1>4. Lively(live', count) BY <1>1, <1>2, <1>3 DEF Settled, Lively
<1>5. Settled(m_ptr, live', count, raw) BY <1>1, <1>2, <1>4 DEF Settled
<1> QED BY <1>1, <1>2, <1>3, <1>5, RebuildSettled

LEMMA DestroyIInv == ASSUME IInv, NEW p \in Slot, Destroy(p) PROVE IInv'
<1>1. /\ idle /\ p \in Variable \cap live /\ live' = live \ {p} /\ steps' = <<<<"clear", p>>>>
      /\ UNCHANGED <<alive, count, raw, m_ptr, fromInside>>
  BY DEF Destroy, unchangedObjects
<1>2. /\ Settled(m_ptr, live, count, raw) /\ alive = live \cap Object
      /\ raw \in [Object -> 0..MaxRaw] /\ fromInside = FALSE
  BY <1>1, IdleFacts DEF Idle
<1>3. p \notin Object BY <1>1, SlotAssumption
<1>4. Lively(live', count) BY <1>1, <1>2, <1>3 DEF Settled, Lively
<1>5. Typed(m_ptr, live', count, raw) BY <1>1, <1>2 DEF Settled, Typed
<1> DEFINE rest == <<<<"clear", p>>>> \o <<>>
<1>6. <<>> \in Seq(Steps) /\ Cascade(<<>>, <<>>, {})
  <2>1. <<>> \in Seq(Steps) OBVIOUS
  <2> QED BY <2>1, CascadeNone
<1>7. Cascade(rest, <<>>, {} \cup {p}) /\ rest \in Seq(Steps) BY <1>6, ClearStep, CascadePush, Cons
<1>8. {} \cup {p} = {p} /\ {p} \in SUBSET Slot OBVIOUS
<1>9. steps' = rest BY <1>1, ClearStep, OneIsCons
<1> HIDE DEF rest
<1>10. Below(m_ptr, raw, rest, <<>>, p, Null, {}, {p})
  BY <1>7, <1>8 DEF Below, Behind, Supported
<1>11. Given(m_ptr, live', <<>>, p, {p}) BY <1>1, <1>2 DEF Given, Settled
<1>12. Doing(m_ptr, live', count, raw, rest, rest, <<>>, p, Null, {}, {p})
  BY <1>2, <1>11, SettledBalanced DEF Doing
<1>13. Cascading(m_ptr, live', count, raw, rest) 
  <2>1. {} \in SUBSET live' OBVIOUS
  <2> QED BY <1>6, <1>7, <1>8, <1>10, <1>12, <2>1, CascadingIntro
<1>14. SoundNext BY <1>1, <1>4, <1>9, <1>13 DEF SoundNext, Sound
<1> QED BY <1>1, <1>2, <1>3, <1>5, <1>14, Rebuild

LEMMA DetachIInv == ASSUME IInv, NEW p \in Slot, Detach(p) PROVE IInv'
<1>1. /\ idle /\ p \in Usable /\ m_ptr[p] # Null /\ raw[m_ptr[p]] < MaxRaw
      /\ raw' = [raw EXCEPT ![m_ptr[p]] = @ + 1]
      /\ m_ptr' = [m_ptr EXCEPT ![p] = Null]
      /\ UNCHANGED <<live, alive, count, steps, fromInside>>
  BY DEF Detach
<1>2. /\ Settled(m_ptr, live, count, raw) /\ alive = live \cap Object
      /\ raw \in [Object -> 0..MaxRaw] /\ fromInside = FALSE /\ steps = <<>> /\ Idle
  BY <1>1, IdleFacts DEF Idle, idle
<1>3. p \in Slot /\ p \in live /\ m_ptr[p] \in Object /\ MaxRaw \in Nat
  BY <1>1, <1>2, UsableLive, SlotAssumption DEF Settled
<1>4. m_ptr' \in [Slot -> Object \cup {Null}] /\ m_ptr'[p] = Null /\ OneDiffers(m_ptr, m_ptr', p)
  BY <1>1, <1>2 DEF Settled, OneDiffers
<1>5. raw' \in [Object -> 0..MaxRaw] /\ raw' \in [Object -> Nat]
  <2>1. raw[m_ptr[p]] + 1 \in 0..MaxRaw BY <1>1, <1>2, <1>3
  <2>2. raw' \in [Object -> 0..MaxRaw] BY <1>1, <1>2, <2>1
  <2>3. 0..MaxRaw \subseteq Nat BY <1>3
  <2> QED BY <2>2, <2>3
<1>6. ASSUME NEW o \in Object PROVE count[o] = RefsOf(m_ptr', o) + raw'[o]
  <2>1. RefsOf(m_ptr', o) + One(m_ptr[p], o) = RefsOf(m_ptr, o) + One(m_ptr'[p], o)
    BY <1>3, <1>4, RefsUpdate
  <2>2. One(m_ptr'[p], o) = 0 /\ One(m_ptr[p], o) \in 0..1 BY <1>4, OneNat, SlotAssumption DEF One
  <2>3. raw[o] \in Nat /\ RefsOf(m_ptr, o) \in Nat /\ RefsOf(m_ptr', o) \in Nat
        /\ count[o] = RefsOf(m_ptr, o) + raw[o]
    BY <1>2, RefsNat DEF Settled
  <2>4. raw'[o] = raw[o] + One(m_ptr[p], o)
    <3>1. raw'[o] = IF o = m_ptr[p] THEN raw[o] + 1 ELSE raw[o] BY <1>1, <1>2
    <3> QED BY <2>3, <3>1 DEF One
  <2> QED BY <2>1, <2>2, <2>3, <2>4
<1>7. \A s \in Slot \ live : m_ptr'[s] = Null BY <1>2, <1>3, <1>4 DEF Settled, OneDiffers
<1>8. Settled(m_ptr', live, count, raw') BY <1>2, <1>4, <1>5, <1>6, <1>7 DEF Settled
<1> QED BY <1>1, <1>2, <1>5, <1>8, RebuildSettled

\* A slot has taken a reference, and counts it next.
LEMMA CountingBegins ==
    ASSUME NEW f, NEW l, NEW c, NEW r, Lively(l, c), NEW p \in Slot,
           \A o \in Object : c[o] + One(f[p], o) = RefsOf(f, o) + r[o],
           f[p] \in l \cup {Null}, \A s \in Slot \ l : f[s] = Null
    PROVE  Sound(f, l, c, r, <<<<"addref", p>>>>)
<1>1. Counting(f, l, c, r, <<<<"addref", p>>>>) BY DEF Counting
<1> QED BY <1>1 DEF Sound

LEMMA CopyToIInv == ASSUME IInv, NEW p \in Slot, CopyTo(p) PROVE IInv'
<1>1. /\ idle /\ p \in Usable /\ m_ptr[p] # Null /\ raw[m_ptr[p]] < MaxRaw
      /\ raw' = [raw EXCEPT ![m_ptr[p]] = @ + 1]
      /\ steps' = <<<<"addref", p>>>>
      /\ UNCHANGED <<m_ptr, live, alive, count, fromInside>>
  BY DEF CopyTo
<1>2. /\ Settled(m_ptr, live, count, raw) /\ alive = live \cap Object
      /\ raw \in [Object -> 0..MaxRaw] /\ fromInside = FALSE /\ Idle
  BY <1>1, IdleFacts DEF Idle
<1>3. p \in Slot /\ m_ptr[p] \in Object /\ m_ptr[p] \in live /\ MaxRaw \in Nat
  BY <1>1, <1>2, PointedLives, SlotAssumption DEF Settled
<1>4. raw' \in [Object -> 0..MaxRaw] /\ raw' \in [Object -> Nat]
  <2>1. raw[m_ptr[p]] + 1 \in 0..MaxRaw BY <1>1, <1>2, <1>3
  <2>2. raw' \in [Object -> 0..MaxRaw] BY <1>1, <1>2, <2>1
  <2>3. 0..MaxRaw \subseteq Nat BY <1>3
  <2> QED BY <2>2, <2>3
<1>5. ASSUME NEW o \in Object PROVE count[o] + One(m_ptr[p], o) = RefsOf(m_ptr, o) + raw'[o]
  <2>1. raw[o] \in Nat /\ RefsOf(m_ptr, o) \in Nat /\ count[o] = RefsOf(m_ptr, o) + raw[o]
    BY <1>2, RefsNat DEF Settled
  <2>2. raw'[o] = raw[o] + One(m_ptr[p], o)
    <3>1. raw'[o] = IF o = m_ptr[p] THEN raw[o] + 1 ELSE raw[o] BY <1>1, <1>2
    <3> QED BY <2>1, <3>1 DEF One
  <2>3. One(m_ptr[p], o) \in 0..1 BY OneNat
  <2> QED BY <2>1, <2>2, <2>3
<1>6. Lively(live, count) /\ \A s \in Slot \ live : m_ptr[s] = Null BY <1>2 DEF Settled
<1>7. Sound(m_ptr, live, count, raw', steps') BY <1>1, <1>3, <1>5, <1>6, CountingBegins
<1>8. Typed(m_ptr, live, count, raw') BY <1>2, <1>4 DEF Settled, Typed
<1> QED BY <1>1, <1>2, <1>4, <1>7, <1>8, Rebuild DEF SoundNext

LEMMA CopyConstructIInv ==
    ASSUME IInv, NEW p \in Slot, NEW q \in Slot, CopyConstruct(p, q) PROVE IInv'
<1>1. /\ idle /\ p \in Variable \ live /\ q \in Usable /\ live' = live \cup {p}
      /\ m_ptr' = [m_ptr EXCEPT ![p] = m_ptr[q]] /\ steps' = <<<<"addref", p>>>>
      /\ UNCHANGED <<alive, count, raw, fromInside>>
  BY DEF CopyConstruct, unchangedObjects
<1>2. /\ Settled(m_ptr, live, count, raw) /\ alive = live \cap Object
      /\ raw \in [Object -> 0..MaxRaw] /\ fromInside = FALSE /\ Idle
  BY <1>1, IdleFacts DEF Idle
<1>3. p \notin Object /\ m_ptr[p] = Null /\ p \notin live BY <1>1, <1>2, SlotAssumption DEF Settled
<1>4. m_ptr' \in [Slot -> Object \cup {Null}] /\ m_ptr'[p] = m_ptr[q] /\ OneDiffers(m_ptr, m_ptr', p)
  BY <1>1, <1>2 DEF Settled, OneDiffers
<1>5. ASSUME NEW o \in Object PROVE count[o] + One(m_ptr'[p], o) = RefsOf(m_ptr', o) + raw[o]
  <2>1. RefsOf(m_ptr', o) + One(m_ptr[p], o) = RefsOf(m_ptr, o) + One(m_ptr'[p], o)
    BY <1>4, RefsUpdate
  <2>2. One(m_ptr[p], o) = 0 /\ One(m_ptr'[p], o) \in 0..1 BY <1>3, OneNat, SlotAssumption DEF One
  <2>3. raw[o] \in Nat /\ RefsOf(m_ptr, o) \in Nat /\ RefsOf(m_ptr', o) \in Nat
        /\ count[o] = RefsOf(m_ptr, o) + raw[o]
    BY <1>2, RefsNat DEF Settled
  <2> QED BY <2>1, <2>2, <2>3
<1>6. m_ptr'[p] \in live' \cup {Null} BY <1>1, <1>2, <1>4, PointedLives
<1>7. \A s \in Slot \ live' : m_ptr'[s] = Null BY <1>1, <1>2, <1>4 DEF Settled, OneDiffers
<1>8. Lively(live', count) BY <1>1, <1>2, <1>3 DEF Settled, Lively
<1>9. Sound(m_ptr', live', count, raw, steps') BY <1>1, <1>5, <1>6, <1>7, <1>8, CountingBegins
<1>10. Typed(m_ptr', live', count, raw) BY <1>1, <1>2, <1>4 DEF Settled, Typed
<1> QED BY <1>1, <1>2, <1>3, <1>9, <1>10, Rebuild DEF SoundNext

LEMMA MoveConstructIInv ==
    ASSUME IInv, NEW p \in Slot, NEW q \in Slot, MoveConstruct(p, q) PROVE IInv'
<1>1. /\ idle /\ p \in Variable \ live /\ q \in Usable /\ live' = live \cup {p}
      /\ m_ptr' = [m_ptr EXCEPT ![p] = m_ptr[q], ![q] = Null]
      /\ UNCHANGED <<alive, count, raw, steps, fromInside>>
  BY DEF MoveConstruct, unchangedObjects
<1>2. /\ Settled(m_ptr, live, count, raw) /\ alive = live \cap Object
      /\ raw \in [Object -> 0..MaxRaw] /\ fromInside = FALSE /\ Idle /\ steps = <<>>
  BY <1>1, IdleFacts DEF Idle, idle
<1>3. p \notin Object /\ m_ptr[p] = Null /\ q \in live /\ p # q
  BY <1>1, <1>2, UsableLive, SlotAssumption DEF Settled
<1>4. Lively(live', count) BY <1>1, <1>2, <1>3 DEF Settled, Lively
<1>5. Settled(m_ptr, live', count, raw) BY <1>1, <1>2, <1>4 DEF Settled
<1>6. /\ m_ptr' \in [Slot -> Object \cup {Null}] /\ m_ptr'[p] = m_ptr[q] /\ m_ptr'[q] = m_ptr[p]
      /\ \A s \in Slot \ {p, q} : m_ptr'[s] = m_ptr[s]
  BY <1>1, <1>2, <1>3 DEF Settled
<1>7. p \in live' /\ q \in live' BY <1>1, <1>3
<1>8. Settled(m_ptr', live', count, raw) BY <1>5, <1>6, <1>7, ExchangeSettled
<1> QED BY <1>1, <1>2, <1>3, <1>8, RebuildSettled

LEMMA SwapIInv == ASSUME IInv, NEW p \in Slot, NEW q \in Slot, Swap(p, q) PROVE IInv'
<1>1. /\ idle /\ p \in Usable /\ q \in Usable
      /\ m_ptr' = [m_ptr EXCEPT ![p] = m_ptr[q], ![q] = m_ptr[p]]
      /\ UNCHANGED <<alive, count, raw, live, steps, fromInside>>
  BY DEF Swap, unchangedObjects
<1>2. /\ Settled(m_ptr, live, count, raw) /\ alive = live \cap Object
      /\ raw \in [Object -> 0..MaxRaw] /\ fromInside = FALSE /\ Idle /\ steps = <<>>
  BY <1>1, IdleFacts DEF Idle, idle
<1>3. p \in live /\ q \in live BY <1>1, <1>2, UsableLive
<1>4. /\ m_ptr' \in [Slot -> Object \cup {Null}] /\ m_ptr'[p] = m_ptr[q] /\ m_ptr'[q] = m_ptr[p]
      /\ \A s \in Slot \ {p, q} : m_ptr'[s] = m_ptr[s]
  BY <1>1, <1>2 DEF Settled
<1>5. Settled(m_ptr', live, count, raw) BY <1>2, <1>3, <1>4, ExchangeSettled
<1> QED BY <1>1, <1>2, <1>5, RebuildSettled

LEMMA CopyAssignIInv ==
    ASSUME IInv, NEW p \in Slot, NEW q \in Slot, CopyAssign(p, q) PROVE IInv'
<1>1. /\ idle /\ p \in Usable /\ q \in Usable /\ steps' = copy_ref(p, m_ptr[q])
      /\ fromInside' = (m_ptr[p] # m_ptr[q] /\ q \in KeptBy(p))
      /\ UNCHANGED <<alive, count, raw, m_ptr, live>>
  BY DEF CopyAssign, unchangedObjects
<1>2. /\ Settled(m_ptr, live, count, raw) /\ alive = live \cap Object
      /\ raw \in [Object -> 0..MaxRaw] /\ fromInside = FALSE /\ Idle
      /\ Typed(m_ptr, live, count, raw)
  BY <1>1, IdleFacts DEF Idle
<1>3. CASE m_ptr[p] = m_ptr[q]
  <2>1. steps' = <<>> /\ fromInside' = FALSE BY <1>1, <1>3 DEF copy_ref
  <2> QED BY <1>1, <1>2, <2>1, RebuildSettled
<1> DEFINE v == m_ptr[q]
           b == <<<<"set", p, v>>, <<"addref", p>>>>
<1>4. /\ v \in Object \cup {Null} /\ v \in Slot \cup {Null}
      /\ <<"set", p, v>> \in Steps /\ <<"addref", p>> \in Steps /\ <<"clear", p>> \in Steps
  BY <1>2, StepsMade, ClearStep DEF Typed, Slot, Steps
<1>5. m_ptr[p] # m_ptr[q] => steps' = <<<<"clear", p>>, <<"set", p, v>>, <<"addref", p>>>>
  BY <1>1 DEF copy_ref
<1>6. CASE m_ptr[p] # m_ptr[q] /\ q \in KeptBy(p)
  <2>1. fromInside' = TRUE BY <1>1, <1>6
  <2>2. <<<<"clear", p>>, <<"set", p, v>>, <<"addref", p>>>> # <<>> OBVIOUS
  <2>3. steps' # <<>> BY <1>5, <1>6, <2>2
  <2> HIDE DEF v
  <2> QED BY <1>1, <2>1, <2>3, RebuildInside
<1>7. CASE m_ptr[p] # m_ptr[q] /\ q \notin KeptBy(p)
  <2> DEFINE R == live \ KeptBy(p)
  <2>1. q # p BY <1>7
  <2>2. v \in (R \cap Object) \cup {Null} BY <1>1, <1>2, <1>7, <2>1, SurvivesToo
  <2>3. p \in R BY <1>1, <1>2, KeptNotSelf
  <2>4. Supported(m_ptr, raw, R, p, Null) BY <1>1, <1>2, Survive
  <2> HIDE DEF v, R
  <2>5. Behind(b, p, Null, R) BY <2>2, <2>3 DEF Behind
  <2>6. b \in Seq(Steps) BY <1>4
  <2>7. steps' = <<<<"clear", p>>>> \o b BY <1>4, <1>5, <1>7, ThreeIsCons
  <2>8. Lively(live, count) /\ \A s \in Slot \ live : m_ptr[s] = Null BY <1>2 DEF Settled
  <2>9. Balanced(m_ptr, count, raw, Null, Null) BY <1>2, SettledBalanced
  <2>10. R \in SUBSET live BY DEF R
  <2> HIDE DEF b
  <2>11. Sound(m_ptr, live, count, raw, steps')
    BY <2>4, <2>5, <2>6, <2>7, <2>8, <2>9, <2>10, CascadeBegins
  <2> QED BY <1>1, <1>2, <1>7, <2>11, Rebuild DEF SoundNext
<1> QED BY <1>3, <1>6, <1>7

LEMMA MoveAssignIInv ==
    ASSUME IInv, NEW p \in Slot, NEW q \in Slot, MoveAssign(p, q) PROVE IInv'
<1>1. /\ idle /\ p \in Usable /\ q \in Usable
      /\ steps' = IF p = q THEN <<>> ELSE <<<<"clear", p>>, <<"take", p, q>>>>
      /\ fromInside' = (p # q /\ q \in KeptBy(p))
      /\ UNCHANGED <<alive, count, raw, m_ptr, live>>
  BY DEF MoveAssign, unchangedObjects
<1>2. /\ Settled(m_ptr, live, count, raw) /\ alive = live \cap Object
      /\ raw \in [Object -> 0..MaxRaw] /\ fromInside = FALSE /\ Idle
      /\ Typed(m_ptr, live, count, raw)
  BY <1>1, IdleFacts DEF Idle
<1>3. CASE p = q
  <2>1. steps' = <<>> /\ fromInside' = FALSE BY <1>1, <1>3
  <2> QED BY <1>1, <1>2, <2>1, RebuildSettled
<1> DEFINE b == <<<<"take", p, q>>>>
<1>4. <<"take", p, q>> \in Steps /\ <<"clear", p>> \in Steps BY StepsMade, ClearStep
<1>5. p # q => steps' = <<<<"clear", p>>, <<"take", p, q>>>> BY <1>1
<1>6. CASE p # q /\ q \in KeptBy(p)
  <2>1. fromInside' = TRUE BY <1>1, <1>6
  <2>2. <<<<"clear", p>>, <<"take", p, q>>>> # <<>> OBVIOUS
  <2>3. steps' # <<>> BY <1>5, <1>6, <2>2
  <2> QED BY <1>1, <2>1, <2>3, RebuildInside
<1>7. CASE p # q /\ q \notin KeptBy(p)
  <2> DEFINE R == live \ KeptBy(p)
  <2>1. q \in R \ {p} BY <1>1, <1>2, <1>7, UsableLive
  <2>2. p \in R BY <1>1, <1>2, KeptNotSelf
  <2>3. Supported(m_ptr, raw, R, p, Null) BY <1>1, <1>2, Survive
  <2> HIDE DEF R
  <2>4. Behind(b, p, Null, R) BY <2>1, <2>2 DEF Behind
  <2>5. b \in Seq(Steps) BY <1>4
  <2>6. steps' = <<<<"clear", p>>>> \o b BY <1>4, <1>5, <1>7, TwoIsCons
  <2>7. Lively(live, count) /\ \A s \in Slot \ live : m_ptr[s] = Null BY <1>2 DEF Settled
  <2>8. Balanced(m_ptr, count, raw, Null, Null) BY <1>2, SettledBalanced
  <2>9. R \in SUBSET live BY DEF R
  <2> HIDE DEF b
  <2>10. Sound(m_ptr, live, count, raw, steps')
    BY <2>3, <2>4, <2>5, <2>6, <2>7, <2>8, <2>9, CascadeBegins
  <2> QED BY <1>1, <1>2, <1>7, <2>10, Rebuild DEF SoundNext
<1> QED BY <1>3, <1>6, <1>7

\* A slot gives up what it has to take a reference to o that is counted already.
LEMMA AttachBegins ==
    ASSUME Idle, NEW p \in Usable, NEW o \in Object, o \in live,
           NEW c, Lively(live, c), NEW r, Balanced(m_ptr, c, r, Null, o),
           \A x \in Object : x # o /\ raw[x] > 0 => r[x] > 0
    PROVE  Sound(m_ptr, live, c, r, <<<<"clear", p>>, <<"set", p, o>>>>)
<1> DEFINE R == live \ KeptBy(p)
           b == <<<<"set", p, o>>>>
<1>1. p \in Slot /\ p \in R BY KeptNotSelf
<1>2. Supported(m_ptr, raw, R, p, Null) BY Survive
<1>3. <<"set", p, o>> \in Steps /\ <<"clear", p>> \in Steps BY <1>1, StepsMade, ClearStep DEF Slot
<1>4. R \in SUBSET live OBVIOUS
<1>5. Supported(m_ptr, r, R, p, o)
  <2> HIDE DEF R
  <2>1. ASSUME NEW x \in R \cap Object, x # o PROVE r[x] > 0 \/ \E t \in R \ {p} : m_ptr[t] = x
    <3>1. raw[x] > 0 \/ \E t \in R \ {p} : m_ptr[t] = x BY <1>2, <2>1, SlotAssumption DEF Supported
    <3> QED BY <2>1, <3>1
  <2> QED BY <2>1 DEF Supported
<1> HIDE DEF R
<1>6. Behind(b, p, o, R) BY <1>1 DEF Behind
<1>7. b \in Seq(Steps) BY <1>3
<1>8. <<<<"clear", p>>, <<"set", p, o>>>> = <<<<"clear", p>>>> \o b BY <1>3, TwoIsCons
<1>9. \A s \in Slot \ live : m_ptr[s] = Null BY DEF Idle, Settled
<1> HIDE DEF b
<1>10. Sound(m_ptr, live, c, r, <<<<"clear", p>>>> \o b)
  BY <1>1, <1>4, <1>5, <1>6, <1>7, <1>9, CascadeBegins
<1> QED BY <1>8, <1>10

LEMMA AsIInv == ASSUME IInv, NEW p \in Slot, NEW q \in Slot, As(p, q) PROVE IInv'
<1>1. /\ idle /\ p \in Usable /\ q \in Usable
      /\ UNCHANGED <<m_ptr, live, alive, raw, fromInside>>
  BY DEF As
<1>2. /\ Settled(m_ptr, live, count, raw) /\ alive = live \cap Object
      /\ raw \in [Object -> 0..MaxRaw] /\ fromInside = FALSE /\ Idle
      /\ Typed(m_ptr, live, count, raw)
  BY <1>1, IdleFacts DEF Idle
<1>3. CASE /\ m_ptr[q] # Null
           /\ count' = [count EXCEPT ![m_ptr[q]] = @ + 1]
           /\ steps' = <<<<"clear", p>>, <<"set", p, m_ptr[q]>>>>
  <2> DEFINE o == m_ptr[q]
  <2>1. o \in Object /\ o \in live /\ count[o] > 0 BY <1>2, <1>3, PointedLives
  <2>2. count \in [Object -> Nat] BY <1>2 DEF Settled
  <2> HIDE DEF o
  <2>3. count' \in [Object -> Nat] /\ \A x \in Object : count'[x] = count[x] + One(x, o)
    <3>1. count' = [count EXCEPT ![o] = @ + 1] BY <1>3 DEF o
    <3>2. \A x \in Object : count[x] \in Nat BY <2>2
    <3>3. \A x \in Object : count'[x] = IF x = o THEN count[x] + 1 ELSE count[x] BY <2>2, <3>1
    <3>4. count' \in [Object -> Nat] BY <2>1, <2>2, <3>1
    <3> QED BY <3>2, <3>3, <3>4 DEF One
  <2>4. Lively(live, count')
    <3> SUFFICES ASSUME NEW x \in Object PROVE x \in live <=> count'[x] > 0 BY DEF Lively
    <3>1. (x \in live <=> count[x] > 0) /\ count[x] \in Nat BY <1>2, <2>2 DEF Settled, Lively
    <3>2. count'[x] = count[x] + One(x, o) BY <2>3
    <3>3. x = o => One(x, o) = 1 BY DEF One
    <3>4. x # o => One(x, o) = 0 BY DEF One
    <3> QED BY <2>1, <3>1, <3>2, <3>3, <3>4
  <2>5. Balanced(m_ptr, count', raw, Null, o)
    <3> SUFFICES ASSUME NEW x \in Object
                 PROVE count'[x] = RefsOf(m_ptr, x) + raw[x] + One(x, Null) + One(x, o)
      BY DEF Balanced
    <3>1. One(x, Null) = 0 /\ One(x, o) \in 0..1 BY OneNat, SlotAssumption DEF One
    <3>2. /\ RefsOf(m_ptr, x) \in Nat /\ raw[x] \in Nat
          /\ count[x] = RefsOf(m_ptr, x) + raw[x]
      BY <1>2, RefsNat DEF Settled
    <3> QED BY <2>3, <3>1, <3>2
  <2>6. Sound(m_ptr, live, count', raw, <<<<"clear", p>>, <<"set", p, o>>>>)
    BY <1>1, <1>2, <2>1, <2>4, <2>5, AttachBegins
  <2>7. Sound(m_ptr, live, count', raw, steps') BY <1>3, <2>6 DEF o
  <2>8. Typed(m_ptr, live, count', raw) BY <1>2, <2>3 DEF Typed
  <2> QED BY <1>1, <1>2, <2>7, <2>8, Rebuild DEF SoundNext
<1>4. CASE steps' = <<<<"clear", p>>>> /\ UNCHANGED count
  <2>1. <<>> \in Seq(Steps) OBVIOUS
  <2>2. steps' = <<<<"clear", p>>>> \o <<>> BY <1>4, ClearStep, OneIsCons
  <2>3. Behind(<<>>, p, Null, {}) /\ Supported(m_ptr, raw, {}, p, Null) BY DEF Behind, Supported
  <2>4. Lively(live, count) /\ \A s \in Slot \ live : m_ptr[s] = Null BY <1>2 DEF Settled
  <2>5. Balanced(m_ptr, count, raw, Null, Null) BY <1>2, SettledBalanced
  <2>6. {} \in SUBSET live OBVIOUS
  <2>7. Sound(m_ptr, live, count, raw, <<<<"clear", p>>>> \o <<>>)
    BY <2>1, <2>3, <2>4, <2>5, <2>6, CascadeBegins
  <2> QED BY <1>1, <1>2, <1>4, <2>2, <2>7, Rebuild DEF SoundNext
<1> QED BY <1>3, <1>4 DEF As

\* The program hands over a reference of its own.
LEMMA GiveRaw ==
    ASSUME Settled(m_ptr, live, count, raw), raw \in [Object -> 0..MaxRaw],
           NEW o \in Object, raw[o] > 0, NEW r, r = [raw EXCEPT ![o] = @ - 1]
    PROVE  /\ o \in live /\ r \in [Object -> 0..MaxRaw] /\ r \in [Object -> Nat]
           /\ Balanced(m_ptr, count, r, Null, o)
           /\ \A x \in Object : x # o /\ raw[x] > 0 => r[x] > 0
<1>1. MaxRaw \in Nat /\ \A x \in Object : raw[x] \in 0..MaxRaw BY SlotAssumption
<1>2. r \in [Object -> 0..MaxRaw]
  <2>1. raw[o] - 1 \in 0..MaxRaw BY <1>1
  <2> QED BY <2>1
<1>3. 0..MaxRaw \subseteq Nat BY <1>1
<1>4. r \in [Object -> Nat] BY <1>2, <1>3
<1>5. \A x \in Object : r[x] = IF x = o THEN raw[x] - 1 ELSE raw[x] OBVIOUS
<1>6. ASSUME NEW x \in Object PROVE count[x] = RefsOf(m_ptr, x) + r[x] + One(x, Null) + One(x, o)
  <2>1. /\ RefsOf(m_ptr, x) \in Nat /\ raw[x] \in Nat /\ count[x] = RefsOf(m_ptr, x) + raw[x]
        /\ One(x, Null) = 0
    BY RefsNat, SlotAssumption DEF Settled, One
  <2>2. r[x] = raw[x] - One(x, o) BY <1>5, <2>1 DEF One
  <2>3. One(x, o) \in 0..1 BY OneNat
  <2> QED BY <2>1, <2>2, <2>3
<1>7. o \in live
  <2>1. RefsOf(m_ptr, o) \in Nat /\ raw[o] \in Nat /\ count[o] = RefsOf(m_ptr, o) + raw[o]
    BY RefsNat DEF Settled
  <2> QED BY <2>1 DEF Settled, Lively
<1> QED BY <1>2, <1>4, <1>5, <1>6, <1>7 DEF Balanced

LEMMA AttachIInv == ASSUME IInv, NEW p \in Slot, NEW o \in Object, Attach(p, o) PROVE IInv'
<1>1. /\ idle /\ p \in Usable /\ raw[o] > 0 /\ raw' = [raw EXCEPT ![o] = @ - 1]
      /\ steps' = <<<<"clear", p>>, <<"set", p, o>>>>
      /\ UNCHANGED <<m_ptr, live, alive, count, fromInside>>
  BY DEF Attach
<1>2. /\ Settled(m_ptr, live, count, raw) /\ alive = live \cap Object
      /\ raw \in [Object -> 0..MaxRaw] /\ fromInside = FALSE /\ Idle
      /\ Typed(m_ptr, live, count, raw)
  BY <1>1, IdleFacts DEF Idle
<1>3. /\ o \in live /\ raw' \in [Object -> 0..MaxRaw] /\ raw' \in [Object -> Nat]
      /\ Balanced(m_ptr, count, raw', Null, o)
      /\ \A x \in Object : x # o /\ raw[x] > 0 => raw'[x] > 0
  BY <1>1, <1>2, GiveRaw
<1>4. Lively(live, count) BY <1>2 DEF Settled
<1>5. Sound(m_ptr, live, count, raw', steps') BY <1>1, <1>2, <1>3, <1>4, AttachBegins
<1>6. Typed(m_ptr, live, count, raw') BY <1>2, <1>3 DEF Typed
<1> QED BY <1>1, <1>2, <1>3, <1>5, <1>6, Rebuild DEF SoundNext

LEMMA ReleaseRawIInv == ASSUME IInv, NEW o \in Object, ReleaseRaw(o) PROVE IInv'
<1>1. /\ idle /\ raw[o] > 0 /\ raw' = [raw EXCEPT ![o] = @ - 1]
      /\ steps' = <<<<"release", o, o>>>>
      /\ UNCHANGED <<m_ptr, live, alive, count, fromInside>>
  BY DEF ReleaseRaw
<1>2. /\ Settled(m_ptr, live, count, raw) /\ alive = live \cap Object
      /\ raw \in [Object -> 0..MaxRaw] /\ fromInside = FALSE
      /\ Typed(m_ptr, live, count, raw)
  BY <1>1, IdleFacts DEF Idle
<1>3. /\ raw' \in [Object -> 0..MaxRaw] /\ raw' \in [Object -> Nat]
      /\ Balanced(m_ptr, count, raw', Null, o)
  BY <1>1, <1>2, GiveRaw
<1>4. Balanced(m_ptr, count, raw', o, Null)
  <2> SUFFICES ASSUME NEW x \in Object
               PROVE count[x] = RefsOf(m_ptr, x) + raw'[x] + One(x, o) + One(x, Null)
    BY DEF Balanced
  <2>1. count[x] = RefsOf(m_ptr, x) + raw'[x] + One(x, Null) + One(x, o) BY <1>3 DEF Balanced
  <2>2. RefsOf(m_ptr, x) \in Nat /\ raw'[x] \in Nat /\ One(x, Null) \in 0..1 /\ One(x, o) \in 0..1
    BY <1>3, RefsNat, OneNat
  <2> QED BY <2>1, <2>2
<1>5. <<>> \in Seq(Steps) /\ Cascade(<<>>, <<>>, {})
  <2>1. <<>> \in Seq(Steps) OBVIOUS
  <2> QED BY <2>1, CascadeNone
<1>6. Below(m_ptr, raw', <<>>, <<>>, Null, Null, {}, {}) BY <1>5 DEF Below, Behind, Supported
<1>7. o \in Slot /\ <<"release", o, o>> \in Steps BY StepsMade DEF Slot
<1>8. steps' = <<<<"release", o, o>>>> \o <<>> BY <1>1, <1>7, OneIsCons
<1>9. Given(m_ptr, live, <<>>, Null, {}) BY <1>2 DEF Given, Settled
<1>10. Doing(m_ptr, live, count, raw', steps', <<>>, <<>>, Null, Null, {}, {})
  BY <1>4, <1>7, <1>8, <1>9 DEF Doing
<1>11. Cascading(m_ptr, live, count, raw', steps')
  <2>1. {} \in SUBSET live /\ {} \in SUBSET Slot OBVIOUS
  <2> QED BY <1>5, <1>6, <1>10, <2>1, CascadingIntro
<1>12. Sound(m_ptr, live, count, raw', steps') BY <1>2, <1>11 DEF Sound, Settled
<1>13. Typed(m_ptr, live, count, raw') BY <1>2, <1>3 DEF Typed
<1> QED BY <1>1, <1>2, <1>3, <1>12, <1>13, Rebuild DEF SoundNext

LEMMA CopyFromIInv == ASSUME IInv, NEW p \in Slot, NEW o \in Object, CopyFrom(p, o) PROVE IInv'
<1>1. /\ idle /\ p \in Usable /\ raw[o] > 0 /\ steps' = copy_ref(p, o)
      /\ UNCHANGED <<alive, count, raw, m_ptr, live, fromInside>>
  BY DEF CopyFrom, unchangedObjects
<1>2. /\ Settled(m_ptr, live, count, raw) /\ alive = live \cap Object
      /\ raw \in [Object -> 0..MaxRaw] /\ fromInside = FALSE /\ Idle
      /\ Typed(m_ptr, live, count, raw)
  BY <1>1, IdleFacts DEF Idle
<1>3. CASE m_ptr[p] = o
  <2>1. steps' = <<>> BY <1>1, <1>3 DEF copy_ref
  <2> QED BY <1>1, <1>2, <2>1, RebuildSettled
<1>4. CASE m_ptr[p] # o
  <2> DEFINE R == live \ KeptBy(p)
             b == <<<<"set", p, o>>, <<"addref", p>>>>
  <2>1. steps' = <<<<"clear", p>>, <<"set", p, o>>, <<"addref", p>>>> BY <1>1, <1>4 DEF copy_ref
  <2>2. o \in live
    <3>1. raw' = raw /\ [raw EXCEPT ![o] = @ - 1] = [raw EXCEPT ![o] = @ - 1] BY <1>1
    <3> QED BY <1>1, <1>2, GiveRaw
  <2>3. o \notin KeptBy(p)
    <3> SUFFICES ASSUME o \in KeptBy(p) PROVE FALSE OBVIOUS
    <3>1. raw[o] = 0 BY <1>1, <1>2, KeptNotRaw
    <3> QED BY <1>1, <3>1
  <2>4. p \in R BY <1>1, <1>2, KeptNotSelf
  <2>5. Supported(m_ptr, raw, R, p, Null) BY <1>1, <1>2, Survive
  <2>6. o \in R BY <2>2, <2>3
  <2> HIDE DEF R
  <2>7. Behind(b, p, Null, R) BY <2>4, <2>6 DEF Behind
  <2>8. <<"set", p, o>> \in Steps /\ <<"addref", p>> \in Steps /\ <<"clear", p>> \in Steps
    BY StepsMade, ClearStep DEF Slot, Steps
  <2>9. b \in Seq(Steps) BY <2>8
  <2>10. steps' = <<<<"clear", p>>>> \o b BY <2>1, <2>8, ThreeIsCons
  <2>11. Lively(live, count) /\ \A s \in Slot \ live : m_ptr[s] = Null BY <1>2 DEF Settled
  <2>12. Balanced(m_ptr, count, raw, Null, Null) BY <1>2, SettledBalanced
  <2>13. R \in SUBSET live BY DEF R
  <2> HIDE DEF b
  <2>14. Sound(m_ptr, live, count, raw, steps')
    BY <2>5, <2>7, <2>9, <2>10, <2>11, <2>12, <2>13, CascadeBegins
  <2> QED BY <1>1, <1>2, <2>14, Rebuild DEF SoundNext
<1> QED BY <1>3, <1>4

LEMMA CaptureIInv == ASSUME IInv, NEW p \in Slot, NEW o \in Object, Capture(p, o) PROVE IInv'
<1>1. /\ idle /\ p \in Usable /\ m_ptr[p] = Null /\ m_ptr' = [m_ptr EXCEPT ![p] = o]
      /\ count' = [count EXCEPT ![o] = @ + 1]
      /\ alive' = alive \cup {o} /\ live' = live \cup {o}
      /\ UNCHANGED <<raw, steps, fromInside>>
  BY DEF Capture
<1>2. /\ Settled(m_ptr, live, count, raw) /\ alive = live \cap Object
      /\ raw \in [Object -> 0..MaxRaw] /\ fromInside = FALSE /\ Idle /\ steps = <<>>
  BY <1>1, IdleFacts DEF Idle, idle
<1>3. p \in live BY <1>1, <1>2, UsableLive
<1>4. m_ptr' \in [Slot -> Object \cup {Null}] /\ m_ptr'[p] = o /\ OneDiffers(m_ptr, m_ptr', p)
  BY <1>1, <1>2 DEF Settled, OneDiffers
<1>5. count' \in [Object -> Nat] /\ \A x \in Object : count'[x] = count[x] + One(o, x)
  <2>1. count \in [Object -> Nat] BY <1>2 DEF Settled
  <2>2. \A x \in Object : count'[x] = IF x = o THEN count[x] + 1 ELSE count[x] BY <1>1, <2>1
  <2>3. count' \in [Object -> Nat] BY <1>1, <2>1
  <2>4. \A x \in Object : count[x] \in Nat BY <2>1
  <2> QED BY <2>2, <2>3, <2>4 DEF One
<1>6. ASSUME NEW x \in Object PROVE count'[x] = RefsOf(m_ptr', x) + raw[x]
  <2>1. RefsOf(m_ptr', x) + One(m_ptr[p], x) = RefsOf(m_ptr, x) + One(m_ptr'[p], x)
    BY <1>4, RefsUpdate
  <2>2. One(m_ptr[p], x) = 0 /\ One(o, x) \in 0..1 BY <1>1, OneNat, SlotAssumption DEF One
  <2>3. raw[x] \in Nat /\ RefsOf(m_ptr, x) \in Nat /\ RefsOf(m_ptr', x) \in Nat
        /\ count[x] = RefsOf(m_ptr, x) + raw[x]
    BY <1>2, RefsNat DEF Settled
  <2> QED BY <1>4, <1>5, <2>1, <2>2, <2>3
<1>7. Lively(live', count')
  <2> SUFFICES ASSUME NEW x \in Object PROVE x \in live' <=> count'[x] > 0 BY DEF Lively
  <2>1. (x \in live <=> count[x] > 0) /\ count[x] \in Nat BY <1>2 DEF Settled, Lively
  <2>2. count'[x] = count[x] + One(o, x) BY <1>5
  <2>3. x = o => One(o, x) = 1 BY DEF One
  <2>4. x # o => One(o, x) = 0 BY DEF One
  <2> QED BY <1>1, <2>1, <2>2, <2>3, <2>4
<1>8. \A s \in Slot \ live' : m_ptr'[s] = Null
  BY <1>1, <1>2, <1>3, <1>4 DEF Settled, OneDiffers
<1>9. live' \subseteq Slot BY <1>1, <1>2 DEF Settled, Slot
<1>10. Settled(m_ptr', live', count', raw) BY <1>2, <1>4, <1>5, <1>6, <1>7, <1>8, <1>9 DEF Settled
<1> QED BY <1>1, <1>2, <1>10, RebuildSettled

-----------------------------------------------------------------------------
(* The invariant *)

LEMMA StepIInv == ASSUME IInv, Step, ~fromInside PROVE IInv'
<1>1. MaxRaw \in Nat /\ Cardinality(Slot) \in Nat BY SlotAssumption, SlotsNat
<1>2. 0..MaxRaw \subseteq Nat /\ 0..(Cardinality(Slot) + MaxRaw + 1) \subseteq Nat BY <1>1
<1>3. /\ TypeOK /\ Sound(m_ptr, live, count, raw, steps) /\ fromInside = FALSE
      /\ raw \in [Object -> 0..MaxRaw]
  BY DEF IInv, TypeOK
<1>4. raw \in [Object -> Nat] /\ count \in [Object -> Nat] BY <1>2, <1>3 DEF TypeOK
<1>5. Typed(m_ptr, live, count, raw) BY <1>3, <1>4 DEF TypeOK, Typed
<1>6. ReadyToStep BY <1>3, <1>5 DEF ReadyToStep, TypeOK
<1>7. fromInside' = FALSE /\ raw' = raw
  BY <1>3 DEF Step, ReleaseRef, Release, Set, Take, AddRef
<1>8. CASE ReleaseRef
  <2>1. UNCHANGED <<m_ptr, live, alive, count, raw>> BY <1>8 DEF ReleaseRef
  <2> QED BY <1>3, <1>5, <1>6, <1>7, <1>8, <2>1, ReleaseRefSound, Rebuild DEF TypeOK
<1>9. CASE Set \/ Take
  <2>1. UNCHANGED <<live, alive, count, raw>> BY <1>9 DEF Set, Take
  <2>2. SoundNext BY <1>6, <1>9, SetSound, TakeSound
  <2>3. m_ptr' \in [Slot -> Object \cup {Null}]
    BY <1>6, <1>9, PointersTyped
  <2>4. Typed(m_ptr', live', count', raw') BY <1>5, <2>1, <2>3 DEF Typed
  <2> QED BY <1>3, <1>7, <2>1, <2>2, <2>4, Rebuild DEF TypeOK
<1>10. CASE AddRef
  <2>1. UNCHANGED <<m_ptr, live, alive, raw>> BY <1>10 DEF AddRef
  <2>2. SoundNext /\ count' \in [Object -> Nat] BY <1>6, <1>10, AddRefSound
  <2>3. Typed(m_ptr', live', count', raw') BY <1>5, <2>1, <2>2 DEF Typed
  <2> QED BY <1>3, <1>7, <2>1, <2>2, <2>3, Rebuild DEF TypeOK
<1>11. CASE Release
  <2>1. UNCHANGED <<m_ptr, raw>> BY <1>11 DEF Release
  <2>2. /\ SoundNext /\ count' \in [Object -> Nat]
        /\ live' \subseteq Slot /\ alive' = live' \cap Object
    BY <1>6, <1>11, ReleaseSound
  <2>3. Typed(m_ptr', live', count', raw') BY <1>5, <2>1, <2>2 DEF Typed
  <2> QED BY <1>3, <1>7, <2>2, <2>3, Rebuild
<1> QED BY <1>8, <1>9, <1>10, <1>11 DEF Step

LEMMA OperationIInv == ASSUME IInv, Operation PROVE IInv'
<1>1. ASSUME NEW p \in Slot, Construct(p) \/ Destroy(p) \/ Detach(p) \/ CopyTo(p) PROVE IInv'
  BY <1>1, ConstructIInv, DestroyIInv, DetachIInv, CopyToIInv
<1>2. ASSUME NEW p \in Slot, NEW q \in Slot,
             \/ CopyConstruct(p, q) \/ MoveConstruct(p, q)
             \/ CopyAssign(p, q) \/ MoveAssign(p, q) \/ Swap(p, q) \/ As(p, q)
      PROVE IInv'
  BY <1>2, CopyConstructIInv, MoveConstructIInv, CopyAssignIInv, MoveAssignIInv, SwapIInv, AsIInv
<1>3. ASSUME NEW p \in Slot, NEW o \in Object, Capture(p, o) \/ Attach(p, o) \/ CopyFrom(p, o)
      PROVE IInv'
  BY <1>3, CaptureIInv, AttachIInv, CopyFromIInv
<1>4. ASSUME NEW o \in Object, ReleaseRaw(o) PROVE IInv' BY <1>4, ReleaseRawIInv
<1> QED BY <1>1, <1>2, <1>3, <1>4 DEF Operation

LEMMA PointersIInv == ASSUME IInv, [Next]_vars PROVE IInv'
<1>1. CASE UNCHANGED vars
  <2>1. TypeOK' BY <1>1 DEF IInv, TypeOK, vars
  <2>2. IInv' BY <1>1, <2>1 DEF IInv, vars
  <2> QED BY <2>2
<1>2. CASE Operation BY <1>2, OperationIInv
<1>3. CASE Step /\ ~fromInside BY <1>3, StepIInv
<1> QED BY <1>1, <1>2, <1>3 DEF Next

LEMMA InitIInv == Init => IInv
<1> SUFFICES ASSUME Init PROVE IInv OBVIOUS
<1>1. MaxRaw \in Nat /\ Cardinality(Slot) \in Nat BY SlotAssumption, SlotsNat
<1>2. /\ m_ptr = [s \in Slot |-> Null] /\ live = {} /\ alive = {}
      /\ count = [o \in Object |-> 0] /\ raw = [o \in Object |-> 0]
      /\ steps = <<>> /\ fromInside = FALSE
  BY DEF Init
<1>3. TypeOK BY <1>1, <1>2 DEF TypeOK
<1>4. \A o \in Object : RefsOf(m_ptr, o) = 0
  <2> SUFFICES ASSUME NEW o \in Object PROVE RefsOf(m_ptr, o) = 0 OBVIOUS
  <2>1. {s \in Slot : m_ptr[s] = o} = {} BY <1>2, SlotAssumption
  <2> QED BY <2>1, FS_EmptySet DEF RefsOf
<1>5. Settled(m_ptr, live, count, raw) BY <1>2, <1>4 DEF Settled, Lively
<1> QED BY <1>2, <1>3, <1>5, SettledIsSound DEF IInv

LEMMA IInvMeans == ASSUME IInv PROVE TypeOK /\ CountIsOwners /\ NothingCalledDead
<1>1. TypeOK BY DEF IInv
<1>2. CountIsOwners
  <2> SUFFICES ASSUME steps = <<>>, NEW o \in Object
               PROVE /\ count[o] = Cardinality({s \in Slot : m_ptr[s] = o}) + raw[o]
                     /\ o \in alive <=> count[o] > 0
    BY DEF CountIsOwners
  <2>1. idle BY DEF IInv, idle
  <2>2. Settled(m_ptr, live, count, raw) /\ alive = live \cap Object BY <2>1, IdleFacts DEF Idle
  <2> QED BY <2>2 DEF Settled, Lively, RefsOf
<1>3. NothingCalledDead
  <2>1. CASE fromInside BY <2>1 DEF NothingCalledDead
  <2>2. CASE ~fromInside
    <3>1. MaxRaw \in Nat /\ Cardinality(Slot) \in Nat BY SlotAssumption, SlotsNat
    <3>2. 0..MaxRaw \subseteq Nat /\ 0..(Cardinality(Slot) + MaxRaw + 1) \subseteq Nat BY <3>1
    <3>3. raw \in [Object -> Nat] /\ count \in [Object -> Nat] BY <1>1, <3>2 DEF TypeOK
    <3>4. ReadyToStep BY <1>1, <2>2, <3>3 DEF ReadyToStep, IInv, TypeOK, Typed
    <3> QED BY <3>4, SoundCallsNoDead
  <2> QED BY <2>1, <2>2
<1> QED BY <1>1, <1>2, <1>3

-----------------------------------------------------------------------------
(* unique_any_t: the owners of handles *)

\* Inductive with the types.
HandlesInv == U!TypeOK /\ U!OwnedOnce

\* After a step the invariant follows from what happened to each part: put so, the
\* lemmas of the actions need to look at values only.
LEMMA HandlesRebuilt ==
    ASSUME U!Constructed' \subseteq Owner, opened' \subseteq Handle,
           misused' = FALSE, free' \subseteq opened',
           \A o \in U!Constructed' : handles'[o] \in (opened' \ free') \cup {Null},
           \A h \in opened' : h \in free' \/ \E o \in U!Constructed' : handles'[o] = h,
           \A o, p \in U!Constructed' : o # p /\ handles'[o] # Null => handles'[o] # handles'[p]
    PROVE HandlesInv'
BY DEF HandlesInv, U!TypeOK, U!OwnedOnce, U!is_valid

-----------------------------------------------------------------------------
(* The operations on handles *)

LEMMA HandlesConstruct == ASSUME Null \notin Handle, HandlesInv, NEW o \in Owner, U!Construct(o) PROVE HandlesInv'
<1>1. /\ handles' = [p \in U!Constructed \cup {o} |-> IF p = o THEN Null ELSE handles[p]]
      /\ o \notin U!Constructed /\ UNCHANGED <<opened, free, misused>>
  BY DEF U!Construct, U!With
<1>2. U!Constructed' = U!Constructed \cup {o} BY <1>1 DEF U!Constructed
<1>3. \A p \in U!Constructed' : handles'[p] = IF p = o THEN Null ELSE handles[p] BY <1>1, <1>2
<1> QED BY <1>1, <1>2, <1>3, HandlesRebuilt DEF HandlesInv, U!TypeOK, U!OwnedOnce, U!is_valid

LEMMA HandlesMoveConstruct ==
    ASSUME Null \notin Handle, HandlesInv, NEW o \in Owner, NEW other \in Owner, U!MoveConstruct(o, other)
    PROVE HandlesInv'
<1>1. /\ handles' = [U!With(o, handles[other]) EXCEPT ![other] = Null]
      /\ o \notin U!Constructed /\ other \in U!Constructed /\ UNCHANGED <<opened, free, misused>>
  BY DEF U!MoveConstruct
<1>2. U!Constructed' = U!Constructed \cup {o} BY <1>1 DEF U!Constructed, U!With
<1>3. \A p \in U!Constructed' :
         handles'[p] = IF p = other THEN Null ELSE IF p = o THEN handles[other] ELSE handles[p]
  BY <1>1, <1>2 DEF U!With
<1> QED BY <1>1, <1>2, <1>3, HandlesRebuilt DEF HandlesInv, U!TypeOK, U!OwnedOnce, U!is_valid

LEMMA HandlesDestroy ==
    ASSUME Null \notin Handle, HandlesInv, NEW o \in Owner, U!Destroy(o)
    PROVE HandlesInv'
<1>1. /\ handles' = U!Without(o) /\ o \in U!Constructed /\ free' = free
      /\ opened' = opened \ {handles[o]}
      /\ misused' = (misused \/ (U!is_valid(handles[o]) /\ handles[o] \notin opened))
  BY DEF U!Destroy, U!Close
<1>2. U!Constructed' = U!Constructed \ {o} BY <1>1 DEF U!Constructed, U!With, U!Without
<1>3. \A p \in U!Constructed' : handles'[p] = handles[p]
  BY <1>1, <1>2 DEF U!With, U!Without, U!Constructed
<1> QED BY <1>1, <1>2, <1>3, HandlesRebuilt DEF HandlesInv, U!TypeOK, U!OwnedOnce, U!is_valid

LEMMA HandlesReset ==
    ASSUME Null \notin Handle, HandlesInv, NEW o \in Owner, U!Reset(o)
    PROVE HandlesInv'
<1>1. /\ handles' = U!With(o, Null) /\ o \in U!Constructed /\ free' = free
      /\ opened' = opened \ {handles[o]}
      /\ misused' = (misused \/ (U!is_valid(handles[o]) /\ handles[o] \notin opened))
  BY DEF U!Reset, U!Close
<1>2. U!Constructed' = U!Constructed BY <1>1 DEF U!Constructed, U!With, U!Without
<1>3. \A p \in U!Constructed' : handles'[p] = IF p = o THEN Null ELSE handles[p]
  BY <1>1, <1>2 DEF U!With, U!Without, U!Constructed
<1> QED BY <1>1, <1>2, <1>3, HandlesRebuilt DEF HandlesInv, U!TypeOK, U!OwnedOnce, U!is_valid

LEMMA HandlesRelease ==
    ASSUME Null \notin Handle, HandlesInv, NEW o \in Owner, U!Release(o)
    PROVE HandlesInv'
<1>1. /\ handles' = U!With(o, Null) /\ o \in U!Constructed
      /\ free' = free \cup ({handles[o]} \ {Null}) /\ UNCHANGED <<opened, misused>>
  BY DEF U!Release
<1>2. U!Constructed' = U!Constructed BY <1>1 DEF U!Constructed, U!With, U!Without
<1>3. \A p \in U!Constructed' : handles'[p] = IF p = o THEN Null ELSE handles[p]
  BY <1>1, <1>2 DEF U!With, U!Without, U!Constructed
<1> QED BY <1>1, <1>2, <1>3, HandlesRebuilt DEF HandlesInv, U!TypeOK, U!OwnedOnce, U!is_valid

LEMMA HandlesResetTo ==
    ASSUME Null \notin Handle, HandlesInv, NEW o \in Owner, NEW handle \in Handle, U!ResetTo(o, handle)
    PROVE HandlesInv'
<1>1. /\ handles' = U!With(o, handle) /\ o \in U!Constructed /\ handle \in free
      /\ free' = free \ {handle} /\ opened' = opened \ {handles[o]}
      /\ misused' = (misused \/ (U!is_valid(handles[o]) /\ handles[o] \notin opened))
  BY DEF U!ResetTo, U!Close
<1>2. U!Constructed' = U!Constructed BY <1>1 DEF U!Constructed, U!With, U!Without
<1>3. \A p \in U!Constructed' : handles'[p] = IF p = o THEN handle ELSE handles[p]
  BY <1>1, <1>2 DEF U!With, U!Without, U!Constructed
<1> QED BY <1>1, <1>2, <1>3, HandlesRebuilt DEF HandlesInv, U!TypeOK, U!OwnedOnce, U!is_valid

LEMMA HandlesPut ==
    ASSUME Null \notin Handle, HandlesInv, NEW o \in Owner, NEW handle \in Handle, U!Put(o, handle)
    PROVE HandlesInv'
<1>1. /\ handles' = U!With(o, handle) /\ o \in U!Constructed /\ handle \notin opened \ {handles[o]}
      /\ free' = free /\ opened' = (opened \ {handles[o]}) \cup {handle}
      /\ misused' = (misused \/ (U!is_valid(handles[o]) /\ handles[o] \notin opened))
  BY DEF U!Put
<1>2. U!Constructed' = U!Constructed BY <1>1 DEF U!Constructed, U!With, U!Without
<1>3. \A p \in U!Constructed' : handles'[p] = IF p = o THEN handle ELSE handles[p]
  BY <1>1, <1>2 DEF U!With, U!Without, U!Constructed
<1> QED BY <1>1, <1>2, <1>3, HandlesRebuilt DEF HandlesInv, U!TypeOK, U!OwnedOnce, U!is_valid

LEMMA HandlesSwap ==
    ASSUME Null \notin Handle, HandlesInv, NEW o \in Owner, NEW other \in Owner, U!Swap(o, other)
    PROVE HandlesInv'
<1>1. /\ handles' = [handles EXCEPT ![o] = handles[other], ![other] = handles[o]]
      /\ {o, other} \subseteq U!Constructed /\ UNCHANGED <<opened, free, misused>>
  BY DEF U!Swap
<1>2. U!Constructed' = U!Constructed BY <1>1 DEF U!Constructed, U!With, U!Without
<1>3. \A p \in U!Constructed' : handles'[p] = IF p = other THEN handles[o] ELSE IF p = o THEN handles[other] ELSE handles[p]
  BY <1>1, <1>2 DEF U!With, U!Without, U!Constructed
<1>4. /\ U!Constructed \subseteq Owner /\ opened \subseteq Handle /\ misused = FALSE /\ free \subseteq opened
      /\ \A p \in U!Constructed : handles[p] \in (opened \ free) \cup {Null}
      /\ \A h \in opened : h \in free \/ \E p \in U!Constructed : handles[p] = h
      /\ \A p, q \in U!Constructed : p # q /\ handles[p] # Null => handles[p] # handles[q]
  BY DEF HandlesInv, U!TypeOK, U!OwnedOnce, U!is_valid
<1>5. opened' \subseteq Handle /\ misused' = FALSE /\ free' \subseteq opened'
  BY <1>1, <1>4 DEF U!is_valid
<1>6. ASSUME NEW p \in U!Constructed' PROVE handles'[p] \in (opened' \ free') \cup {Null}
  <2>1. p \in U!Constructed /\ o \in U!Constructed /\ other \in U!Constructed BY <1>1, <1>2
  <2>2. handles'[p] \in {handles[p], handles[o], handles[other]} BY <1>3
  <2>3. handles'[p] \in (opened \ free) \cup {Null} BY <1>4, <2>1, <2>2
  <2> QED BY <1>1, <2>3
<1>7. ASSUME NEW h \in opened' PROVE h \in free' \/ \E p \in U!Constructed' : handles'[p] = h
  <2>1. CASE h \in free BY <1>1, <2>1
  <2>2. CASE h \notin free
    <3>1. PICK p \in U!Constructed : handles[p] = h BY <1>1, <1>4, <1>7, <2>2
    <3>2. h # Null BY <1>1, <1>4, <1>7
    <3> QED BY <1>1, <1>2, <1>3, <1>7, <3>1, <3>2
  <2> QED BY <2>1, <2>2
<1>8. ASSUME NEW p \in U!Constructed', NEW q \in U!Constructed', p # q, handles'[p] # Null
      PROVE handles'[p] # handles'[q]
  <2>1. p \in U!Constructed /\ q \in U!Constructed /\ o \in U!Constructed /\ other \in U!Constructed BY <1>1, <1>2
  <2>2. \A r, t \in U!Constructed : r # t /\ (handles[r] # Null \/ handles[t] # Null) => handles[r] # handles[t]
    BY <1>4
  <2>3. handles'[q] = IF q = other THEN handles[o] ELSE IF q = o THEN handles[other] ELSE handles[q] BY <1>3
  <2>4. handles'[p] = IF p = other THEN handles[o] ELSE IF p = o THEN handles[other] ELSE handles[p] BY <1>3
  <2>5. CASE p = other BY <1>8, <2>1, <2>2, <2>3, <2>4, <2>5
  <2>6. CASE p # other /\ p = o BY <1>8, <2>1, <2>2, <2>3, <2>4, <2>6
  <2>7. CASE p # other /\ p # o BY <1>8, <2>1, <2>2, <2>3, <2>4, <2>7
  <2> QED BY <2>5, <2>6, <2>7
<1> QED BY <1>2, <1>4, <1>5, <1>6, <1>7, <1>8, HandlesRebuilt

LEMMA HandlesMoveAssign ==
    ASSUME Null \notin Handle, HandlesInv, NEW o \in Owner, NEW other \in Owner, U!MoveAssign(o, other), o # other
    PROVE HandlesInv'
<1>1. /\ handles' = [handles EXCEPT ![o] = handles[other], ![other] = Null]
      /\ {o, other} \subseteq U!Constructed /\ free' = free
      /\ opened' = opened \ {handles[o]}
      /\ misused' = (misused \/ (U!is_valid(handles[o]) /\ handles[o] \notin opened))
  BY DEF U!MoveAssign, U!Close
<1>2. U!Constructed' = U!Constructed BY <1>1 DEF U!Constructed
<1>3. \A p \in U!Constructed' :
         handles'[p] = IF p = other THEN Null ELSE IF p = o THEN handles[other] ELSE handles[p]
  BY <1>1, <1>2 DEF U!Constructed
<1>4. /\ U!Constructed \subseteq Owner /\ opened \subseteq Handle /\ misused = FALSE /\ free \subseteq opened
      /\ \A p \in U!Constructed : handles[p] \in (opened \ free) \cup {Null}
      /\ \A h \in opened : h \in free \/ \E p \in U!Constructed : handles[p] = h
      /\ \A p, q \in U!Constructed : p # q /\ handles[p] # Null => handles[p] # handles[q]
  BY DEF HandlesInv, U!TypeOK, U!OwnedOnce, U!is_valid
<1>5. opened' \subseteq Handle /\ misused' = FALSE /\ free' \subseteq opened'
  BY <1>1, <1>4 DEF U!is_valid
<1>6. ASSUME NEW p \in U!Constructed' PROVE handles'[p] \in (opened' \ free') \cup {Null}
  <2>1. p \in U!Constructed /\ o \in U!Constructed /\ other \in U!Constructed BY <1>1, <1>2
  <2>2. handles'[p] = IF p = other THEN Null ELSE IF p = o THEN handles[other] ELSE handles[p] BY <1>3
  <2>3. \A r \in U!Constructed : r # o /\ handles[r] # Null => handles[r] # handles[o] BY <2>1, <1>4
  <2>4. \A r \in U!Constructed : r # o => handles[r] \in (opened' \ free') \cup {Null}
    BY <1>1, <1>4, <2>3
  <2> QED BY <2>1, <2>2, <2>4
<1>7. ASSUME NEW h \in opened' PROVE h \in free' \/ \E p \in U!Constructed' : handles'[p] = h
  <2>1. CASE h \in free BY <1>1, <2>1
  <2>2. CASE h \notin free
    <3>1. PICK p \in U!Constructed : handles[p] = h BY <1>1, <1>4, <1>7, <2>2
    <3>2. h # Null BY <1>1, <1>4, <1>7
    <3> QED BY <1>1, <1>2, <1>3, <1>7, <3>1, <3>2
  <2> QED BY <2>1, <2>2
<1>8. ASSUME NEW p \in U!Constructed', NEW q \in U!Constructed', p # q, handles'[p] # Null
      PROVE handles'[p] # handles'[q]
  <2>1. p \in U!Constructed /\ q \in U!Constructed /\ o \in U!Constructed /\ other \in U!Constructed BY <1>1, <1>2
  <2>2. \A r, t \in U!Constructed : r # t /\ (handles[r] # Null \/ handles[t] # Null) => handles[r] # handles[t]
    BY <1>4
  <2>3. handles'[q] = IF q = other THEN Null ELSE IF q = o THEN handles[other] ELSE handles[q] BY <1>3
  <2>4. handles'[p] = IF p = other THEN Null ELSE IF p = o THEN handles[other] ELSE handles[p] BY <1>3
  <2>5. CASE p = other BY <1>8, <2>1, <2>2, <2>3, <2>4, <2>5
  <2>6. CASE p # other /\ p = o BY <1>8, <2>1, <2>2, <2>3, <2>4, <2>6
  <2>7. CASE p # other /\ p # o BY <1>8, <2>1, <2>2, <2>3, <2>4, <2>7
  <2> QED BY <2>5, <2>6, <2>7
<1> QED BY <1>2, <1>4, <1>5, <1>6, <1>7, <1>8, HandlesRebuilt

\* A handle that the program owns is no owner's.
LEMMA HandlesCloseFree ==
    ASSUME Null \notin Handle, HandlesInv, NEW handle \in Handle, U!CloseFree(handle)
    PROVE HandlesInv'
<1>1. /\ handles' = handles /\ handle \in free /\ free' = free \ {handle}
      /\ opened' = opened \ {handle}
      /\ misused' = (misused \/ (U!is_valid(handle) /\ handle \notin opened))
  BY DEF U!CloseFree, U!Close
<1>2. U!Constructed' = U!Constructed BY <1>1 DEF U!Constructed
<1> QED BY <1>1, <1>2, HandlesRebuilt DEF HandlesInv, U!TypeOK, U!OwnedOnce, U!is_valid

-----------------------------------------------------------------------------
(* Any step *)

LEMMA HandlesNext == ASSUME Null \notin Handle, HandlesInv, [U!Next]_(U!vars) PROVE HandlesInv'
<1>1. ASSUME UNCHANGED U!vars PROVE HandlesInv'
  BY <1>1 DEF HandlesInv, U!TypeOK, U!OwnedOnce, U!vars, U!Constructed, U!is_valid
<1>2. ASSUME NEW o \in Owner,
             U!Construct(o) \/ U!Destroy(o) \/ U!Reset(o) \/ U!ResetNull(o) \/ U!Release(o)
      PROVE HandlesInv'
  BY <1>1, <1>2, HandlesConstruct, HandlesDestroy, HandlesReset, HandlesRelease DEF U!ResetNull
<1>3. ASSUME NEW o \in Owner, NEW other \in Owner,
             U!MoveConstruct(o, other) \/ U!MoveAssign(o, other) \/ U!Swap(o, other)
      PROVE HandlesInv'
  <2>1. CASE U!MoveAssign(o, other) /\ o = other BY <1>1, <2>1 DEF U!MoveAssign
  <2> QED BY <1>3, <2>1, HandlesMoveConstruct, HandlesMoveAssign, HandlesSwap
<1>4. ASSUME NEW o \in Owner, NEW handle \in Handle, U!ResetTo(o, handle) \/ U!Put(o, handle)
      PROVE HandlesInv'
  BY <1>4, HandlesResetTo, HandlesPut
<1>5. ASSUME NEW handle \in Handle, U!CloseFree(handle) PROVE HandlesInv'
  BY <1>5, HandlesCloseFree
<1> QED BY <1>1, <1>2, <1>3, <1>4, <1>5 DEF U!Next


-----------------------------------------------------------------------------
(* The theorems *)

\* However com_ptrs are copied, moved, swapped, assigned to themselves, captured,
\* attached and destroyed, inside of objects too: between two operations each
\* object has as many references as owners and is alive as long as it has one,
\* and no step calls an object or a slot that is gone.
THEOREM ReferencesAreCounted == RuntimeSpec => []ReferencesCounted
<1>1. RuntimeInit => IInv BY InitIInv DEF RuntimeInit
<1>2. IInv /\ [RuntimeNext]_<<vars, handleVars, part>> => IInv'
  <2> SUFFICES ASSUME IInv, [RuntimeNext]_<<vars, handleVars, part>> PROVE IInv' OBVIOUS
  <2>1. [Next]_vars BY DEF RuntimeNext
  <2> QED BY <2>1, PointersIInv
<1>3. IInv => ReferencesCounted BY IInvMeans DEF ReferencesCounted
<1> QED BY <1>1, <1>2, <1>3, PTL DEF RuntimeSpec

\* However owners are made, moved, swapped, reset, overwritten and destroyed, every
\* open handle has one owner, and none is closed twice, leaked, or closed for
\* somebody else.
THEOREM HandlesAreOwned == RuntimeSpec => []HandlesOwnedOnce
<1>1. RuntimeInit => HandlesInv
  BY DEF RuntimeInit, U!Init, HandlesInv, U!TypeOK, U!OwnedOnce, U!Constructed, U!is_valid
<1>2. HandlesInv /\ [RuntimeNext]_<<vars, handleVars, part>> => HandlesInv'
  <2> SUFFICES ASSUME HandlesInv, [RuntimeNext]_<<vars, handleVars, part>> PROVE HandlesInv'
    OBVIOUS
  <2>1. [U!Next]_(U!vars) BY DEF RuntimeNext, handleVars, U!vars
  <2> QED BY <2>1, NullAssumption, HandlesNext
<1>3. HandlesInv => HandlesOwnedOnce BY DEF HandlesInv, HandlesOwnedOnce
<1> QED BY <1>1, <1>2, <1>3, PTL DEF RuntimeSpec
=============================================================================
