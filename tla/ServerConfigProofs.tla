-------------------------- MODULE ServerConfigProofs --------------------------
(***************************************************************************)
(* The list of servers pcapmerger reads, for files of any number of        *)
(* objects and entries.  get_properties is a loop, defined as a recursive  *)
(* function; what it computes is proved by induction over the entries,     *)
(* with the least-number principle in place of the induction theorems.     *)
(***************************************************************************)
EXTENDS ServerConfig, WellFoundedInduction, TLAPS

(* The least-number principle for sets, which makes induction over the     *)
(* loops of get_properties possible: the least position where something    *)
(* fails is looked at.                                                     *)
LEMMA LeastNatural ==
    ASSUME NEW S \in SUBSET Nat, S # {}
    PROVE  \E n \in S : \A m \in S : n <= m
<1> DEFINE Less == {p \in Nat \X Nat : p[1] < p[2]}
<1>1. IsWellFoundedOn(Less, Nat)
  BY NatLessThanWellFounded DEF OpToRel
<1>2. \A m \in Nat, n \in Nat : <<m, n>> \notin Less => n <= m
  OBVIOUS
<1> HIDE DEF Less
<1>3. \E n \in S : \A m \in S : ~(<<m, n>> \in Less)
  BY <1>1, WFMin
<1> QED
  BY <1>2, <1>3

(* Induction up to a bound, for a property given as the set of the numbers *)
(* that have it.                                                           *)
LEMMA BoundedInduction ==
    ASSUME NEW low \in Nat, NEW high \in Nat, NEW S,
           low \in S,
           \A n \in low .. high - 1 : n \in S => n + 1 \in S
    PROVE  low .. high \subseteq S
<1> SUFFICES ASSUME ~(low .. high \subseteq S) PROVE FALSE
  OBVIOUS
<1> DEFINE F == {n \in low .. high : n \notin S}
<1>1. PICK n \in F : \A m \in F : n <= m
  <2>1. F \in SUBSET Nat /\ F # {}
    OBVIOUS
  <2> HIDE DEF F
  <2> QED
    BY <2>1, LeastNatural
<1>2. n # low
  OBVIOUS
<1>3. n - 1 \in low .. high - 1 /\ n - 1 \notin F
  BY <1>1, <1>2
<1>4. n - 1 \in S
  BY <1>3
<1>5. (n - 1) + 1 \in S
  BY <1>3, <1>4
<1>6. (n - 1) + 1 = n
  OBVIOUS
<1> QED
  BY <1>5, <1>6

(* A loop that computes a value in D from the one before it, with a step   *)
(* of its own for every position, computes one for every position.         *)
IsLoop(g, low, high, D, base, step) ==
    /\ g \in [low .. high -> D]
    /\ g[low] = base
    /\ \A n \in low + 1 .. high : g[n] = step[n][g[n - 1]]

LEMMA LoopExists ==
    ASSUME NEW low \in Nat, NEW high \in Nat, low <= high,
           NEW D, NEW base \in D, NEW step \in [low + 1 .. high -> [D -> D]]
    PROVE  \E g : IsLoop(g, low, high, D, base, step)
<1> DEFINE Loop(g, m) == /\ g \in [low .. m -> D]
                         /\ g[low] = base
                         /\ \A n \in low + 1 .. m : g[n] = step[n][g[n - 1]]
           S == {m \in low .. high : \E g : Loop(g, m)}
<1>1. low \in S
  <2> DEFINE g == [n \in low .. low |-> base]
  <2>1. Loop(g, low)
    OBVIOUS
  <2>2. low \in low .. high
    OBVIOUS
  <2> HIDE DEF Loop, g
  <2> QED
    BY <2>1, <2>2
<1>2. ASSUME NEW m \in low .. high - 1, m \in S PROVE m + 1 \in S
  <2>1. PICK g : Loop(g, m)
    BY <1>2
  <2> DEFINE h == [n \in low .. m + 1 |-> IF n = m + 1 THEN step[n][g[m]] ELSE g[n]]
  <2>2. m \in Nat /\ m \in low .. m /\ m + 1 \in low + 1 .. high /\ m + 1 \in low .. high
    OBVIOUS
  <2>3. g[m] \in D /\ step[m + 1][g[m]] \in D
    BY <2>1, <2>2
  <2>4. \A n \in low .. m + 1 : n # m + 1 => n \in low .. m
    BY <2>2
  <2>5. h \in [low .. m + 1 -> D]
    BY <2>1, <2>3, <2>4
  <2>6. h[low] = base
    <3>1. low \in low .. m + 1 /\ low # m + 1
      BY <2>2
    <3> QED
      BY <2>1, <3>1
  <2>7. ASSUME NEW n \in low + 1 .. m + 1 PROVE h[n] = step[n][h[n - 1]]
    <3>1. n \in low .. m + 1 /\ n - 1 \in low .. m + 1 /\ n - 1 # m + 1
      BY <2>2
    <3>2. h[n - 1] = g[n - 1]
      BY <3>1
    <3>3. CASE n = m + 1
      <4>1. n - 1 = m /\ h[n] = step[n][g[m]]
        BY <2>2, <3>1, <3>3
      <4> QED
        BY <3>2, <4>1
    <3>4. CASE n # m + 1
      <4>1. n \in low + 1 .. m /\ h[n] = g[n]
        BY <2>2, <3>1, <3>4
      <4> QED
        BY <2>1, <3>2, <4>1
    <3> QED
      BY <3>3, <3>4
  <2>8. Loop(h, m + 1)
    BY <2>5, <2>6, <2>7
  <2> HIDE DEF Loop, h
  <2> QED
    BY <2>2, <2>8
<1>3. high \in S
  <2>1. high \in low .. high
    OBVIOUS
  <2> HIDE DEF S
  <2> QED
    BY <1>1, <1>2, <2>1, BoundedInduction
<1> QED
  BY <1>3 DEF IsLoop

(* ServerEntries: the arrays of the objects one after the other are one    *)
(* sequence of entries.                                                    *)
LEMMA FlattenType ==
    ASSUME NEW T, NEW seqs \in Seq(Seq(T))
    PROVE  FlattenSeq(seqs) \in Seq(T)
<1>1. CASE Len(seqs) = 0
  <2>1. seqs = <<>> /\ FlattenSeq(seqs) = seqs
    BY <1>1 DEF FlattenSeq
  <2>2. <<>> \in Seq(T)
    OBVIOUS
  <2> QED
    BY <2>1, <2>2, Zenon
<1>2. CASE Len(seqs) # 0
  <2> DEFINE N == Len(seqs)
             step == [n \in 1 + 1 .. N |-> [v \in Seq(T) |-> v \o seqs[n]]]
  <2>1. N \in Nat /\ 1 <= N /\ \A i \in 1 .. N : seqs[i] \in Seq(T)
    BY <1>2
  <2>2. step \in [1 + 1 .. N -> [Seq(T) -> Seq(T)]]
    <3>1. \A n \in 1 + 1 .. N : n \in 1 .. N
      BY <2>1
    <3> QED
      BY <2>1, <3>1
  <2>3. PICK g : IsLoop(g, 1, N, Seq(T), seqs[1], step)
    <3>1. 1 \in Nat /\ seqs[1] \in Seq(T)
      BY <2>1
    <3> HIDE DEF N, step
    <3> QED
      BY <2>1, <2>2, <3>1, LoopExists
  <2>4. \A n \in 1 .. N : g[n] = IF n = 1 THEN seqs[n] ELSE g[n - 1] \o seqs[n]
    <3> SUFFICES ASSUME NEW n \in 1 .. N, n # 1
                 PROVE  g[n] = g[n - 1] \o seqs[n]
      BY <2>3 DEF IsLoop
    <3>1. n \in 1 + 1 .. N /\ n - 1 \in 1 .. N
      BY <2>1
    <3>2. g[n - 1] \in Seq(T) /\ g[n] = step[n][g[n - 1]]
      BY <2>3, <3>1 DEF IsLoop
    <3> QED
      BY <3>1, <3>2
  <2> DEFINE flatten == CHOOSE f : f = [i \in 1 .. Len(seqs) |->
                             IF i = 1 THEN seqs[i] ELSE f[i - 1] \o seqs[i]]
  <2>5. g = [i \in 1 .. Len(seqs) |-> IF i = 1 THEN seqs[i] ELSE g[i - 1] \o seqs[i]]
    BY <2>3, <2>4 DEF IsLoop
  <2>6. flatten = [i \in 1 .. Len(seqs) |->
                     IF i = 1 THEN seqs[i] ELSE flatten[i - 1] \o seqs[i]]
    BY <2>5
  <2>7. FlattenSeq(seqs) = flatten[N]
    BY <1>2 DEF FlattenSeq
  <2> HIDE DEF flatten
  <2> DEFINE R == {n \in 1 .. N : flatten[n] \in Seq(T)}
  <2>8. 1 \in R
    BY <2>1, <2>6
  <2>9. ASSUME NEW n \in 1 .. N - 1, n \in R PROVE n + 1 \in R
    <3>1. n + 1 \in 1 .. N /\ n + 1 # 1 /\ (n + 1) - 1 = n
      BY <2>1
    <3>2. flatten[n + 1] = flatten[n] \o seqs[n + 1]
      BY <2>6, <3>1
    <3>3. flatten[n] \o seqs[n + 1] \in Seq(T)
      BY <2>1, <2>9, <3>1
    <3> QED
      BY <3>1, <3>2, <3>3
  <2>10. 1 .. N \subseteq R
    <3> HIDE DEF R, N
    <3> QED
      BY <2>1, <2>8, <2>9, BoundedInduction
  <2> QED
    BY <2>1, <2>7, <2>10
<1> QED
  BY <1>1, <1>2

LEMMA EntriesType ==
    ASSUME NEW c \in Seq(Element)
    PROVE  ServerEntries(c) \in Seq(Entry)
<1> DEFINE seqs == [k \in DOMAIN c |-> c[k].distribution_server_array]
<1>1. \A k \in 1 .. Len(c) : c[k].distribution_server_array \in Seq(Entry)
  <2> SUFFICES ASSUME NEW k \in 1 .. Len(c)
               PROVE  c[k].distribution_server_array \in Seq(Entry)
    OBVIOUS
  <2>1. c[k] \in Element
    OBVIOUS
  <2> HIDE DEF Entry
  <2> QED
    BY <2>1, Zenon DEF Element
<1>2. seqs \in Seq(Seq(Entry))
  <2>1. seqs = [k \in 1 .. Len(c) |-> c[k].distribution_server_array] /\ Len(c) \in Nat
    OBVIOUS
  <2> HIDE DEF seqs
  <2> QED
    BY <1>1, <2>1
<1>3. ServerEntries(c) = FlattenSeq(seqs)
  BY DEF ServerEntries
<1> HIDE DEF seqs
<1> QED
  BY <1>2, <1>3, FlattenType

-----------------------------------------------------------------------------
(* What is left of a value without its first and last character is a text. *)
LEMMA StrippedType ==
    ASSUME NEW v \in Value
    PROVE  Stripped(v) \in Text
<1>1. v.quoted \in BOOLEAN /\ v.text \in Seq(Nat)
  BY DEF Value, Text
<1>2. CASE v.quoted
  BY <1>1, <1>2 DEF Stripped, Text
<1>3. CASE ~v.quoted
  <2> DEFINE m == Len(v.text) - 2
             s == [k \in 1 .. m |-> v.text[k + 1]]
  <2>1. m \in Int /\ \A k \in 1 .. m : v.text[k + 1] \in Nat
    BY <1>1
  <2>2. CASE m \in Nat
    BY <2>1, <2>2, <1>3 DEF Stripped, Text
  <2>3. CASE m \notin Nat
    <3>1. 1 .. m = 1 .. 0
      BY <2>1, <2>3
    <3>2. s = [k \in 1 .. 0 |-> v.text[k + 1]]
      BY <3>1
    <3>3. [k \in 1 .. 0 |-> v.text[k + 1]] \in Seq(Nat)
      OBVIOUS
    <3>4. Stripped(v) = s
      BY <1>3 DEF Stripped
    <3> HIDE DEF s
    <3> QED
      BY <3>2, <3>3, <3>4 DEF Text
  <2> QED
    BY <2>2, <2>3
<1> QED
  BY <1>2, <1>3

LEMMA PropertyInEntry ==
    ASSUME NEW entries \in Seq(Entry), NEW name \in {"host", "port"},
           NEW n \in 1 .. Len(entries), entries[n][name] # Absent
    PROVE  Stripped(entries[n][name]) \in Text
<1>1. entries[n] \in Entry
  OBVIOUS
<1>2. entries[n].host \in Value \cup {Absent} /\ entries[n].port \in Value \cup {Absent}
  BY <1>1 DEF Entry
<1>3. entries[n][name] \in Value
  BY <1>2
<1> QED
  BY <1>3, StrippedType

(* The inner loop of get_properties after each of the entries *)
IsPass(values, entries, name) ==
    /\ values \in [0 .. Len(entries) -> Seq(Text)]
    /\ values[0] = <<>>
    /\ \A n \in 1 .. Len(entries) :
          values[n] = IF entries[n][name] = Absent THEN values[n - 1]
                      ELSE Append(values[n - 1], Stripped(entries[n][name]))

LEMMA PassExists ==
    ASSUME NEW entries \in Seq(Entry), NEW name \in {"host", "port"}
    PROVE  \E values : IsPass(values, entries, name)
<1> DEFINE V == Text
           N == Len(entries)
           After(v, n) == IF entries[n][name] = Absent THEN v
                          ELSE Append(v, Stripped(entries[n][name]))
           step == [n \in 0 + 1 .. N |-> [v \in Seq(V) |-> After(v, n)]]
<1>1. N \in Nat /\ 0 \in Nat /\ 0 <= N
  OBVIOUS
<1>2. ASSUME NEW n \in 1 .. N, entries[n][name] # Absent
      PROVE  Stripped(entries[n][name]) \in V
  BY <1>2, PropertyInEntry
<1>3. ASSUME NEW n \in 0 + 1 .. N, NEW v \in Seq(V) PROVE After(v, n) \in Seq(V)
  <2>1. n \in 1 .. N
    BY <1>1
  <2>2. CASE entries[n][name] = Absent
    BY <2>2
  <2>3. CASE entries[n][name] # Absent
    <3>1. Stripped(entries[n][name]) \in V
      BY <1>2, <2>1, <2>3
    <3> HIDE DEF V
    <3> QED
      BY <2>3, <3>1
  <2> QED
    BY <2>2, <2>3
<1>4. step \in [0 + 1 .. N -> [Seq(V) -> Seq(V)]]
  <2> HIDE DEF After, V
  <2> QED
    BY <1>3
<1>5. <<>> \in Seq(V)
  <2> HIDE DEF V
  <2> QED
    OBVIOUS
<1>6. PICK g : IsLoop(g, 0, N, Seq(V), <<>>, step)
  <2> HIDE DEF N, V, step
  <2> QED
    BY <1>1, <1>4, <1>5, LoopExists
<1>7. ASSUME NEW n \in 1 .. N PROVE g[n] = After(g[n - 1], n)
  <2>1. n \in 0 + 1 .. N /\ n - 1 \in 0 .. N
    BY <1>1
  <2>2. g[n - 1] \in Seq(V) /\ g[n] = step[n][g[n - 1]]
    <3> HIDE DEF V, step
    <3> QED
      BY <1>6, <2>1 DEF IsLoop
  <2> HIDE DEF After, V
  <2> QED
    BY <2>1, <2>2
<1>8. g \in [0 .. N -> Seq(V)] /\ g[0] = <<>>
  <2> HIDE DEF N, V, step
  <2> QED
    BY <1>6 DEF IsLoop
<1> QED
  BY <1>7, <1>8 DEF IsPass

(* get_properties returns what such a pass has copied in the end. *)
LEMMA PropertiesPass ==
    ASSUME NEW c \in Seq(Element), NEW name \in {"host", "port"}
    PROVE  \E values : /\ IsPass(values, ServerEntries(c), name)
                       /\ get_properties(c, name) = values[Len(ServerEntries(c))]
<1> DEFINE entries == ServerEntries(c)
           Pass(f) == f = [n \in 0 .. Len(entries) |->
                             IF n = 0 THEN <<>>
                             ELSE IF entries[n][name] = Absent THEN f[n - 1]
                             ELSE Append(f[n - 1], Stripped(entries[n][name]))]
           values == CHOOSE f : Pass(f)
<1>1. entries \in Seq(Entry)
  BY EntriesType
<1>2. get_properties(c, name) = values[Len(entries)]
  BY DEF get_properties
<1> HIDE DEF entries
<1>3. PICK g : IsPass(g, entries, name)
  BY <1>1, PassExists
<1>4. Pass(g)
  <2>1. Len(entries) \in Nat /\ g \in [0 .. Len(entries) -> Seq(Text)] /\ g[0] = <<>>
    BY <1>1, <1>3 DEF IsPass
  <2>2. \A n \in 0 .. Len(entries) : n # 0 => n \in 1 .. Len(entries)
    BY <2>1
  <2>3. \A n \in 0 .. Len(entries) :
           g[n] = IF n = 0 THEN <<>>
                  ELSE IF entries[n][name] = Absent THEN g[n - 1]
                  ELSE Append(g[n - 1], Stripped(entries[n][name]))
    BY <1>3, <2>1, <2>2 DEF IsPass
  <2> QED
    BY <2>1, <2>3
<1>5. Pass(values)
  BY <1>4
<1> HIDE DEF values
<1>6. \A n \in 1 .. Len(entries) :
         values[n] = IF entries[n][name] = Absent THEN values[n - 1]
                     ELSE Append(values[n - 1], Stripped(entries[n][name]))
  <2>1. Len(entries) \in Nat
    BY <1>1
  <2>2. \A n \in 1 .. Len(entries) : n \in 0 .. Len(entries) /\ n # 0
    BY <2>1
  <2> QED
    BY <1>5, <2>2
<1>7. values[0] = <<>>
  <2>1. Len(entries) \in Nat /\ 0 \in 0 .. Len(entries)
    BY <1>1
  <2> QED
    BY <1>5, <2>1
<1> DEFINE R == {n \in 0 .. Len(entries) : values[n] = g[n]}
<1>8. 0 .. Len(entries) \subseteq R
  <2>1. Len(entries) \in Nat /\ 0 \in Nat
    BY <1>1
  <2>2. 0 \in R
    BY <1>3, <1>7, <2>1 DEF IsPass
  <2>3. ASSUME NEW n \in 0 .. Len(entries) - 1, n \in R PROVE n + 1 \in R
    <3>1. n + 1 \in 1 .. Len(entries) /\ n + 1 \in 0 .. Len(entries) /\ (n + 1) - 1 = n
      BY <2>1
    <3>2. values[n] = g[n]
      BY <2>3
    <3>3. values[n + 1] = IF entries[n + 1][name] = Absent THEN values[n]
                          ELSE Append(values[n], Stripped(entries[n + 1][name]))
      BY <1>6, <3>1
    <3>4. g[n + 1] = IF entries[n + 1][name] = Absent THEN g[n]
                     ELSE Append(g[n], Stripped(entries[n + 1][name]))
      BY <1>3, <3>1 DEF IsPass
    <3> QED
      BY <3>1, <3>2, <3>3, <3>4
  <2> HIDE DEF R
  <2> QED
    BY <2>1, <2>2, <2>3, BoundedInduction
<1>9. get_properties(c, name) = g[Len(entries)]
  <2>1. Len(entries) \in 0 .. Len(entries)
    BY <1>1
  <2> QED
    BY <1>2, <1>8, <2>1
<1> QED
  BY <1>3, <1>9 DEF entries

LEMMA PropertiesType ==
    ASSUME NEW c \in Seq(Element), NEW name \in {"host", "port"}
    PROVE  get_properties(c, name) \in Seq(Text)
<1>1. PICK values : /\ IsPass(values, ServerEntries(c), name)
                    /\ get_properties(c, name) = values[Len(ServerEntries(c))]
  BY PropertiesPass
<1>2. Len(ServerEntries(c)) \in 0 .. Len(ServerEntries(c))
  BY EntriesType
<1> QED
  BY <1>1, <1>2 DEF IsPass

(* If no entry lacks the property, the values are those of all entries. *)
LEMMA PropertiesComplete ==
    ASSUME NEW c \in Seq(Element), NEW name \in {"host", "port"},
           \A k \in 1 .. Len(ServerEntries(c)) : ServerEntries(c)[k][name] # Absent
    PROVE  get_properties(c, name) =
               [k \in 1 .. Len(ServerEntries(c)) |-> Stripped(ServerEntries(c)[k][name])]
<1> DEFINE entries == ServerEntries(c)
           N == Len(entries)
           Copy(n) == [k \in 1 .. n |-> Stripped(entries[k][name])]
<1>1. PICK values : IsPass(values, entries, name) /\ get_properties(c, name) = values[N]
  BY PropertiesPass
<1>2. N \in Nat /\ 0 \in Nat
  BY EntriesType
<1>3. \A k \in 1 .. N : entries[k][name] # Absent
  OBVIOUS
<1> HIDE DEF entries
<1> DEFINE R == {n \in 0 .. N : values[n] = Copy(n)}
<1>4. 0 \in R
  <2>1. Copy(0) = <<>> /\ values[0] = <<>>
    BY <1>1 DEF IsPass
  <2> HIDE DEF Copy
  <2> QED
    BY <1>2, <2>1
<1>5. ASSUME NEW n \in 0 .. N - 1, n \in R PROVE n + 1 \in R
  <2>1. n \in Nat /\ n + 1 \in 1 .. N /\ n + 1 \in 0 .. N /\ (n + 1) - 1 = n
    BY <1>2
  <2>2. values[n] = Copy(n) /\ values[n] \in Seq(Text)
    <3>1. n \in 0 .. N
      BY <1>2
    <3> QED
      BY <1>1, <1>5, <3>1 DEF IsPass
  <2>3. values[n + 1] = Append(values[n], Stripped(entries[n + 1][name]))
    BY <1>1, <1>3, <2>1 DEF IsPass
  <2>4. Len(values[n]) = n
    BY <2>1, <2>2
  <2>5. Append(values[n], Stripped(entries[n + 1][name])) = Copy(n + 1)
    <3> DEFINE v == values[n]
               e == Stripped(entries[n + 1][name])
               w == Append(v, e)
    <3>1. w \in Seq(Text)
      <4>1. values[n + 1] \in Seq(Text)
        BY <1>1, <2>1 DEF IsPass
      <4> QED
        BY <2>3, <4>1
    <3>2. Len(w) = n + 1 /\ w[n + 1] = e /\ \A k \in 1 .. n : w[k] = v[k]
      <4>1. v \in Seq(Text) /\ Len(v) = n
        BY <2>2, <2>4
      <4> HIDE DEF v, e
      <4> QED
        BY <2>1, <4>1
    <3> HIDE DEF w
    <3>3. w = [k \in 1 .. n + 1 |-> w[k]]
      BY <3>1, <3>2
    <3>4. \A k \in 1 .. n + 1 : w[k] = Stripped(entries[k][name])
      <4>1. \A k \in 1 .. n + 1 : k # n + 1 => k \in 1 .. n
        BY <2>1
      <4> QED
        BY <2>2, <3>2, <4>1
    <3>5. w = Copy(n + 1)
      BY <3>3, <3>4
    <3> QED
      BY <3>5 DEF w
  <2> HIDE DEF Copy
  <2> QED
    BY <2>1, <2>3, <2>5
<1>6. 0 .. N \subseteq R
  <2> HIDE DEF R, N
  <2> QED
    BY <1>2, <1>4, <1>5, BoundedInduction
<1>7. values[N] = Copy(N)
  <2> HIDE DEF Copy
  <2> QED
    BY <1>2, <1>6
<1> QED
  BY <1>1, <1>7, Zenon DEF entries

(* What is copied stands in the order of the file. *)
LEMMA PropertiesInOrder ==
    ASSUME NEW c \in Seq(Element), NEW name \in {"host", "port"}
    PROVE  \E at \in [1 .. Len(get_properties(c, name)) -> 1 .. Len(ServerEntries(c))] :
               CopiedInOrder(at, get_properties(c, name), ServerEntries(c),
                             Len(ServerEntries(c)), name)
<1> DEFINE entries == ServerEntries(c)
           N == Len(entries)
<1>1. PICK values : IsPass(values, entries, name) /\ get_properties(c, name) = values[N]
  BY PropertiesPass
<1>2. N \in Nat /\ 0 \in Nat
  BY EntriesType
<1> HIDE DEF entries
<1> DEFINE Copied(n) == \E at \in [1 .. Len(values[n]) -> 1 .. n] :
                           CopiedInOrder(at, values[n], entries, n, name)
           R == {n \in 0 .. N : Copied(n)}
<1>3. 0 \in R
  <2> DEFINE at == [k \in 1 .. 0 |-> 0]
  <2>1. values[0] = <<>> /\ Len(<<>>) = 0
    BY <1>1 DEF IsPass
  <2>2. at \in [1 .. 0 -> 1 .. 0] /\ 1 .. 0 = {}
    OBVIOUS
  <2>3. CopiedInOrder(at, values[0], entries, 0, name)
    BY <2>1, <2>2 DEF CopiedInOrder
  <2>4. at \in [1 .. Len(values[0]) -> 1 .. 0]
    BY <2>1, <2>2
  <2> HIDE DEF at
  <2> QED
    BY <1>2, <2>3, <2>4
<1>4. ASSUME NEW n \in 0 .. N - 1, n \in R PROVE n + 1 \in R
  <2>1. n \in Nat /\ n + 1 \in 1 .. N /\ n \in 0 .. N /\ n + 1 \in 0 .. N /\ (n + 1) - 1 = n
    BY <1>2
  <2>2. PICK at \in [1 .. Len(values[n]) -> 1 .. n] : CopiedInOrder(at, values[n], entries, n, name)
    BY <1>4
  <2> DEFINE v == values[n]
             m == Len(v)
             e == entries[n + 1][name]
  <2>3. v \in Seq(Text) /\ m \in Nat
    <3>1. values[n] \in Seq(Text)
      BY <1>1, <2>1 DEF IsPass
    <3> QED
      BY <3>1
  <2>4. values[n + 1] = IF e = Absent THEN v ELSE Append(v, Stripped(e))
    BY <1>1, <2>1 DEF IsPass
  <2>5. 1 .. n + 1 = 1 .. n \cup {n + 1}
    BY <2>1
  <2>6. CASE e = Absent
    <3>1. CopiedInOrder(at, v, entries, n + 1, name)
      <4>1. \A k \in 1 .. m : at[k] # n + 1
        BY <2>1, <2>2 DEF CopiedInOrder
      <4>2. at \in [1 .. m -> 1 .. n + 1]
        BY <2>2, <2>5 DEF CopiedInOrder
      <4>3. ASSUME NEW i \in 1 .. n + 1
            PROVE  entries[i][name] # Absent <=> \E k \in 1 .. m : at[k] = i
        <5>1. CASE i = n + 1
          BY <2>6, <4>1, <5>1
        <5>2. CASE i \in 1 .. n
          BY <2>2, <5>2 DEF CopiedInOrder
        <5> QED
          BY <2>5, <5>1, <5>2
      <4> HIDE DEF v
      <4> QED
        BY <2>2, <4>2, <4>3 DEF CopiedInOrder, v
    <3> QED
      BY <2>1, <2>4, <2>6, <3>1
  <2>7. CASE e # Absent
    <3> DEFINE w == Append(v, Stripped(e))
               to == [k \in 1 .. m + 1 |-> IF k = m + 1 THEN n + 1 ELSE at[k]]
    <3>1. Len(w) = m + 1 /\ w[m + 1] = Stripped(e) /\ \A k \in 1 .. m : w[k] = v[k]
      <4> HIDE DEF v, e
      <4> QED
        BY <2>3
    <3>2. 1 .. m + 1 = 1 .. m \cup {m + 1} /\ m + 1 \notin 1 .. m
      BY <2>3
    <3>3. to[m + 1] = n + 1 /\ \A k \in 1 .. m : to[k] = at[k] /\ at[k] \in 1 .. n
      BY <2>2, <3>2 DEF CopiedInOrder
    <3>4. to \in [1 .. m + 1 -> 1 .. n + 1]
      BY <2>5, <3>2, <3>3
    <3> HIDE DEF v, e, w, to
    <3>5. \A k \in 1 .. m + 1 : /\ entries[to[k]][name] # Absent
                                /\ w[k] = Stripped(entries[to[k]][name])
      BY <2>2, <2>7, <3>1, <3>2, <3>3 DEF CopiedInOrder, v, e
    <3>6. \A j, k \in 1 .. m + 1 : j < k => to[j] < to[k]
      <4> SUFFICES ASSUME NEW j \in 1 .. m + 1, NEW k \in 1 .. m + 1, j < k
                   PROVE  to[j] < to[k]
        OBVIOUS
      <4>1. j \in 1 .. m
        BY <2>3
      <4>2. CASE k = m + 1
        BY <2>1, <3>3, <4>1, <4>2
      <4>3. CASE k \in 1 .. m
        BY <2>2, <3>3, <4>1, <4>3 DEF CopiedInOrder, v
      <4> QED
        BY <3>2, <4>2, <4>3
    <3>7. \A i \in 1 .. n + 1 : entries[i][name] # Absent <=> \E k \in 1 .. m + 1 : to[k] = i
      <4> SUFFICES ASSUME NEW i \in 1 .. n + 1
                   PROVE  entries[i][name] # Absent <=> \E k \in 1 .. m + 1 : to[k] = i
        OBVIOUS
      <4>1. CASE i = n + 1
        BY <2>7, <3>2, <3>3, <4>1 DEF e
      <4>2. CASE i \in 1 .. n
        <5>1. i # n + 1
          BY <2>1, <4>2
        <5>2. (\E k \in 1 .. m + 1 : to[k] = i) <=> \E k \in 1 .. m : at[k] = i
          BY <3>2, <3>3, <5>1
        <5> QED
          BY <2>2, <4>2, <5>2 DEF CopiedInOrder, v
      <4> QED
        BY <2>5, <4>1, <4>2
    <3>8. CopiedInOrder(to, w, entries, n + 1, name)
      <4> HIDE DEF m
      <4> QED
        BY <3>1, <3>4, <3>5, <3>6, <3>7 DEF CopiedInOrder
    <3>9. values[n + 1] = w
      BY <2>4, <2>7 DEF w
    <3>10. to \in [1 .. Len(w) -> 1 .. n + 1]
      BY <3>1, <3>4
    <3> QED
      BY <2>1, <3>8, <3>9, <3>10
  <2> QED
    BY <2>6, <2>7
<1>5. 0 .. N \subseteq R
  <2> HIDE DEF R, N
  <2> QED
    BY <1>2, <1>3, <1>4, BoundedInduction
<1>6. Copied(N)
  BY <1>2, <1>5
<1> QED
  BY <1>1, <1>6 DEF entries

-----------------------------------------------------------------------------
(* What main has copied from the file at each of its steps.  The counts    *)
(* are compared before the addresses are made, and the addresses made      *)
(* before the sessions are opened.                                         *)
ConfigInv ==
    /\ ConfigTypeOK
    /\ config_def \in Seq(Element)
    /\ merger_main \in {"counting", "addressing", "sessions"} =>
          /\ host_values = get_properties(config_def, "host")
          /\ port_values = get_properties(config_def, "port")
    /\ merger_main \in {"addressing", "sessions"} =>
          Len(host_values) = Len(port_values) /\ host_values # <<>>
    /\ merger_main = "sessions" =>
          /\ Len(host_values) <= MAX_ADDRESSES
          /\ servers = [k \in 1 .. Len(host_values) |->
                           [host |-> host_values[k], port |-> port_values[k]]]
    /\ merger_main # "sessions" => servers = <<>>

LEMMA ConfigInvInit == ConfigInit => ConfigInv
<1>1. <<>> \in Seq(Element) /\ Len(<<>>) = 0
  OBVIOUS
<1>2. ConfigInit => untunnel \in BOOLEAN
  BY Zenon DEF ConfigInit
<1> QED
  BY <1>1, <1>2, ConfigsAssumption DEF ConfigInit, ConfigInv, ConfigTypeOK

LEMMA ConfigInvStep == ConfigInv /\ [ConfigNext]_configVars => ConfigInv'
<1> SUFFICES ASSUME ConfigInv, [ConfigNext]_configVars PROVE ConfigInv'
  OBVIOUS
<1>1. ASSUME NEW c \in Configs, merger_main = "starting", ReadConfig(c) PROVE ConfigInv'
  <2>1. UNCHANGED <<untunnel, host_values, port_values, servers>> /\ servers = <<>>
    BY <1>1 DEF ReadConfig, ConfigInv
  <2>2. merger_main' \in {"exited", "read"} /\ config_def' \in Seq(Element)
    BY <1>1, ConfigsAssumption DEF ReadConfig, ConfigInv
  <2> QED
    BY <2>1, <2>2 DEF ConfigInv, ConfigTypeOK
<1>2. CASE GetProperties
  <2>1. /\ UNCHANGED <<config_def, servers>> /\ servers = <<>>
        /\ merger_main' \in {"counting", "crashed"}
    BY <1>2 DEF GetProperties, ConfigInv
  <2>2. untunnel' \in BOOLEAN
    BY <1>2 DEF GetProperties
  <2>3. /\ host_values' = get_properties(config_def', "host")
        /\ port_values' = get_properties(config_def', "port")
    BY <1>2, <2>1 DEF GetProperties
  <2> QED
    BY <2>1, <2>2, <2>3 DEF ConfigInv, ConfigTypeOK
<1>3. CASE CountServers
  <2>1. /\ UNCHANGED <<config_def, untunnel, host_values, port_values, servers>>
        /\ servers = <<>>
        /\ host_values = get_properties(config_def, "host")
        /\ port_values = get_properties(config_def, "port")
    BY <1>3 DEF CountServers, ConfigInv
  <2>2. \/ merger_main' \in {"exited", "crashed"}
        \/ /\ merger_main' = "addressing"
           /\ Len(host_values) = Len(port_values) /\ host_values # <<>>
    BY <1>3 DEF CountServers
  <2> QED
    BY <2>1, <2>2 DEF ConfigInv, ConfigTypeOK
<1>4. CASE AddressList
  <2>1. /\ UNCHANGED <<config_def, untunnel, host_values, port_values>>
        /\ servers = <<>>
        /\ host_values = get_properties(config_def, "host")
        /\ port_values = get_properties(config_def, "port")
        /\ Len(host_values) = Len(port_values) /\ host_values # <<>>
    BY <1>4 DEF AddressList, ConfigInv
  <2>2. host_values \in Seq(Text)
    BY <2>1, PropertiesType DEF ConfigInv
  <2>3. CASE merger_main' = "exited" /\ UNCHANGED servers
    BY <2>1, <2>3 DEF ConfigInv, ConfigTypeOK
  <2>4. CASE /\ ~BeyondArrays(host_values)
             /\ merger_main' = "sessions"
             /\ servers' = [k \in DOMAIN host_values |->
                               [host |-> host_values[k], port |-> port_values[k]]]
    <3>1. Len(host_values) \in Nat /\ DOMAIN host_values = 1 .. Len(host_values)
      BY <2>2
    <3>2. Len(host_values) <= MAX_ADDRESSES
      BY <2>4, <3>1, ConfigsAssumption DEF BeyondArrays
    <3>3. Len(servers') = Len(host_values)
      BY <2>4, <3>1
    <3> QED
      BY <2>1, <2>4, <3>1, <3>2, <3>3 DEF ConfigInv, ConfigTypeOK
  <2> QED
    BY <1>4, <2>3, <2>4 DEF AddressList
<1>5. CASE UNCHANGED configVars
  BY <1>5 DEF ConfigInv, ConfigTypeOK, configVars
<1> QED
  BY <1>1, <1>2, <1>3, <1>4, <1>5 DEF ConfigNext

(* main of pcapmerger keeps what it has read in step with the file.        *)
THEOREM ConfigInvariant == ConfigSpec => []ConfigInv
BY ConfigInvInit, ConfigInvStep, PTL DEF ConfigSpec

LEMMA EntriesOfFile == AllEntries = ServerEntries(config_def)
BY DEF AllEntries, ServerEntries

(* Sessions are opened for exactly the servers of a file in which no entry *)
(* lacks its host or its port, and both are in quotes, in their order and  *)
(* over all its objects, for files of any length.                          *)
THEOREM ServersOfFile == ConfigSpec => []ServersAreEntries
<1>1. ConfigInv => ServersAreEntries
  <2> SUFFICES ASSUME ConfigInv, merger_main = "sessions",
                      \A k \in DOMAIN AllEntries : Complete(AllEntries[k])
               PROVE  /\ servers = [k \in DOMAIN AllEntries |-> Server(AllEntries[k])]
                      /\ Len(servers) \in 1 .. MAX_ADDRESSES
    BY DEF ServersAreEntries
  <2> DEFINE entries == ServerEntries(config_def)
             N == Len(entries)
  <2>1. config_def \in Seq(Element) /\ entries \in Seq(Entry) /\ N \in Nat
    <3>1. config_def \in Seq(Element)
      BY DEF ConfigInv
    <3>2. entries \in Seq(Entry)
      BY <3>1, EntriesType
    <3> HIDE DEF entries
    <3> QED
      BY <3>1, <3>2
  <2>2. \A k \in 1 .. N : /\ entries[k]["host"] # Absent /\ entries[k]["port"] # Absent
                          /\ entries[k].host.quoted /\ entries[k].port.quoted
    <3>1. \A k \in 1 .. N : k \in DOMAIN AllEntries
      BY <2>1, EntriesOfFile
    <3> QED
      BY <3>1, EntriesOfFile DEF Complete
  <2>3. get_properties(config_def, "host") = [k \in 1 .. N |-> Stripped(entries[k]["host"])]
    BY <2>1, <2>2, PropertiesComplete
  <2>4. get_properties(config_def, "port") = [k \in 1 .. N |-> Stripped(entries[k]["port"])]
    BY <2>1, <2>2, PropertiesComplete
  <2>5. /\ host_values = [k \in 1 .. N |-> Stripped(entries[k]["host"])]
        /\ port_values = [k \in 1 .. N |-> Stripped(entries[k]["port"])]
        /\ host_values # <<>> /\ Len(host_values) <= MAX_ADDRESSES
        /\ servers = [k \in 1 .. Len(host_values) |->
                         [host |-> host_values[k], port |-> port_values[k]]]
    BY <2>3, <2>4 DEF ConfigInv
  <2> HIDE DEF entries
  <2>6. Len(host_values) = N
    BY <2>1, <2>5
  <2>7. servers = [k \in 1 .. N |-> Server(entries[k])]
    <3>1. ASSUME NEW k \in 1 .. N
          PROVE  [host |-> host_values[k], port |-> port_values[k]] = Server(entries[k])
      <4>1. Stripped(entries[k].host) = entries[k].host.text
        BY <2>2 DEF Stripped
      <4>2. Stripped(entries[k].port) = entries[k].port.text
        BY <2>2 DEF Stripped
      <4> QED
        BY <2>5, <4>1, <4>2 DEF Server
    <3> QED
      BY <2>5, <2>6, <3>1
  <2>8. servers = [k \in DOMAIN entries |-> Server(entries[k])]
    BY <2>1, <2>7
  <2>9. N # 0
    BY <2>1, <2>5
  <2> QED
    BY <2>1, <2>5, <2>6, <2>8, <2>9, EntriesOfFile DEF entries
<1> QED
  BY <1>1, ConfigInvariant, PTL

(* What get_properties collects in its two passes over the file is what    *)
(* pcapmerger connects to, entries that lack a host or a port included.    *)
THEOREM ServersFromPasses == ConfigSpec => []ServersCopiedInOrder
<1>1. ConfigInv => ServersCopiedInOrder
  <2> SUFFICES ASSUME ConfigInv, merger_main = "sessions", NEW name \in {"host", "port"}
               PROVE  \E at \in [1 .. Len(servers) -> 1 .. Len(AllEntries)] :
                          CopiedInOrder(at, [k \in 1 .. Len(servers) |-> servers[k][name]],
                                        AllEntries, Len(AllEntries), name)
    BY DEF ServersCopiedInOrder
  <2> DEFINE values == get_properties(config_def, name)
  <2>1. config_def \in Seq(Element) /\ host_values = get_properties(config_def, "host")
        /\ port_values = get_properties(config_def, "port")
        /\ Len(host_values) = Len(port_values)
        /\ servers = [k \in 1 .. Len(host_values) |->
                         [host |-> host_values[k], port |-> port_values[k]]]
    BY DEF ConfigInv
  <2>2. values \in Seq(Text) /\ host_values \in Seq(Text)
    BY <2>1, PropertiesType
  <2>3. values = IF name = "host" THEN host_values ELSE port_values
    BY <2>1
  <2> HIDE DEF values
  <2>4. Len(servers) = Len(host_values) /\ Len(host_values) \in Nat
    BY <2>1, <2>2
  <2>5. Len(values) = Len(servers)
    BY <2>1, <2>3, <2>4
  <2>6. \A k \in 1 .. Len(values) : values[k] = servers[k][name]
    BY <2>1, <2>3, <2>4, <2>5
  <2>7. values = [k \in 1 .. Len(servers) |-> servers[k][name]]
    BY <2>2, <2>5, <2>6
  <2> QED
    BY <2>1, <2>5, <2>7, PropertiesInOrder, EntriesOfFile DEF values
<1> QED
  BY <1>1, ConfigInvariant, PTL
=============================================================================
