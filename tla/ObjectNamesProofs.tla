------------------------ MODULE ObjectNamesProofs --------------------------
(***************************************************************************)
(* Private names are apart in every link: a name that is not cut can be    *)
(* taken to pieces again, for none of the marks it is put together with is *)
(* a character of a label or of a tag, and the counts of an object differ. *)
(***************************************************************************)
EXTENDS ObjectNamesProps, NumberLemmas, SequenceTheorems

---------------------------------------------------------------------------
(* The tag.                                                                *)

LEMMA BaseStartType ==
  ASSUME NEW path \in Seq(Character)
  PROVE  BaseStart(path) \in 1 .. Len(path) + 1
<1> DEFINE S == Slashes(path) \union {0}
<1>1. Len(path) \in Nat /\ Slashes(path) \subseteq 1 .. Len(path)
  BY DEF Slashes
<1>2. S \in SUBSET (0 .. Len(path)) /\ S # {}
  BY <1>1
<1>3. PICK s \in S : \A j \in S : s >= j
  BY <1>1, <1>2, GreatestOf
<1>4. /\ s + 1 \in 1 .. Len(path) + 1
      /\ (s + 1) - 1 \in Slashes(path) \union {0}
      /\ \A j \in Slashes(path) : j < s + 1
  <2>1. s \in 0 .. Len(path)
    BY <1>2, <1>3
  <2>2. ASSUME NEW j \in Slashes(path) PROVE j < s + 1
    <3>1. s >= j /\ j \in 1 .. Len(path)
      BY <1>1, <1>3
    <3> QED
      BY <2>1, <3>1
  <2>3. (s + 1) - 1 = s
    BY <2>1
  <2> QED
    BY <1>1, <1>3, <2>1, <2>2, <2>3
<1> QED
  BY <1>4 DEF BaseStart

LEMMA StemEndType ==
  ASSUME NEW path \in Seq(Character)
  PROVE  StemEnd(path) \in BaseStart(path) .. Len(path) + 1
<1> DEFINE S == {i \in BaseStart(path) .. Len(path) + 1 : i = Len(path) + 1 \/ path[i] = "."}
<1>1. Len(path) \in Nat /\ BaseStart(path) \in 1 .. Len(path) + 1
  BY BaseStartType
<1>2. S \in SUBSET Nat /\ Len(path) + 1 \in S
  BY <1>1
<1>3. PICK i \in S : \A j \in S : i <= j
  BY <1>2, LeastOf
<1>4. \A j \in BaseStart(path) .. i - 1 : path[j] # "."
  <2> SUFFICES ASSUME NEW j \in BaseStart(path) .. i - 1, path[j] = "." PROVE FALSE
    OBVIOUS
  <2>1. i \in BaseStart(path) .. Len(path) + 1
    BY <1>3
  <2>2. j \in S /\ ~(i <= j)
    BY <1>1, <2>1
  <2> QED
    BY <1>3, <2>2
<1> QED
  BY <1>3, <1>4 DEF StemEnd

LEMMA TagType ==
  ASSUME NEW path \in Seq(Character)
  PROVE  ModuleTag(path) \in Seq(LabelChars) /\ Len(ModuleTag(path)) < TagSize
<1>1. TagSize \in Nat /\ TagSize > 3 /\ {"o", "b", "j"} \subseteq AlphaNum
  BY NamesAssumption
<1>2. TagLength(path) \in 0 .. TagSize - 1
  <2>1. /\ BaseStart(path) \in 1 .. Len(path) + 1 /\ Len(path) \in Nat
        /\ StemEnd(path) \in BaseStart(path) .. Len(path) + 1
    BY BaseStartType, StemEndType
  <2>2. StemEnd(path) - BaseStart(path) \in Nat
    BY <2>1
  <2> QED
    BY <1>1, <2>2 DEF TagLength, Shorter
<1>3. CASE TagLength(path) = 0
  <2>1. ModuleTag(path) = <<"o", "b", "j">>
    BY <1>3 DEF ModuleTag
  <2>2. "o" \in LabelChars /\ "b" \in LabelChars /\ "j" \in LabelChars
    BY <1>1 DEF LabelChars
  <2> QED
    BY <1>1, <2>1, <2>2
<1>4. CASE TagLength(path) # 0
  <2> DEFINE Kept(k) == IF path[BaseStart(path) + k - 1] \in LabelChars
                        THEN path[BaseStart(path) + k - 1] ELSE "_"
  <2>1. ModuleTag(path) = [k \in 1 .. TagLength(path) |-> Kept(k)]
    BY <1>4 DEF ModuleTag
  <2>2. \A k \in 1 .. TagLength(path) : Kept(k) \in LabelChars
    BY DEF LabelChars
  <2> HIDE DEF Kept
  <2> QED
    BY <1>1, <1>2, <2>1, <2>2
<1> QED
  BY <1>3, <1>4

---------------------------------------------------------------------------
(* What a whole name is made of.                                           *)

Counts == 1 .. MaxCount

LEMMA CharacterSorts ==
  /\ LabelChars \subseteq Character /\ AlphaNum \subseteq Character
  /\ "-" \in Character /\ "[" \in Character /\ ":" \in Character /\ "]" \in Character
  /\ "-" \notin LabelChars /\ ":" \notin LabelChars
  BY NamesAssumption DEF LabelChars

LEMMA PrintedType ==
  /\ \A n \in Counts : Printed[n] \in Seq(AlphaNum)
  /\ \A m, n \in Counts : Printed[m] = Printed[n] => m = n
  BY NamesAssumption DEF Counts

(* What a concatenation holds, and where.                                  *)
LEMMA Concatenated ==
  ASSUME NEW s \in Seq(Character), NEW t \in Seq(Character)
  PROVE  /\ s \o t \in Seq(Character) /\ Len(s \o t) = Len(s) + Len(t)
         /\ \A k \in 1 .. Len(s) : (s \o t)[k] = s[k]
         /\ \A k \in 1 .. Len(t) : (s \o t)[Len(s) + k] = t[k]
<1>1. Len(s) \in Nat /\ Len(t) \in Nat
  OBVIOUS
<1>2. s \o t \in Seq(Character) /\ Len(s \o t) = Len(s) + Len(t)
  OBVIOUS
<1>3. \A k \in 1 .. Len(s) : (s \o t)[k] = s[k]
  BY <1>1
<1>4. \A k \in 1 .. Len(t) : (s \o t)[Len(s) + k] = t[k]
  BY <1>1
<1> QED
  BY <1>2, <1>3, <1>4

(* x is put together from the label l, the tag t and the count n.          *)
TextIs(x, l, t, n) ==
  /\ x \in Seq(Character)
  /\ Len(x) = Len(l) + Len(t) + Len(Printed[n]) + 4
  /\ \A k \in 1 .. Len(l) : x[k] = l[k]
  /\ x[Len(l) + 1] = "-"
  /\ \A k \in 1 .. Len(t) : x[Len(l) + 2 + k] = t[k]
  /\ x[Len(l) + Len(t) + 3] = ":"
  /\ \A k \in 1 .. Len(Printed[n]) : x[Len(l) + Len(t) + 3 + k] = Printed[n][k]

LEMMA TextParts ==
  ASSUME NEW l \in Seq(LabelChars), NEW t \in Seq(LabelChars), NEW n \in Counts
  PROVE  TextIs(UniqueText(l, t, n), l, t, n)
<1> DEFINE p == Printed[n]
           a == l \o <<"-", "[">>
           b == a \o t
           c == b \o <<":">>
           d == c \o p
           e == d \o <<"]">>
<1>1. UniqueText(l, t, n) = e
  BY DEF UniqueText
<1>2. /\ l \in Seq(Character) /\ t \in Seq(Character) /\ p \in Seq(Character)
      /\ <<"-", "[">> \in Seq(Character) /\ <<":">> \in Seq(Character)
      /\ <<"]">> \in Seq(Character)
  BY CharacterSorts, PrintedType
<1>3. Len(l) \in Nat /\ Len(t) \in Nat /\ Len(p) \in Nat
  BY <1>2
<1>4. /\ a \in Seq(Character) /\ Len(a) = Len(l) + 2
      /\ \A k \in 1 .. Len(l) : a[k] = l[k]
      /\ a[Len(l) + 1] = "-"
  <2>1. Len(<<"-", "[">>) = 2 /\ <<"-", "[">>[1] = "-" /\ 1 \in 1 .. 2
    OBVIOUS
  <2> QED
    BY <1>2, <2>1, Concatenated
<1> HIDE DEF a, p
<1>5. /\ b \in Seq(Character) /\ Len(b) = Len(l) + Len(t) + 2
      /\ \A k \in 1 .. Len(a) : b[k] = a[k]
      /\ \A k \in 1 .. Len(t) : b[Len(a) + k] = t[k]
  <2>1. b \in Seq(Character) /\ Len(b) = Len(a) + Len(t)
    BY <1>2, <1>4, Concatenated
  <2>2. Len(b) = Len(l) + Len(t) + 2
    BY <1>3, <1>4, <2>1
  <2> QED
    BY <1>2, <1>4, <2>1, <2>2, Concatenated
<1> HIDE DEF b
<1>6. /\ c \in Seq(Character) /\ Len(c) = Len(l) + Len(t) + 3
      /\ \A k \in 1 .. Len(b) : c[k] = b[k]
      /\ c[Len(b) + 1] = ":"
  <2>1. Len(<<":">>) = 1 /\ <<":">>[1] = ":"
    OBVIOUS
  <2>2. c \in Seq(Character) /\ Len(c) = Len(b) + 1
    BY <1>2, <1>5, <2>1, Concatenated
  <2>3. Len(c) = Len(l) + Len(t) + 3
    BY <1>3, <1>5, <2>2
  <2> QED
    BY <1>2, <1>5, <2>1, <2>2, <2>3, Concatenated
<1> HIDE DEF c
<1>7. /\ d \in Seq(Character) /\ Len(d) = Len(l) + Len(t) + Len(p) + 3
      /\ \A k \in 1 .. Len(c) : d[k] = c[k]
      /\ \A k \in 1 .. Len(p) : d[Len(c) + k] = p[k]
  <2>1. d \in Seq(Character) /\ Len(d) = Len(c) + Len(p)
    BY <1>2, <1>6, Concatenated
  <2>2. Len(d) = Len(l) + Len(t) + Len(p) + 3
    BY <1>3, <1>6, <2>1
  <2>3. \A k \in 1 .. Len(c) : d[k] = c[k]
    BY <1>2, <1>6, Concatenated
  <2>4. \A k \in 1 .. Len(p) : d[Len(c) + k] = p[k]
    BY <1>2, <1>6, Concatenated
  <2> QED
    BY <2>1, <2>2, <2>3, <2>4
<1> HIDE DEF d
<1>8. /\ e \in Seq(Character) /\ Len(e) = Len(l) + Len(t) + Len(p) + 4
      /\ \A k \in 1 .. Len(d) : e[k] = d[k]
  <2>1. e \in Seq(Character) /\ Len(e) = Len(d) + 1
    BY <1>2, <1>7, Concatenated
  <2>2. Len(e) = Len(l) + Len(t) + Len(p) + 4
    BY <1>3, <1>7, <2>1
  <2>3. \A k \in 1 .. Len(d) : e[k] = d[k]
    BY <1>2, <1>7, Concatenated
  <2> QED
    BY <2>1, <2>2, <2>3
<1> HIDE DEF e
<1>9. ASSUME NEW k \in 1 .. Len(l) + 2 PROVE e[k] = a[k]
  <2>1. k \in 1 .. Len(a) /\ k \in 1 .. Len(b) /\ k \in 1 .. Len(c) /\ k \in 1 .. Len(d)
    BY <1>3, <1>4, <1>5, <1>6, <1>7
  <2> QED
    BY <2>1, <1>5, <1>6, <1>7, <1>8
<1>10. ASSUME NEW k \in 1 .. Len(t) PROVE e[Len(l) + 2 + k] = t[k]
  <2>1. /\ Len(a) + k = Len(l) + 2 + k
        /\ Len(l) + 2 + k \in 1 .. Len(b) /\ Len(l) + 2 + k \in 1 .. Len(c)
        /\ Len(l) + 2 + k \in 1 .. Len(d)
    BY <1>3, <1>4, <1>5, <1>6, <1>7
  <2> QED
    BY <2>1, <1>5, <1>6, <1>7, <1>8
<1>11. e[Len(l) + Len(t) + 3] = ":"
  <2>1. /\ Len(b) + 1 = Len(l) + Len(t) + 3
        /\ Len(l) + Len(t) + 3 \in 1 .. Len(c) /\ Len(l) + Len(t) + 3 \in 1 .. Len(d)
    BY <1>3, <1>5, <1>6, <1>7
  <2> QED
    BY <2>1, <1>6, <1>7, <1>8
<1>12. ASSUME NEW k \in 1 .. Len(p) PROVE e[Len(l) + Len(t) + 3 + k] = p[k]
  <2>1. /\ Len(c) + k = Len(l) + Len(t) + 3 + k
        /\ Len(l) + Len(t) + 3 + k \in 1 .. Len(d)
    BY <1>3, <1>6, <1>7
  <2> QED
    BY <2>1, <1>7, <1>8
<1>13. \A k \in 1 .. Len(l) : e[k] = l[k]
  BY <1>3, <1>4, <1>9
<1>14. e[Len(l) + 1] = "-"
  BY <1>3, <1>4, <1>9
<1> QED
  BY <1>1, <1>8, <1>10, <1>11, <1>12, <1>13, <1>14 DEF p, TextIs

LEMMA Sums ==
  /\ \A a, b, c \in Nat : a + 1 \in 1 .. a + b + c + 4
  /\ \A a, b, c, d \in Nat : a + b + c + 4 = a + b + d + 4 => c = d
  OBVIOUS

(* A whole name is no label's.                                             *)
LEMMA TextIsNoLabel ==
  ASSUME NEW l \in Seq(LabelChars), NEW t \in Seq(LabelChars), NEW n \in Counts
  PROVE  UniqueText(l, t, n) \notin Seq(LabelChars)
<1> DEFINE x == UniqueText(l, t, n)
<1> SUFFICES ASSUME x \in Seq(LabelChars) PROVE FALSE
  OBVIOUS
<1>0. TextIs(x, l, t, n)
  BY TextParts
<1> HIDE DEF x
<1>1. /\ Len(x) = Len(l) + Len(t) + Len(Printed[n]) + 4
      /\ x[Len(l) + 1] = "-"
  BY <1>0 DEF TextIs
<1>2. Len(l) \in Nat /\ Len(t) \in Nat /\ Len(Printed[n]) \in Nat
  BY PrintedType
<1>3. Len(l) + 1 \in 1 .. Len(x)
  BY <1>1, <1>2, Sums, Zenon
<1>4. x[Len(l) + 1] \in LabelChars
  BY <1>3
<1> QED
  BY <1>1, <1>4, CharacterSorts

(* The label of one of two equal names is not shorter, and neither is its  *)
(* tag when the labels are as long.                                        *)
LEMMA LabelsAsLong ==
  ASSUME NEW l1 \in Seq(LabelChars), NEW t1 \in Seq(LabelChars), NEW n1 \in Counts,
         NEW l2 \in Seq(LabelChars), NEW t2 \in Seq(LabelChars), NEW n2 \in Counts,
         UniqueText(l1, t1, n1) = UniqueText(l2, t2, n2)
  PROVE  Len(l1) >= Len(l2)
<1> DEFINE x == UniqueText(l1, t1, n1)
<1>0. TextIs(x, l1, t1, n1) /\ TextIs(x, l2, t2, n2)
  BY TextParts
<1> HIDE DEF x
<1>1. Len(l1) \in Nat /\ Len(l2) \in Nat
  OBVIOUS
<1> SUFFICES ASSUME Len(l1) < Len(l2) PROVE FALSE
  BY <1>1
<1>2. Len(l1) + 1 \in 1 .. Len(l2)
  BY <1>1
<1>3. x[Len(l1) + 1] = "-"
  BY <1>0 DEF TextIs
<1>4. x[Len(l1) + 1] = l2[Len(l1) + 1]
  BY <1>2, <1>0 DEF TextIs
<1>5. l2[Len(l1) + 1] \in LabelChars
  BY <1>2
<1> QED
  BY <1>3, <1>4, <1>5, CharacterSorts

LEMMA TagsAsLong ==
  ASSUME NEW l1 \in Seq(LabelChars), NEW t1 \in Seq(LabelChars), NEW n1 \in Counts,
         NEW l2 \in Seq(LabelChars), NEW t2 \in Seq(LabelChars), NEW n2 \in Counts,
         UniqueText(l1, t1, n1) = UniqueText(l2, t2, n2), Len(l1) = Len(l2)
  PROVE  Len(t1) >= Len(t2)
<1> DEFINE x == UniqueText(l1, t1, n1)
<1>0. TextIs(x, l1, t1, n1) /\ TextIs(x, l2, t2, n2)
  BY TextParts
<1> HIDE DEF x
<1>1. Len(l1) \in Nat /\ Len(t1) \in Nat /\ Len(t2) \in Nat
  OBVIOUS
<1> SUFFICES ASSUME Len(t1) < Len(t2) PROVE FALSE
  BY <1>1
<1>2. Len(t1) + 1 \in 1 .. Len(t2) /\ Len(l2) + 2 + (Len(t1) + 1) = Len(l1) + Len(t1) + 3
  BY <1>1
<1>3. x[Len(l1) + Len(t1) + 3] = ":"
  BY <1>0 DEF TextIs
<1>4. x[Len(l2) + 2 + (Len(t1) + 1)] = t2[Len(t1) + 1]
  BY <1>2, <1>0 DEF TextIs
<1>5. t2[Len(t1) + 1] \in LabelChars
  BY <1>2
<1> QED
  BY <1>2, <1>3, <1>4, <1>5, CharacterSorts

(* A whole name tells the label, the tag and the count it was made from.   *)
LEMMA TextTells ==
  ASSUME NEW l1 \in Seq(LabelChars), NEW t1 \in Seq(LabelChars), NEW n1 \in Counts,
         NEW l2 \in Seq(LabelChars), NEW t2 \in Seq(LabelChars), NEW n2 \in Counts,
         UniqueText(l1, t1, n1) = UniqueText(l2, t2, n2)
  PROVE  l1 = l2 /\ t1 = t2 /\ n1 = n2
<1> DEFINE p1 == Printed[n1]
           p2 == Printed[n2]
           x == UniqueText(l1, t1, n1)
<1>0. TextIs(x, l1, t1, n1) /\ TextIs(x, l2, t2, n2)
  BY TextParts
<1> HIDE DEF x
<1>1. /\ Len(l1) \in Nat /\ Len(l2) \in Nat /\ Len(t1) \in Nat /\ Len(t2) \in Nat
      /\ p1 \in Seq(AlphaNum) /\ p2 \in Seq(AlphaNum) /\ Len(p1) \in Nat /\ Len(p2) \in Nat
  BY PrintedType
<1>2. Len(l1) = Len(l2)
  <2>1. Len(l1) >= Len(l2)
    BY LabelsAsLong
  <2>2. Len(l2) >= Len(l1)
    BY LabelsAsLong
  <2> QED
    BY <1>1, <2>1, <2>2
<1>3. Len(t1) = Len(t2)
  <2>1. Len(t1) >= Len(t2)
    BY <1>2, TagsAsLong
  <2>2. Len(t2) >= Len(t1)
    BY <1>2, TagsAsLong
  <2> QED
    BY <1>1, <2>1, <2>2
<1>4. Len(p1) = Len(p2)
  <2>1. Len(l1) + Len(t1) + Len(p1) + 4 = Len(l2) + Len(t2) + Len(p2) + 4
    BY <1>0 DEF TextIs
  <2>2. Len(l1) + Len(t1) + Len(p1) + 4 = Len(l1) + Len(t1) + Len(p2) + 4
    BY <1>2, <1>3, <2>1, Zenon
  <2> HIDE DEF p1, p2
  <2> QED
    BY <1>1, <2>2, Sums, Zenon
<1>5. l1 = l2
  <2>1. \A k \in 1 .. Len(l1) : l1[k] = l2[k]
    BY <1>2, <1>0 DEF TextIs
  <2> QED
    BY <1>2, <2>1, SeqEqual
<1>6. t1 = t2
  <2>1. \A k \in 1 .. Len(t1) : t1[k] = t2[k]
    BY <1>2, <1>3, <1>0 DEF TextIs
  <2> QED
    BY <1>3, <2>1, SeqEqual
<1>7. p1 = p2
  <2>1. ASSUME NEW k \in 1 .. Len(p1) PROVE p1[k] = p2[k]
    <3>1. x[Len(l1) + Len(t1) + 3 + k] = p1[k]
      BY <1>0 DEF TextIs
    <3>2. k \in 1 .. Len(p2)
      BY <1>4, Zenon
    <3>3. x[Len(l2) + Len(t2) + 3 + k] = p2[k]
      BY <1>0, <3>2 DEF TextIs
    <3> QED
      BY <1>2, <1>3, <3>1, <3>3, Zenon
  <2> QED
    BY <1>1, <1>4, <2>1, SeqEqual
<1> QED
  BY <1>5, <1>6, <1>7, PrintedType
---------------------------------------------------------------------------
(* The invariant: what every name written so far was made from, and that   *)
(* the counter is above the counts of the file's private labels.           *)

FileLabel  == [name : Seq(LabelChars), public : BOOLEAN]
LinkFile   == [path : Seq(Character), labels : Seq(FileLabel)]
NameSymbol == [str : Seq(Character), n : Nat]

Count(u, k) == names[u][k].n

MadeFromItsLabel(u, k) ==
  IF IsPrivate(u, k)
  THEN /\ Count(u, k) \in Counts
       /\ names[u][k].str = UniqueName(LabelOf(u, k), Tag(u), Count(u, k))
  ELSE names[u][k].str = LabelOf(u, k)

Typed ==
  /\ link \in Links
  /\ unit \in 1 .. Len(link) + 1 /\ line \in Nat /\ local_label_counter \in Nat
  /\ names \in Seq(Seq(NameSymbol))
  /\ module_name \in Seq(LabelChars) /\ Len(module_name) < TagSize

Placed ==
  /\ line = 0 => Len(names) = unit - 1
  /\ line # 0 =>
       /\ unit \in 1 .. Len(link) /\ Len(names) = unit
       /\ line <= Len(Labels) + 1 /\ Len(names[unit]) = line - 1
       /\ module_name = Tag(unit)
       /\ local_label_counter \in 1 .. line

AsMade ==
  \A u \in 1 .. Len(names) :
    /\ u \in 1 .. Len(link) /\ Len(names[u]) <= Len(link[u].labels)
    /\ \A k \in 1 .. Len(names[u]) : MadeFromItsLabel(u, k)

CountsDiffer ==
  \A u \in 1 .. Len(names) : \A j, k \in 1 .. Len(names[u]) :
    j # k /\ IsPrivate(u, j) /\ IsPrivate(u, k) => Count(u, j) # Count(u, k)

BelowCounter ==
  line # 0 =>
    \A k \in 1 .. Len(names[unit]) : IsPrivate(unit, k) => Count(unit, k) < local_label_counter

NamesInv == Typed /\ Placed /\ AsMade /\ CountsDiffer /\ BelowCounter

---------------------------------------------------------------------------
LEMMA LinkType ==
  ASSUME link \in Links
  PROVE  /\ link \in Seq(LinkFile) /\ Len(link) \in Nat
         /\ \A u \in 1 .. Len(link) :
              /\ link[u].path \in Seq(Character)
              /\ Len(link[u].labels) \in Nat /\ Len(link[u].labels) <= MaxCount
              /\ Tag(u) \in Seq(LabelChars)
              /\ \A k \in 1 .. Len(link[u].labels) :
                   LabelOf(u, k) \in Seq(LabelChars) /\ IsPrivate(u, k) \in BOOLEAN
<1>1. link \in Seq(LinkFile) /\ Len(link) \in Nat
  <2>1. link \in Seq(LinkFile)
    BY NamesAssumption DEF LinkFile, FileLabel
  <2> QED
    BY <2>1
<1>2. \A u \in 1 .. Len(link) : Len(link[u].labels) <= MaxCount
  <2>1. \A u \in DOMAIN link : Len(link[u].labels) <= MaxCount
    BY NamesAssumption
  <2> QED
    BY <1>1, <2>1
<1>3. ASSUME NEW u \in 1 .. Len(link)
      PROVE  /\ link[u].path \in Seq(Character) /\ Len(link[u].labels) \in Nat
             /\ Tag(u) \in Seq(LabelChars)
             /\ \A k \in 1 .. Len(link[u].labels) :
                  LabelOf(u, k) \in Seq(LabelChars) /\ IsPrivate(u, k) \in BOOLEAN
  <2>1. link[u] \in LinkFile
    BY <1>1
  <2>2. /\ link[u].path \in Seq(Character)
        /\ link[u].labels \in Seq(FileLabel)
    BY <2>1 DEF LinkFile
  <2>3. Tag(u) \in Seq(LabelChars)
    BY <2>2, TagType DEF Tag
  <2>4. ASSUME NEW k \in 1 .. Len(link[u].labels)
        PROVE  LabelOf(u, k) \in Seq(LabelChars) /\ IsPrivate(u, k) \in BOOLEAN
    <3>1. link[u].labels[k] \in FileLabel
      BY <2>2
    <3> QED
      BY <3>1 DEF FileLabel, LabelOf, IsPrivate
  <2>5. Len(link[u].labels) \in Nat
    BY <2>2
  <2> QED
    BY <2>2, <2>3, <2>4, <2>5
<1> QED
  BY <1>1, <1>2, <1>3

LEMMA NamesInit == Init => NamesInv
<1> SUFFICES ASSUME Init PROVE NamesInv
  OBVIOUS
<1>1. link \in Links /\ Len(link) \in Nat
  BY LinkType DEF Init
<1>2. TagSize \in Nat /\ TagSize > 3
  BY NamesAssumption
<1>3. Typed
  BY <1>1, <1>2 DEF Init, Typed
<1> QED
  BY <1>3 DEF Init, NamesInv, Placed, AsMade, CountsDiffer, BelowCounter

(* What is said of a file's names depends on these names alone.            *)
LEMMA MadeKept ==
  ASSUME link' = link, NEW u, NEW k, names'[u][k] = names[u][k]
  PROVE  /\ MadeFromItsLabel(u, k)' <=> MadeFromItsLabel(u, k)
         /\ IsPrivate(u, k)' <=> IsPrivate(u, k)
         /\ Count(u, k)' = Count(u, k)
  BY DEF MadeFromItsLabel, IsPrivate, Count, LabelOf, Tag

LEMMA NamesKept ==
  ASSUME link' = link, names' = names, AsMade, CountsDiffer
  PROVE  AsMade' /\ CountsDiffer'
<1>1. AsMade'
  <2> SUFFICES ASSUME NEW u \in 1 .. Len(names)
               PROVE  /\ u \in 1 .. Len(link') /\ Len(names'[u]) <= Len(link'[u].labels)
                      /\ \A k \in 1 .. Len(names'[u]) : MadeFromItsLabel(u, k)'
    BY DEF AsMade
  <2>1. u \in 1 .. Len(link) /\ Len(names[u]) <= Len(link[u].labels)
    BY DEF AsMade
  <2>2. ASSUME NEW k \in 1 .. Len(names[u]) PROVE MadeFromItsLabel(u, k)'
    <3>1. MadeFromItsLabel(u, k)
      BY DEF AsMade
    <3>2. MadeFromItsLabel(u, k)' <=> MadeFromItsLabel(u, k)
      BY MadeKept
    <3> QED
      BY <3>1, <3>2
  <2> QED
    BY <2>1, <2>2
<1>2. CountsDiffer'
  <2> SUFFICES ASSUME NEW u \in 1 .. Len(names),
                      NEW j \in 1 .. Len(names[u]), NEW k \in 1 .. Len(names[u]),
                      j # k, IsPrivate(u, j)', IsPrivate(u, k)'
               PROVE  Count(u, j)' # Count(u, k)'
    BY DEF CountsDiffer
  <2>1. IsPrivate(u, j) /\ IsPrivate(u, k)
    BY MadeKept
  <2>2. Count(u, j) # Count(u, k)
    BY <2>1 DEF CountsDiffer
  <2>3. Count(u, j)' = Count(u, j) /\ Count(u, k)' = Count(u, k)
    BY MadeKept
  <2> QED
    BY <2>2, <2>3
<1> QED
  BY <1>1, <1>2

LEMMA StutterNames == NamesInv /\ UNCHANGED vars => NamesInv'
<1> SUFFICES ASSUME NamesInv, UNCHANGED vars PROVE NamesInv'
  OBVIOUS
<1>1. /\ link' = link /\ names' = names /\ unit' = unit /\ line' = line
      /\ module_name' = module_name /\ local_label_counter' = local_label_counter
  BY DEF vars
<1>2. AsMade' /\ CountsDiffer'
  BY <1>1, NamesKept DEF NamesInv
<1>3. Typed'
  BY <1>1 DEF NamesInv, Typed
<1>4. Placed'
  BY <1>1 DEF NamesInv, Placed, Labels, Tag
<1>5. BelowCounter'
  <2>1. \A k : /\ IsPrivate(unit, k)' <=> IsPrivate(unit, k)
              /\ Count(unit, k)' = Count(unit, k)
    BY <1>1 DEF IsPrivate, Count
  <2> QED
    BY <1>1, <2>1 DEF NamesInv, BelowCounter, IsPrivate, Count
<1> QED
  BY <1>2, <1>3, <1>4, <1>5 DEF NamesInv

LEMMA NextFileStep == NamesInv /\ NextFile => NamesInv'
<1> SUFFICES ASSUME NamesInv, NextFile PROVE NamesInv'
  OBVIOUS
<1>1. /\ unit <= Len(link) /\ line > Len(Labels) /\ unit' = unit + 1 /\ line' = 0
      /\ link' = link /\ names' = names /\ module_name' = module_name
      /\ local_label_counter' = local_label_counter
  BY DEF NextFile
<1>2. Typed /\ Placed /\ AsMade /\ CountsDiffer /\ Len(link) \in Nat
  BY LinkType DEF NamesInv, Typed
<1>3. unit \in 1 .. Len(link) /\ Len(Labels) \in Nat
  BY <1>1, <1>2, LinkType DEF Typed, Labels
<1>4. line # 0 /\ Len(names) = unit
  BY <1>1, <1>2, <1>3 DEF Typed, Placed
<1>5. Typed'
  BY <1>1, <1>2, <1>3 DEF Typed
<1>6. Placed'
  BY <1>1, <1>3, <1>4 DEF Placed
<1>7. AsMade' /\ CountsDiffer'
  BY <1>1, <1>2, NamesKept
<1>8. BelowCounter'
  BY <1>1 DEF BelowCounter
<1> QED
  BY <1>5, <1>6, <1>7, <1>8 DEF NamesInv

LEMMA EnterStep == NamesInv /\ EnterCodeGen => NamesInv'
<1> SUFFICES ASSUME NamesInv, EnterCodeGen PROVE NamesInv'
  OBVIOUS
<1>1. /\ unit <= Len(link) /\ line = 0 /\ unit' = unit /\ line' = 1 /\ link' = link
      /\ names' = Append(names, << >>) /\ module_name' = ModuleTag(link[unit].path)
      /\ local_label_counter' = 1
  BY DEF EnterCodeGen
<1>2. Typed /\ Placed /\ AsMade /\ CountsDiffer /\ Len(link) \in Nat
  BY LinkType DEF NamesInv, Typed
<1>3. unit \in 1 .. Len(link) /\ link[unit].path \in Seq(Character)
  BY <1>1, <1>2, LinkType DEF Typed
<1>4. Len(names) = unit - 1 /\ names \in Seq(Seq(NameSymbol))
  BY <1>1, <1>2 DEF Placed, Typed
<1>5. /\ names' \in Seq(Seq(NameSymbol)) /\ Len(names') = unit
      /\ \A u \in 1 .. Len(names) : names'[u] = names[u]
      /\ names'[unit] = << >>
  BY <1>1, <1>3, <1>4
<1>6. Typed'
  <2>1. module_name' \in Seq(LabelChars) /\ Len(module_name') < TagSize
    BY <1>1, <1>3, TagType
  <2> QED
    BY <1>1, <1>2, <1>3, <1>5, <2>1 DEF Typed
<1>7. Placed'
  <2>1. Len(Labels') \in Nat
    BY <1>1, <1>2, <1>3, LinkType DEF Labels, Typed
  <2>2. Tag(unit)' = ModuleTag(link[unit].path)
    BY <1>1 DEF Tag
  <2> QED
    BY <1>1, <1>3, <1>5, <2>1, <2>2 DEF Placed
<1>8. AsMade'
  <2> SUFFICES ASSUME NEW u \in 1 .. Len(names')
               PROVE  /\ u \in 1 .. Len(link') /\ Len(names'[u]) <= Len(link'[u].labels)
                      /\ \A k \in 1 .. Len(names'[u]) : MadeFromItsLabel(u, k)'
    BY DEF AsMade
  <2>1. CASE u = unit
    <3>1. Len(names'[u]) = 0
      BY <1>5, <2>1
    <3>2. Len(link[unit].labels) \in Nat
      BY <1>2, <1>3, LinkType DEF Typed
    <3> QED
      BY <1>1, <1>3, <2>1, <3>1, <3>2
  <2>2. CASE u # unit
    <3>1. u \in 1 .. Len(names) /\ names'[u] = names[u]
      <4>1. u \in 1 .. unit /\ unit \in Int
        BY <1>2, <1>3, <1>5
      <4>2. u \in 1 .. unit - 1
        BY <2>2, <4>1
      <4> QED
        BY <1>4, <1>5, <4>2
    <3>2. /\ u \in 1 .. Len(link) /\ Len(names[u]) <= Len(link[u].labels)
          /\ \A k \in 1 .. Len(names[u]) : MadeFromItsLabel(u, k)
      BY <1>2, <3>1 DEF AsMade
    <3>3. ASSUME NEW k \in 1 .. Len(names[u]) PROVE MadeFromItsLabel(u, k)'
      <4>1. names'[u][k] = names[u][k] /\ MadeFromItsLabel(u, k)
        BY <3>1, <3>2
      <4> QED
        BY <1>1, <4>1, MadeKept
    <3> QED
      BY <1>1, <3>1, <3>2, <3>3
  <2> QED
    BY <2>1, <2>2
<1>9. CountsDiffer'
  <2> SUFFICES ASSUME NEW u \in 1 .. Len(names'), NEW j \in 1 .. Len(names'[u]),
                      NEW k \in 1 .. Len(names'[u]), j # k,
                      IsPrivate(u, j)', IsPrivate(u, k)'
               PROVE  Count(u, j)' # Count(u, k)'
    BY DEF CountsDiffer
  <2>1. u # unit
    <3>1. Len(names'[unit]) = 0
      BY <1>5
    <3>2. Len(names'[u]) # 0
      OBVIOUS
    <3> QED
      BY <3>1, <3>2
  <2>2. u \in 1 .. Len(names) /\ names'[u] = names[u]
    <3>1. u \in 1 .. unit
      BY <1>5
    <3>2. u \in 1 .. Len(names)
      BY <1>3, <1>4, <2>1, <3>1
    <3> QED
      BY <1>5, <3>2
  <2> QED
    BY <1>1, <1>2, <2>2, MadeKept DEF CountsDiffer
<1>10. BelowCounter'
  BY <1>1, <1>5 DEF BelowCounter
<1> QED
  BY <1>6, <1>7, <1>8, <1>9, <1>10 DEF NamesInv

(* One label is named, public or private: the label of block b of file f.  *)
LEMMA NamingStep ==
  ASSUME NamesInv, NEW f, unit = f, NEW b, line = b, f <= Len(link), b \in DOMAIN Labels,
         NEW symbol \in NameSymbol, Named(symbol),
         \/ /\ IsPrivate(f, b)
            /\ symbol.n = local_label_counter
            /\ symbol.str = UniqueName(LabelOf(f, b), module_name, local_label_counter)
            /\ local_label_counter' = local_label_counter + 1
         \/ /\ ~IsPrivate(f, b)
            /\ symbol.str = LabelOf(f, b)
            /\ local_label_counter' = local_label_counter
  PROVE  NamesInv'
<1>1. /\ unit' = f /\ line' = b + 1 /\ link' = link /\ module_name' = module_name
      /\ names' = [names EXCEPT ![f] = Append(names[f], symbol)]
  BY DEF Named
<1>2. /\ Typed /\ Placed /\ AsMade /\ CountsDiffer /\ BelowCounter
      /\ Len(link) \in Nat /\ link \in Links
  BY LinkType DEF NamesInv, Typed
<1>3. f \in 1 .. Len(link) /\ local_label_counter \in Nat
  BY <1>2 DEF Typed
<1>4. Len(Labels) \in Nat /\ Len(Labels) <= MaxCount /\ b \in 1 .. Len(Labels)
  BY <1>2, <1>3, LinkType DEF Labels
<1>5. /\ Len(names) = f /\ Len(names[f]) = b - 1 /\ module_name = Tag(f)
      /\ local_label_counter \in 1 .. b
  BY <1>2, <1>4 DEF Placed
<1>6. local_label_counter \in Counts
  <2>1. MaxCount \in Nat
    BY NamesAssumption
  <2> QED
    BY <1>4, <1>5, <2>1 DEF Counts
<1>7. /\ names \in Seq(Seq(NameSymbol))
      /\ names[f] \in Seq(NameSymbol)
  BY <1>2, <1>3, <1>5 DEF Typed
<1>7b. \A k \in 1 .. Len(names[f]) : Count(f, k) \in Nat
  <2>1. \A k \in 1 .. Len(names[f]) : names[f][k] \in NameSymbol
    BY <1>7
  <2> QED
    BY <2>1 DEF NameSymbol, Count
<1> DEFINE longer == Append(names[f], symbol)
<1>8. /\ longer \in Seq(NameSymbol) /\ Len(longer) = b
      /\ \A k \in 1 .. b - 1 : longer[k] = names[f][k]
      /\ longer[b] = symbol
  BY <1>4, <1>5, <1>7
<1> HIDE DEF longer
<1>9. /\ names' \in Seq(Seq(NameSymbol)) /\ Len(names') = f
      /\ names'[f] = longer
      /\ \A u \in 1 .. f : u # f => names'[u] = names[u]
  BY <1>1, <1>3, <1>5, <1>7, <1>8 DEF longer
<1>10. /\ Len(names'[f]) = b
       /\ \A k \in 1 .. b - 1 : names'[f][k] = names[f][k]
       /\ names'[f][b] = symbol
  BY <1>8, <1>9
<1>11. IsPrivate(f, b)' <=> IsPrivate(f, b)
  BY <1>1 DEF IsPrivate
<1>12. Typed'
  <2>1. line' \in Nat /\ local_label_counter' \in Nat
    BY <1>1, <1>3, <1>4
  <2> QED
    BY <1>1, <1>2, <1>9, <2>1 DEF Typed
<1>13. Placed'
  <2>1. Labels' = Labels /\ Tag(f)' = Tag(f)
    BY <1>1 DEF Labels, Tag
  <2>2. line' # 0 /\ line' <= Len(Labels) + 1 /\ line' - 1 = b
    BY <1>1, <1>4
  <2>3. local_label_counter' \in 1 .. line'
    BY <1>1, <1>4, <1>5
  <2> QED
    BY <1>1, <1>3, <1>5, <1>9, <1>10, <2>1, <2>2, <2>3 DEF Placed
<1>14. MadeFromItsLabel(f, b)'
  <2>1. Count(f, b)' = symbol.n /\ names'[f][b].str = symbol.str
    BY <1>1, <1>10 DEF Count
  <2>2. LabelOf(f, b)' = LabelOf(f, b) /\ Tag(f)' = module_name
    BY <1>1, <1>5 DEF LabelOf, Tag
  <2>3. MadeFromItsLabel(f, b)' <=>
          IF IsPrivate(f, b)'
          THEN /\ Count(f, b)' \in Counts
               /\ names'[f][b].str =
                    UniqueName(LabelOf(f, b)', Tag(f)', Count(f, b)')
          ELSE names'[f][b].str = LabelOf(f, b)'
    BY <1>1 DEF MadeFromItsLabel, UniqueName, UniqueText, Cut, Count, IsPrivate, LabelOf, Tag
  <2> QED
    BY <1>6, <1>11, <2>1, <2>2, <2>3
<1>15. ASSUME NEW k \in 1 .. b - 1
       PROVE  /\ k \in 1 .. Len(names[f]) /\ names'[f][k] = names[f][k]
              /\ MadeFromItsLabel(f, k)' <=> MadeFromItsLabel(f, k)
              /\ IsPrivate(f, k)' <=> IsPrivate(f, k)
              /\ Count(f, k)' = Count(f, k)
  BY <1>1, <1>5, <1>10, MadeKept
<1>16. AsMade'
  <2> SUFFICES ASSUME NEW u \in 1 .. Len(names')
               PROVE  /\ u \in 1 .. Len(link') /\ Len(names'[u]) <= Len(link'[u].labels)
                      /\ \A k \in 1 .. Len(names'[u]) : MadeFromItsLabel(u, k)'
    BY DEF AsMade
  <2>1. CASE u = f
    <3>1. Len(names'[u]) <= Len(link'[u].labels)
      BY <1>1, <1>4, <1>10, <2>1 DEF Labels
    <3>2. ASSUME NEW k \in 1 .. Len(names'[u]) PROVE MadeFromItsLabel(f, k)'
      <4>1. CASE k = b
        BY <1>14, <4>1
      <4>2. CASE k # b
        <5>1. k \in 1 .. b - 1
          BY <1>4, <1>10, <2>1, <4>2
        <5>2. MadeFromItsLabel(f, k)
          BY <1>2, <1>3, <1>5, <1>15, <5>1 DEF AsMade
        <5> QED
          BY <1>15, <5>1, <5>2
      <4> QED
        BY <4>1, <4>2
    <3>3. u \in 1 .. Len(link')
      BY <1>1, <1>3, <2>1
    <3> QED
      BY <2>1, <3>1, <3>2, <3>3
  <2>2. CASE u # f
    <3>1. u \in 1 .. Len(names) /\ names'[u] = names[u]
      BY <1>3, <1>5, <1>9, <2>2
    <3> QED
      BY <1>1, <1>2, <3>1, MadeKept DEF AsMade
  <2> QED
    BY <2>1, <2>2
<1>17. BelowCounter'
  <2> SUFFICES ASSUME NEW k \in 1 .. Len(names'[f]), IsPrivate(f, k)'
               PROVE  Count(f, k)' < local_label_counter'
    BY <1>1 DEF BelowCounter
  <2>1. CASE k = b
    <3>1. Count(f, k)' = local_label_counter
      BY <1>1, <1>10, <1>11, <2>1 DEF Count
    <3>2. local_label_counter' = local_label_counter + 1
      BY <1>11, <2>1
    <3> QED
      BY <1>3, <3>1, <3>2
  <2>2. CASE k # b
    <3>1. k \in 1 .. b - 1
      BY <1>4, <1>10, <2>2
    <3>2. Count(f, k) < local_label_counter
      <4>1. b # 0
        BY <1>4
      <4> QED
        BY <1>2, <1>15, <3>1, <4>1 DEF BelowCounter
    <3>3. Count(f, k) \in Nat
      BY <1>7b, <1>15, <3>1
    <3>4. local_label_counter' \in {local_label_counter, local_label_counter + 1}
      OBVIOUS
    <3>5. Count(f, k)' = Count(f, k)
      BY <1>15, <3>1
    <3> QED
      BY <1>3, <3>2, <3>3, <3>4, <3>5
  <2> QED
    BY <2>1, <2>2
<1>18. CountsDiffer'
  <2>1. ASSUME NEW k \in 1 .. b - 1, IsPrivate(f, b)', IsPrivate(f, k)'
        PROVE  Count(f, k)' # Count(f, b)'
    <3>1. Count(f, b)' = local_label_counter
      BY <1>1, <1>10, <1>11, <2>1 DEF Count
    <3>2. Count(f, k) < local_label_counter
      <4>1. b # 0
        BY <1>4
      <4> QED
        BY <1>2, <1>15, <2>1, <4>1 DEF BelowCounter
    <3>3. Count(f, k) \in Nat
      BY <1>7b, <1>15
    <3>4. Count(f, k)' = Count(f, k)
      BY <1>15
    <3> QED
      BY <1>3, <3>1, <3>2, <3>3, <3>4
  <2> SUFFICES ASSUME NEW u \in 1 .. Len(names'), NEW j \in 1 .. Len(names'[u]),
                      NEW k \in 1 .. Len(names'[u]), j # k,
                      IsPrivate(u, j)', IsPrivate(u, k)'
               PROVE  Count(u, j)' # Count(u, k)'
    BY DEF CountsDiffer
  <2>2. CASE u # f
    <3>1. u \in 1 .. Len(names) /\ names'[u] = names[u]
      BY <1>3, <1>5, <1>9, <2>2
    <3>2. /\ j \in 1 .. Len(names[u]) /\ k \in 1 .. Len(names[u])
          /\ names'[u][j] = names[u][j] /\ names'[u][k] = names[u][k]
      BY <3>1
    <3>3. IsPrivate(u, j) /\ IsPrivate(u, k)
      BY <1>1, <3>2, MadeKept
    <3>4. Count(u, j)' = Count(u, j) /\ Count(u, k)' = Count(u, k)
      BY <1>1, <3>2, MadeKept
    <3> QED
      BY <1>2, <3>1, <3>2, <3>3, <3>4 DEF CountsDiffer
  <2>3. CASE u = f /\ j = b
    <3>1. k \in 1 .. b - 1
      BY <1>4, <1>10, <2>3
    <3> QED
      BY <2>1, <2>3, <3>1
  <2>4. CASE u = f /\ k = b
    <3>1. j \in 1 .. b - 1
      BY <1>4, <1>10, <2>4
    <3> QED
      BY <2>1, <2>4, <3>1
  <2>5. CASE u = f /\ j # b /\ k # b
    <3>1. j \in 1 .. b - 1 /\ k \in 1 .. b - 1
      BY <1>4, <1>10, <2>5
    <3>2. /\ j \in 1 .. Len(names[f]) /\ k \in 1 .. Len(names[f])
          /\ IsPrivate(f, j) /\ IsPrivate(f, k) /\ f \in 1 .. Len(names)
      BY <1>3, <1>5, <1>15, <2>5, <3>1
    <3>3. Count(f, j) # Count(f, k)
      BY <1>2, <3>2 DEF CountsDiffer
    <3> QED
      BY <1>15, <2>5, <3>1, <3>3
  <2> QED
    BY <2>2, <2>3, <2>4, <2>5
<1> QED
  BY <1>12, <1>13, <1>16, <1>17, <1>18 DEF NamesInv

(* A name that is cut is still made of characters.                         *)
LEMMA UniqueNameType ==
  ASSUME NEW l \in Seq(LabelChars), NEW t \in Seq(LabelChars), NEW n \in Counts
  PROVE  /\ UniqueName(l, t, n) \in Seq(Character)
         /\ Len(UniqueText(l, t, n)) < NameSize => UniqueName(l, t, n) = UniqueText(l, t, n)
<1> DEFINE x == UniqueText(l, t, n)
<1>1. x \in Seq(Character)
  BY TextParts DEF TextIs
<1> HIDE DEF x
<1>2. Len(x) \in Nat /\ NameSize \in Nat \ {0}
  <2>1. Len(x) \in Nat
    BY <1>1
  <2>2. NameSize \in Nat \ {0}
    BY NamesAssumption
  <2> QED
    BY <2>1, <2>2
<1>3. CASE Len(x) < NameSize
  <2>1. Shorter(Len(x), NameSize - 1) = Len(x)
    BY <1>2, <1>3 DEF Shorter
  <2>2. SubSeq(x, 1, Len(x)) = x
    BY <1>1
  <2> QED
    BY <1>1, <2>1, <2>2 DEF UniqueName, Cut, x
<1>4. CASE ~(Len(x) < NameSize)
  <2>1. Shorter(Len(x), NameSize - 1) = NameSize - 1
    BY <1>2, <1>4 DEF Shorter
  <2>2. SubSeq(x, 1, NameSize - 1) \in Seq(Character)
    BY <1>1, <1>2, <1>4
  <2> QED
    BY <1>4, <2>1, <2>2 DEF UniqueName, Cut, x
<1> QED
  BY <1>3, <1>4

LEMMA LabelStep == NamesInv /\ (NamePublic \/ NamePrivate) => NamesInv'
<1> SUFFICES ASSUME NamesInv, NamePublic \/ NamePrivate PROVE NamesInv'
  OBVIOUS
<1>1. unit <= Len(link) /\ line \in DOMAIN Labels /\ link \in Links
  BY DEF NamesInv, Typed, NamePublic, NamePrivate
<1>2. unit \in 1 .. Len(link) /\ Len(link) \in Nat
  BY <1>1, LinkType DEF NamesInv, Typed
<1>3. /\ Labels = link[unit].labels /\ line \in 1 .. Len(link[unit].labels)
      /\ Len(link[unit].labels) \in Nat /\ Len(link[unit].labels) <= MaxCount
      /\ LabelOf(unit, line) \in Seq(LabelChars)
  <2>1. link[unit].labels \in Seq(FileLabel)
    <3>1. link[unit] \in LinkFile
      BY <1>1, <1>2, LinkType
    <3> QED
      BY <3>1 DEF LinkFile
  <2>2. Labels = link[unit].labels /\ line \in 1 .. Len(link[unit].labels)
    BY <1>1, <2>1 DEF Labels
  <2> QED
    BY <1>1, <1>2, <2>2, LinkType
<1>4. /\ local_label_counter \in 1 .. line
      /\ module_name \in Seq(LabelChars)
  BY <1>3 DEF NamesInv, Typed, Placed
<1>5. local_label_counter \in Counts /\ local_label_counter \in Nat
  <2>1. MaxCount \in Nat
    BY NamesAssumption
  <2> QED
    BY <1>3, <1>4, <2>1 DEF Counts
<1>6. CASE NamePublic
  <2> DEFINE symbol == Symbol(Labels[line].name, 0)
  <2>1. Named(symbol) /\ local_label_counter' = local_label_counter /\ ~IsPrivate(unit, line)
    BY <1>3, <1>6 DEF NamePublic, IsPrivate
  <2>2. symbol.str = LabelOf(unit, line) /\ symbol.n = 0
    BY <1>3 DEF Symbol, LabelOf
  <2>3. symbol \in NameSymbol
    <3>1. LabelOf(unit, line) \in Seq(Character)
      BY <1>3, CharacterSorts
    <3> QED
      BY <1>3, <3>1 DEF Symbol, LabelOf, NameSymbol
  <2> HIDE DEF symbol
  <2> QED
    BY <1>1, <2>1, <2>2, <2>3, NamingStep
<1>7. CASE NamePrivate
  <2> DEFINE name == UniqueName(Labels[line].name, module_name, local_label_counter)
             symbol == Symbol(name, local_label_counter)
  <2>1. /\ Named(symbol) /\ local_label_counter' = local_label_counter + 1
        /\ IsPrivate(unit, line)
    BY <1>3, <1>7 DEF NamePrivate, IsPrivate
  <2>2. name = UniqueName(LabelOf(unit, line), module_name, local_label_counter)
    BY <1>3 DEF LabelOf
  <2>3. name \in Seq(Character)
    BY <1>3, <1>4, <1>5, <2>2, UniqueNameType
  <2> HIDE DEF name
  <2>4. symbol.str = name /\ symbol.n = local_label_counter
    BY DEF Symbol
  <2>5. symbol \in NameSymbol
    BY <1>5, <2>3 DEF Symbol, NameSymbol
  <2> HIDE DEF symbol
  <2> QED
    BY <1>1, <2>1, <2>2, <2>4, <2>5, NamingStep
<1> QED
  BY <1>6, <1>7

LEMMA NamesStep == NamesInv /\ [Next]_vars => NamesInv'
  BY EnterStep, LabelStep, NextFileStep, StutterNames DEF Next, Step, Terminated

(* What each symbol's name was made from, for every link.                  *)
THEOREM NamesInvariant == Spec => []NamesInv
  BY NamesInit, NamesStep, PTL DEF Spec

(* The variables have their types, and every tag fits its buffer, for      *)
(* paths and labels of any length and any sizes of the buffers.            *)
THEOREM NamesTypes == Spec => []NamesTypeOK
<1>1. NamesInv => NamesTypeOK
  BY DEF NamesInv, Typed, NamesTypeOK, NameSymbol
<1> QED
  BY <1>1, NamesInvariant, PTL

LEMMA PrivateNamesTellApart == NamesInv => PrivateNamesApart
<1> SUFFICES ASSUME NamesInv,
                    NEW u \in DOMAIN names, NEW v \in DOMAIN names,
                    NEW j \in DOMAIN names[u], NEW k \in DOMAIN names[v],
                    u # v \/ j # k,
                    names[u][j].str = names[v][k].str,
                    IsPrivate(u, j), Fits(u, j), IsPrivate(v, k) => Fits(v, k)
             PROVE  /\ IsPrivate(v, k) /\ u # v /\ Tag(u) = Tag(v)
                    /\ LabelOf(u, j) = LabelOf(v, k) /\ names[u][j].n = names[v][k].n
  BY DEF PrivateNamesApart
<1>1. Typed /\ AsMade /\ CountsDiffer /\ link \in Links
  BY DEF NamesInv, Typed
<1>2. u \in 1 .. Len(names) /\ v \in 1 .. Len(names)
  BY <1>1 DEF Typed
<1>3. j \in 1 .. Len(names[u]) /\ k \in 1 .. Len(names[v])
  BY <1>1, <1>2 DEF Typed
<1>4. MadeFromItsLabel(u, j) /\ MadeFromItsLabel(v, k)
  BY <1>1, <1>2, <1>3 DEF AsMade
<1>5. /\ LabelOf(u, j) \in Seq(LabelChars) /\ Tag(u) \in Seq(LabelChars)
      /\ LabelOf(v, k) \in Seq(LabelChars) /\ Tag(v) \in Seq(LabelChars)
  <2>1. ASSUME NEW f \in 1 .. Len(names), NEW m \in 1 .. Len(names[f])
        PROVE  LabelOf(f, m) \in Seq(LabelChars) /\ Tag(f) \in Seq(LabelChars)
    <3>1. f \in 1 .. Len(link) /\ Len(names[f]) <= Len(link[f].labels)
      BY <1>1 DEF AsMade
    <3>2. Len(names[f]) \in Nat /\ Len(link[f].labels) \in Nat
      <4>1. names[f] \in Seq(NameSymbol)
        BY <1>1 DEF Typed
      <4>2. Len(link[f].labels) \in Nat
        BY <1>1, <3>1, LinkType
      <4> QED
        BY <4>1, <4>2
    <3>3. m \in 1 .. Len(link[f].labels)
      BY <3>1, <3>2
    <3> QED
      BY <1>1, <3>1, <3>3, LinkType
  <2> QED
    BY <1>2, <1>3, <2>1
<1>6. /\ Count(u, j) \in Counts
      /\ names[u][j].str = UniqueName(LabelOf(u, j), Tag(u), Count(u, j))
  BY <1>4 DEF MadeFromItsLabel
<1>7. names[u][j].str = UniqueText(LabelOf(u, j), Tag(u), Count(u, j))
  BY <1>5, <1>6, UniqueNameType DEF Fits, Whole, Count
<1>8. IsPrivate(v, k)
  <2> SUFFICES ASSUME ~IsPrivate(v, k) PROVE FALSE
    OBVIOUS
  <2>1. names[v][k].str = LabelOf(v, k)
    BY <1>4 DEF MadeFromItsLabel
  <2>2. UniqueText(LabelOf(u, j), Tag(u), Count(u, j)) \in Seq(LabelChars)
    BY <1>5, <1>7, <2>1
  <2> QED
    BY <1>5, <1>6, <2>2, TextIsNoLabel
<1>9. /\ Count(v, k) \in Counts
      /\ names[v][k].str = UniqueName(LabelOf(v, k), Tag(v), Count(v, k))
  BY <1>4, <1>8 DEF MadeFromItsLabel
<1>10. names[v][k].str = UniqueText(LabelOf(v, k), Tag(v), Count(v, k))
  BY <1>5, <1>8, <1>9, UniqueNameType DEF Fits, Whole, Count
<1>11. LabelOf(u, j) = LabelOf(v, k) /\ Tag(u) = Tag(v) /\ Count(u, j) = Count(v, k)
  <2>1. UniqueText(LabelOf(u, j), Tag(u), Count(u, j))
          = UniqueText(LabelOf(v, k), Tag(v), Count(v, k))
    BY <1>7, <1>10
  <2> QED
    BY <1>5, <1>6, <1>9, <2>1, TextTells
<1>12. u # v
  <2> SUFFICES ASSUME u = v PROVE FALSE
    OBVIOUS
  <2>1. j # k
    OBVIOUS
  <2> QED
    BY <1>1, <1>2, <1>3, <1>8, <1>11, <2>1 DEF CountsDiffer
<1> QED
  BY <1>8, <1>11, <1>12 DEF Count

(* In every link, a private symbol whose name is not cut has no other's    *)
(* name, but for the same label with the same count under the same tag.    *)
THEOREM PrivateNamesCorrect == Spec => []PrivateNamesApart
  BY NamesInvariant, PrivateNamesTellApart, PTL

=============================================================================
