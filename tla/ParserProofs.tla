---------------------------- MODULE ParserProofs ---------------------------
(***************************************************************************)
(* For token lists of any length: the parser stays within the list, its    *)
(* result is a program codeGen may be called with, every label of the list *)
(* has begun a block, each block is in the section that the directives     *)
(* before it say, and no operand has been dropped or used twice.           *)
(***************************************************************************)
EXTENDS ParserInv, NumberLemmas, SequenceTheorems
LOCAL INSTANCE SequencesExt
LOCAL INSTANCE FiniteSetsExt

---------------------------------------------------------------------------
(* Sequences put together, as FlattenSeq does it.                          *)

(* What a family of sequences comes to, one more at a time.                *)
Grows(S, n, f) ==
  /\ Upto(f, 0) = << >>
  /\ \A i \in 0 .. n : Upto(f, i) \in Seq(S)
  /\ \A i \in 1 .. n : f[i] \in Seq(S) /\ Upto(f, i) = Upto(f, i - 1) \o f[i]
  /\ FlattenSeq(f) = Upto(f, n)

LEMMA UptoGrows ==
  ASSUME NEW S, NEW n \in Nat, NEW f \in ListsOf(S, n)
  PROVE  Grows(S, n, f)
<1>1. PICK g \in Growths(S, n, f) : TRUE
  BY GrowthExists
<1>2. /\ g[0] = << >>
      /\ \A k \in 0 .. n : g[k] \in Seq(S)
      /\ \A k \in 1 .. n : g[k] = g[k - 1] \o f[k]
  BY <1>1 DEF Growths
<1>3. ASSUME NEW i \in 0 .. n PROVE Upto(f, i) = g[i]
  <2>1. Flattened(FirstOf(f, i)) = g[i]
    BY <1>1, Concatenation
  <2> QED
    BY <2>1 DEF Upto, FlattenSeq, Flattened, FirstOf
<1>4. FlattenSeq(f) = Upto(f, n)
  <2>1. f = [j \in 1 .. n |-> f[j]]
    BY DEF ListsOf
  <2> QED
    BY <2>1 DEF Upto
<1>5. \A i \in 1 .. n : f[i] \in Seq(S) /\ i \in 0 .. n /\ i - 1 \in 0 .. n
  BY DEF ListsOf
<1>6. 0 \in 0 .. n
  OBVIOUS
<1> QED
  BY <1>2, <1>3, <1>4, <1>5, <1>6 DEF Grows

LEMMA PutTogether ==
  ASSUME NEW S, NEW n \in Nat, NEW f \in ListsOf(S, n)
  PROVE  FlattenSeq(f) \in Seq(S)
<1>1. n \in 0 .. n
  OBVIOUS
<1> QED
  BY <1>1, UptoGrows DEF Grows

(* Where nothing is added, nothing changes.                                *)
LEMMA UptoStays ==
  ASSUME NEW S, NEW n \in Nat, NEW f \in ListsOf(S, n), NEW a \in 0 .. n, NEW b \in a .. n,
         \A j \in a + 1 .. b : f[j] = << >>
  PROVE  Upto(f, b) = Upto(f, a)
<1>0. /\ \A k \in 0 .. n : Upto(f, k) \in Seq(S)
      /\ \A k \in 1 .. n : Upto(f, k) = Upto(f, k - 1) \o f[k]
  <2>1. Grows(S, n, f)
    BY UptoGrows
  <2> QED
    BY <2>1 DEF Grows
<1> DEFINE T == {d \in Nat : a + d <= b => Upto(f, a + d) = Upto(f, a)}
<1>1. 0 \in T
  OBVIOUS
<1>2. ASSUME NEW d \in Nat, d \in T PROVE d + 1 \in T
  <2> SUFFICES ASSUME a + (d + 1) <= b PROVE Upto(f, a + (d + 1)) = Upto(f, a)
    OBVIOUS
  <2> DEFINE i == a + (d + 1)
  <2>1. i \in 1 .. n /\ i - 1 = a + d /\ a + d <= b /\ i \in a + 1 .. b /\ a + d \in 0 .. n
    OBVIOUS
  <2>2. Upto(f, i) = Upto(f, a + d) \o f[i] /\ Upto(f, a + d) \in Seq(S)
    <3> HIDE DEF i
    <3> QED
      BY <1>0, <2>1
  <2>3. f[i] = << >>
    BY <2>1
  <2>4. \A s \in Seq(S) : s \o << >> = s
    OBVIOUS
  <2>5. Upto(f, a + d) = Upto(f, a)
    BY <1>2, <2>1
  <2> HIDE DEF i, T
  <2> QED
    BY <2>2, <2>3, <2>4, <2>5 DEF i
<1> HIDE DEF T
<1>3. \A d \in Nat : d \in T
  BY <1>1, <1>2, AllFollow
<1>4. b - a \in Nat /\ a + (b - a) = b /\ b <= b
  OBVIOUS
<1> QED
  BY <1>3, <1>4 DEF T

---------------------------------------------------------------------------
(* Tokens.                                                                 *)

(* The list has a length, the type behind its end is "NULL", and a token's *)
(* text is one that its type allows.                                       *)
TokenList ==
  /\ Len(toks) \in Nat /\ DOMAIN toks = 1 .. Len(toks)
  /\ \A k \in DOMAIN toks : IsToken(toks[k])

LEMMA TokenFacts ==
  ASSUME TokenList
  PROVE  /\ Len(toks) \in Nat /\ DOMAIN toks = 1 .. Len(toks)
         /\ \A p \in Int : Type(p) # "NULL" <=> p \in 1 .. Len(toks)
         /\ \A p \in Int : Type(p) \in TokenTypes \union {"NULL"}
<1>2. Len(toks) \in Nat /\ DOMAIN toks = 1 .. Len(toks)
  BY DEF TokenList
<1>3. \A p \in DOMAIN toks : toks[p].type \in TokenTypes
  BY DEF IsToken, TokenList
<1>4. "NULL" \notin TokenTypes
  BY DEF TokenTypes, MarkTypes, WordTypes, NumberTypes, SymbolTypes
<1> QED
  BY <1>2, <1>3, <1>4 DEF Type

(* What the text of each type of token is.                                 *)
LEMMA TextFacts ==
  ASSUME TokenList, NEW p
  PROVE  /\ IsSymbol(p) => Text(p) \in Labels
         /\ Type(p) = "INSTRUCTION" => Text(p) \in Mnemonics
         /\ IsNumber(p) => Text(p) \in Numerals
         /\ Type(p) = "REGISTER" => Text(p) \in DOMAIN Registers
<1>1. p \in DOMAIN toks => IsToken(toks[p])
  BY DEF TokenList
<1>2. Mnemonics \subseteq Labels
  BY ParserAssumption
<1>3. Type(p) # "NULL" => p \in DOMAIN toks /\ Type(p) = toks[p].type
  BY DEF Type
<1> QED
  BY <1>1, <1>2, <1>3 DEF IsToken, IsSymbol, IsNumber, Text, SymbolTypes, NumberTypes

---------------------------------------------------------------------------
(* Comma-separated lists.                                                  *)

(* There is one number of items that fits, so Items is it.                 *)
LEMMA ItemsExist ==
  ASSUME TokenList, NEW p \in Nat \ {0}, NEW types, "NULL" \notin types
  PROVE  Items(p, types) \in 0 .. Len(toks) /\ ItemCount(p, types, Items(p, types))
<1> DEFINE Good(n) == /\ \A k \in 0 .. n - 1 : Type(p + 2 * k) \in types
                      /\ \A k \in 0 .. n - 2 : Type(p + 2 * k + 1) = "COMMA"
           M == {n \in Nat : ~Good(n + 1)}
<1>1. Len(toks) \in Nat /\ \A q \in Int : Type(q) # "NULL" <=> q \in 1 .. Len(toks)
  BY TokenFacts
<1>2. Len(toks) \in M
  <2> SUFFICES ASSUME Good(Len(toks) + 1) PROVE FALSE
    BY <1>1
  <2>1. Len(toks) \in 0 .. (Len(toks) + 1) - 1
    BY <1>1
  <2>2. Type(p + 2 * Len(toks)) \in types
    BY <2>1
  <2>3. p + 2 * Len(toks) \in Int /\ p + 2 * Len(toks) \notin 1 .. Len(toks)
    BY <1>1
  <2> QED
    BY <1>1, <2>2, <2>3
<1>3. PICK n \in M : \A j \in M : n <= j
  <2>1. M \in SUBSET Nat /\ M # {}
    BY <1>2
  <2> QED
    BY <2>1, LeastOf
<1>4. n \in Nat /\ n <= Len(toks) /\ ~Good(n + 1)
  BY <1>2, <1>3
<1>5. Good(n)
  <2>1. CASE n = 0
    BY <2>1
  <2>2. CASE n # 0
    <3>1. n - 1 \in Nat /\ n - 1 \notin M
      <4>1. n - 1 \in Nat /\ ~(n <= n - 1)
        BY <1>4, <2>2
      <4> HIDE DEF M
      <4> QED
        BY <1>3, <4>1
    <3>2. (n - 1) + 1 = n
      BY <1>4
    <3>3. Good((n - 1) + 1)
      BY <3>1
    <3> QED
      BY <3>2, <3>3
  <2> QED
    BY <2>1, <2>2
<1>6. ItemCount(p, types, n)
  <2> SUFFICES ASSUME n = 0 \/ Type(p + 2 * n - 1) = "COMMA", Type(p + 2 * n) \in types
               PROVE  FALSE
    BY <1>5 DEF ItemCount
  <2>1. ASSUME NEW k \in 0 .. (n + 1) - 1 PROVE Type(p + 2 * k) \in types
    <3>1. CASE k = n
      BY <3>1
    <3>2. CASE k # n
      <4>1. k \in 0 .. n - 1
        BY <1>4, <3>2
      <4> QED
        BY <1>5, <4>1
    <3> QED
      BY <3>1, <3>2
  <2>2. ASSUME NEW k \in 0 .. (n + 1) - 2 PROVE Type(p + 2 * k + 1) = "COMMA"
    <3>1. CASE k = n - 1
      <4>1. n # 0 /\ p + 2 * k + 1 = p + 2 * n - 1
        BY <1>4, <3>1
      <4> QED
        BY <4>1
    <3>2. CASE k # n - 1
      <4>1. k \in 0 .. n - 2
        BY <1>4, <3>2
      <4> QED
        BY <1>5, <4>1
    <3> QED
      BY <3>1, <3>2
  <2> QED
    BY <1>4, <2>1, <2>2
<1>7. n \in 0 .. Len(toks)
  BY <1>1, <1>4
<1> QED
  BY <1>6, <1>7 DEF Items

LEMMA QuietAdds ==
  ASSUME NEW a \in Int, NEW b \in Int, NEW c \in Int, a <= b, b <= c,
         Quiet(a, b), Quiet(b, c), Type(b) # "COLON"
  PROVE  Quiet(a, c)
<1> SUFFICES ASSUME NEW q \in a .. c - 1
             PROVE  /\ ~IsDirective(q, {"section", "data", "text"})
                    /\ IsLabelDeclaration(q) => Type(c) = "COLON"
  BY DEF Quiet
<1>1. CASE q <= b - 1
  <2>1. q \in a .. b - 1
    BY <1>1
  <2> QED
    BY <2>1 DEF Quiet
<1>2. CASE ~(q <= b - 1)
  <2>1. q \in b .. c - 1
    BY <1>2
  <2> QED
    BY <2>1 DEF Quiet
<1> QED
  BY <1>1, <1>2

(* One token that is no label and no such directive.                       *)
LEMMA QuietOne ==
  ASSUME NEW a \in Int, Type(a) # "PERIOD" \/ ~IsDirective(a, {"section", "data", "text"}),
         ~IsSymbol(a) \/ ~IsLabelDeclaration(a)
  PROVE  Quiet(a, a + 1)
<1>1. \A q \in a .. (a + 1) - 1 : q = a
  OBVIOUS
<1> QED
  BY <1>1 DEF Quiet, IsDirective, IsLabelDeclaration

(* A list of names, numbers or both is quiet, and the parser is behind it. *)
LEMMA AfterItemsQuiet ==
  ASSUME TokenList, NEW p \in 1 .. Len(toks) + 1, NEW types \in SUBSET WordTypes
  PROVE  /\ AfterItems(p, types) \in p .. Len(toks) + 1
         /\ Quiet(p, AfterItems(p, types))
         /\ Type(p) \notin types => AfterItems(p, types) = p
<1> DEFINE n == Items(p, types)
           a == AfterItems(p, types)
<1>1. /\ Len(toks) \in Nat
      /\ \A q \in Int : Type(q) # "NULL" <=> q \in 1 .. Len(toks)
  BY TokenFacts
<1>2. "NULL" \notin types /\ "COMMA" \notin types /\ "PERIOD" \notin types
  BY DEF WordTypes, NumberTypes, SymbolTypes
<1>3. p \in Nat \ {0}
  BY <1>1
<1>4. n \in 0 .. Len(toks) /\ ItemCount(p, types, n)
  BY <1>2, <1>3, ItemsExist
<1>5. n \in Nat
  BY <1>1, <1>4
<1>6. a = IF n = 0 THEN p
          ELSE IF Type(p + 2 * n - 1) = "COMMA" THEN p + 2 * n ELSE p + 2 * n - 1
  BY DEF AfterItems
<1> HIDE DEF n, a
<1>7. /\ \A k \in 0 .. n - 1 : Type(p + 2 * k) \in types
      /\ \A k \in 0 .. n - 2 : Type(p + 2 * k + 1) = "COMMA"
  BY <1>4 DEF ItemCount
<1>8. CASE n = 0
  <2>1. a = p
    BY <1>6, <1>8
  <2>2. Quiet(p, p)
    BY <1>3 DEF Quiet
  <2> QED
    BY <1>1, <2>1, <2>2 DEF a
<1>9. CASE n # 0
  <2>1. n - 1 \in 0 .. n - 1 /\ p + 2 * (n - 1) = p + 2 * n - 2 /\ 0 \in 0 .. n - 1
        /\ p + 2 * 0 = p
    BY <1>3, <1>5, <1>9
  <2>2. Type(p + 2 * n - 2) \in types /\ Type(p) \in types
    BY <1>7, <2>1
  <2>3. p + 2 * n - 2 \in 1 .. Len(toks)
    BY <1>1, <1>2, <1>3, <1>5, <2>2
  <2>4. a \in p .. Len(toks) + 1 /\ a >= p + 2 * n - 1 /\ a <= p + 2 * n
    <3>1. CASE Type(p + 2 * n - 1) = "COMMA"
      <4>1. p + 2 * n - 1 \in 1 .. Len(toks)
        BY <1>1, <1>3, <1>5, <3>1
      <4> QED
        BY <1>1, <1>3, <1>5, <1>6, <1>9, <3>1, <4>1
    <3>2. CASE Type(p + 2 * n - 1) # "COMMA"
      BY <1>1, <1>3, <1>5, <1>6, <1>9, <2>3, <3>2
    <3> QED
      BY <3>1, <3>2
  <2>5. ASSUME NEW q \in p .. a - 1
        PROVE  /\ Type(q) # "PERIOD"
               /\ IsLabelDeclaration(q) => Type(a) = "COLON"
    <3>1. PICK k \in Nat : q - p = 2 * k \/ q - p = 2 * k + 1
      <4>1. \A d \in Nat : \E k \in Nat : d = 2 * k \/ d = 2 * k + 1
        <5> TAKE d \in Nat
        <5>1. d \div 2 \in Nat /\ (d = 2 * (d \div 2) \/ d = 2 * (d \div 2) + 1)
          OBVIOUS
        <5> QED
          BY <5>1
      <4>2. q - p \in Nat
        BY <1>3, <2>4
      <4> QED
        BY <4>1, <4>2
    <3>2. CASE q - p = 2 * k
      <4>1. k \in 0 .. n - 1 /\ q = p + 2 * k /\ q + 1 = p + 2 * k + 1
        BY <1>3, <1>5, <2>4, <3>2
      <4>2. Type(q) \in types
        BY <1>7, <4>1
      <4>3. CASE k \in 0 .. n - 2
        <5>1. Type(q + 1) = "COMMA"
          BY <1>7, <4>1, <4>3
        <5> QED
          BY <1>2, <4>2, <5>1 DEF IsLabelDeclaration
      <4>4. CASE k \notin 0 .. n - 2
        <5>1. q + 1 = p + 2 * n - 1
          BY <1>3, <1>5, <4>1, <4>4
        <5>2. Type(q + 1) # "COMMA" => a = q + 1
          BY <1>6, <1>9, <5>1
        <5> QED
          BY <1>2, <4>2, <5>2 DEF IsLabelDeclaration
      <4> QED
        BY <4>3, <4>4
    <3>3. CASE q - p = 2 * k + 1
      <4>1. q = p + 2 * k + 1 /\ k \in 0 .. n - 1
        BY <1>3, <1>5, <2>4, <3>3
      <4>2. Type(q) = "COMMA"
        <5>1. CASE k \in 0 .. n - 2
          BY <1>7, <4>1, <5>1
        <5>2. CASE k \notin 0 .. n - 2
          <6>1. q = p + 2 * n - 1 /\ a # q
            BY <1>3, <1>5, <2>4, <4>1, <5>2
          <6> QED
            BY <1>6, <1>9, <6>1
        <5> QED
          BY <5>1, <5>2
      <4> QED
        BY <4>2 DEF IsLabelDeclaration, IsSymbol, SymbolTypes
    <3> QED
      BY <3>1, <3>2, <3>3
  <2> QED
    BY <2>2, <2>4, <2>5 DEF a, Quiet, IsDirective
<1> QED
  BY <1>8, <1>9

(* A newline is quiet, and so is what the top-level loop skips.            *)
LEMMA SkipNewlineQuiet ==
  ASSUME TokenList, NEW p \in 1 .. Len(toks) + 1
  PROVE  /\ SkipNewline(p) \in p .. Len(toks) + 1
         /\ Quiet(p, SkipNewline(p))
<1>1. /\ Len(toks) \in Nat
      /\ \A q \in Int : Type(q) # "NULL" <=> q \in 1 .. Len(toks)
  BY TokenFacts
<1>2. CASE Type(p) = "NEWLINE"
  <2>1. SkipNewline(p) = p + 1 /\ p \in 1 .. Len(toks)
    BY <1>1, <1>2 DEF SkipNewline
  <2>2. Quiet(p, p + 1)
    BY <1>1, <1>2, QuietOne DEF IsSymbol, SymbolTypes
  <2> QED
    BY <1>1, <2>1, <2>2
<1>3. CASE Type(p) # "NEWLINE"
  <2>1. SkipNewline(p) = p
    BY <1>3 DEF SkipNewline
  <2>2. Quiet(p, p)
    BY <1>1 DEF Quiet
  <2> QED
    BY <1>1, <2>1, <2>2
<1> QED
  BY <1>2, <1>3

LEMMA HereQuiet ==
  ASSUME TokenList, cur \in 1 .. Len(toks) + 1
  PROVE  /\ Here \in cur .. Len(toks) + 1 /\ Type(Here) # "NEWLINE"
         /\ \A q \in cur .. Here - 1 : Type(q) = "NEWLINE"
         /\ Quiet(cur, Here)
         /\ Type(cur) # "NEWLINE" => Here = cur
<1> DEFINE M == {p \in cur .. Len(toks) + 1 : Type(p) # "NEWLINE"}
           Found(p) == Type(p) # "NEWLINE" /\ \A q \in cur .. p - 1 : Type(q) = "NEWLINE"
<1>1. /\ Len(toks) \in Nat
      /\ \A q \in Int : Type(q) # "NULL" <=> q \in 1 .. Len(toks)
  BY TokenFacts
<1>2. Len(toks) + 1 \in M
  <2>1. Type(Len(toks) + 1) = "NULL"
    BY <1>1
  <2> QED
    BY <1>1, <2>1
<1>3. PICK p \in M : \A j \in M : p <= j
  <2>1. M \in SUBSET Nat /\ M # {}
    BY <1>1, <1>2
  <2> QED
    BY <2>1, LeastOf
<1>4. p \in cur .. Len(toks) + 1 /\ Found(p)
  <2>1. ASSUME NEW q \in cur .. p - 1 PROVE Type(q) = "NEWLINE"
    <3>1. q \in cur .. Len(toks) + 1 /\ ~(p <= q)
      BY <1>1, <1>3
    <3> QED
      BY <1>3, <3>1
  <2> QED
    BY <1>3, <2>1
<1>5. Here \in cur .. Len(toks) + 1 /\ Found(Here)
  <2>1. \E x \in cur .. Len(toks) + 1 : Found(x)
    BY <1>4
  <2>2. Here = CHOOSE x \in cur .. Len(toks) + 1 : Found(x)
    BY DEF Here
  <2> HIDE DEF Found
  <2> QED
    BY <2>1, <2>2
<1>6. Quiet(cur, Here)
  BY <1>5 DEF Quiet, IsDirective, IsLabelDeclaration, IsSymbol, SymbolTypes
<1>7. Type(cur) # "NEWLINE" => Here = cur
  <2> SUFFICES ASSUME Type(cur) # "NEWLINE", Here # cur PROVE FALSE
    OBVIOUS
  <2>1. cur \in cur .. Here - 1
    BY <1>1, <1>5
  <2> QED
    BY <1>5, <2>1
<1> QED
  BY <1>5, <1>6, <1>7

---------------------------------------------------------------------------
(* Import and export statements.                                           *)

(* A list that is closed ends behind where it began, over quiet tokens.    *)
LEMMA NamesQuiet ==
  ASSUME TokenList, NEW p \in 1 .. Len(toks),
         Type(p) \in {"IMPORT", "EXPORT"}, ListClosed(p)
  PROVE  /\ ListEnd(p) \in p .. Len(toks) + 1
         /\ Quiet(p, ListEnd(p))
         /\ ListStart(p) \in 1 .. Len(toks)
<1> DEFINE b == ListStart(p)
           a == AfterItems(b, SymbolTypes)
<1>1. /\ Len(toks) \in Nat
      /\ \A q \in Int : Type(q) # "NULL" <=> q \in 1 .. Len(toks)
  BY TokenFacts
<1>2. b \in Int /\ b > p /\ IsSymbol(b) /\ Type(b) # "NULL"
  BY <1>1 DEF ListStart, ListClosed, IsSymbol, SymbolTypes
<1>3. b \in 1 .. Len(toks)
  BY <1>1, <1>2
<1>4. a \in b .. Len(toks) + 1 /\ Quiet(b, a)
  <2>1. b \in 1 .. Len(toks) + 1 /\ SymbolTypes \in SUBSET WordTypes
    BY <1>1, <1>3 DEF WordTypes
  <2> QED
    BY <2>1, AfterItemsQuiet
<1>5. Quiet(p, b)
  <2>1. Quiet(p, p + 1)
    BY QuietOne DEF IsSymbol, SymbolTypes
  <2>2. CASE Braced(p)
    <3>1. Type(p + 1) = "L_BRACE" /\ b = (p + 1) + 1
      BY <2>2 DEF Braced, ListStart
    <3>2. Quiet(p + 1, (p + 1) + 1)
      BY <3>1, QuietOne DEF IsSymbol, SymbolTypes
    <3>3. p \in Int /\ p + 1 \in Int /\ (p + 1) + 1 \in Int /\ p <= p + 1 /\ p + 1 <= (p + 1) + 1
      OBVIOUS
    <3> QED
      BY <2>1, <3>1, <3>2, <3>3, QuietAdds
  <2>3. CASE ~Braced(p)
    BY <2>1, <2>3 DEF ListStart
  <2> QED
    BY <2>2, <2>3
<1>6. Quiet(p, a)
  <2>1. Type(b) # "COLON"
    BY <1>2 DEF IsSymbol, SymbolTypes
  <2>2. p \in Int /\ a \in Int /\ p <= b /\ b <= a
    BY <1>1, <1>3, <1>2, <1>4
  <2> QED
    BY <1>2, <1>4, <1>5, <2>1, <2>2, QuietAdds
<1> HIDE DEF a, b
<1>7. CASE Braced(p)
  <2>1. ListEnd(p) = a + 1 /\ Type(a) = "R_BRACE"
    BY <1>7 DEF ListEnd, ListClosed, a, b
  <2>2. Quiet(a, a + 1) /\ a \in Int
    BY <1>1, <1>3, <1>4, <2>1, QuietOne DEF IsSymbol, SymbolTypes
  <2>3. p \in Int /\ a \in Int /\ a + 1 \in Int /\ p <= a /\ a <= a + 1
    BY <1>2, <1>3, <1>4
  <2>4. Quiet(p, a + 1)
    BY <1>6, <2>1, <2>2, <2>3, QuietAdds
  <2>5. a \in 1 .. Len(toks)
    BY <1>1, <2>1, <2>3
  <2> QED
    BY <1>1, <1>3, <2>1, <2>3, <2>4, <2>5 DEF b
<1>8. CASE ~Braced(p)
  <2>1. ListEnd(p) = a
    BY <1>4, <1>8 DEF ListEnd, a, b
  <2>2. a \in p .. Len(toks) + 1
    BY <1>1, <1>2, <1>3, <1>4
  <2> QED
    BY <1>3, <1>6, <2>1, <2>2 DEF b
<1> QED
  BY <1>7, <1>8

(* The names of a closed list are labels.                                  *)
LEMMA NamesType ==
  ASSUME TokenList, NEW p \in 1 .. Len(toks),
         Type(p) \in {"IMPORT", "EXPORT"}, ListClosed(p)
  PROVE  ListNames(p) \in Seq(Labels)
<1> DEFINE b == ListStart(p)
           n == Items(b, SymbolTypes)
<1>1. b \in 1 .. Len(toks) /\ Len(toks) \in Nat
  BY NamesQuiet, TokenFacts
<1>2. n \in 0 .. Len(toks) /\ ItemCount(b, SymbolTypes, n)
  <2>1. b \in Nat \ {0} /\ "NULL" \notin SymbolTypes
    BY <1>1 DEF SymbolTypes
  <2> QED
    BY <2>1, ItemsExist
<1>3. ASSUME NEW k \in 1 .. n PROVE Text(b + 2 * (k - 1)) \in Labels
  <2>1. k - 1 \in 0 .. n - 1
    BY <1>1, <1>2
  <2>2. Type(b + 2 * (k - 1)) \in SymbolTypes
    BY <1>2, <2>1 DEF ItemCount
  <2> QED
    BY <2>2, TextFacts DEF IsSymbol
<1>4. n \in Nat
  BY <1>1, <1>2
<1>5. ListNames(p) = [k \in 1 .. n |-> Text(b + 2 * (k - 1))]
  BY DEF ListNames
<1> HIDE DEF n, b
<1>6. [k \in 1 .. n |-> Text(b + 2 * (k - 1))] \in [1 .. n -> Labels]
  BY <1>3
<1> QED
  BY <1>4, <1>5, <1>6, SeqDef

(* Adding names to a list of names makes a list of names.                  *)
LEMMA AddNamesType ==
  ASSUME NEW S, NEW list \in Seq(S), NEW names \in Seq(S)
  PROVE  AddNames(list, names) \in Seq(S)
<1> DEFINE n == Len(names)
           new == [k \in 1 .. n |->
                     IF Contains(list, names[k]) \/ \E j \in 1 .. k - 1 : names[j] = names[k]
                     THEN << >> ELSE <<names[k]>>]
<1>1. n \in Nat /\ DOMAIN names = 1 .. n /\ \A k \in 1 .. n : names[k] \in S
  OBVIOUS
<1>2. AddNames(list, names) = list \o FlattenSeq(new)
  BY <1>1 DEF AddNames
<1>3. new \in ListsOf(S, n)
  <2>1. \A k \in 1 .. n : << >> \in Seq(S) /\ <<names[k]>> \in Seq(S)
    BY <1>1
  <2> QED
    BY <2>1 DEF ListsOf
<1> HIDE DEF new, n
<1>4. FlattenSeq(new) \in Seq(S)
  BY <1>1, <1>3, PutTogether
<1> QED
  BY <1>2, <1>4

---------------------------------------------------------------------------
(* Steps that begin or end no block and change no setting.                 *)

LEMMA TopQuiet ==
  ASSUME TokenList, cur \in 1 .. Len(toks) + 1,
         SkipHead \/ ParseImport \/ ParseExport
  PROVE  /\ cur' \in cur .. Len(toks) + 1 /\ Quiet(cur, cur')
         /\ Type(cur) # "COLON"
<1>1. /\ Len(toks) \in Nat
      /\ \A q \in Int : Type(q) # "NULL" <=> q \in 1 .. Len(toks)
  BY TokenFacts
<1>2. /\ Here \in cur .. Len(toks) + 1 /\ Quiet(cur, Here)
      /\ Type(cur) # "NEWLINE" => Here = cur
  BY HereQuiet
<1>3. Type(Here) \in {"HEAD", "IMPORT", "EXPORT"}
  BY DEF SkipHead, ParseImport, ParseExport, AtStatement
<1>4. Type(Here) # "COLON" /\ ~IsSymbol(Here) /\ Type(Here) # "PERIOD"
  BY <1>3 DEF IsSymbol, SymbolTypes
<1>5. Here \in 1 .. Len(toks) /\ Here \in Int /\ cur \in Int /\ cur <= Here
  BY <1>1, <1>2, <1>3
<1>6. Type(cur) # "COLON"
  BY <1>2, <1>4
<1>7. CASE SkipHead
  <2>1. cur' = Here + 1
    BY <1>7 DEF SkipHead
  <2>2. Quiet(Here, Here + 1)
    BY <1>4, <1>5, QuietOne
  <2>3. Here + 1 \in Int /\ Here <= Here + 1
    BY <1>5
  <2>4. Quiet(cur, Here + 1)
    BY <1>2, <1>4, <1>5, <2>2, <2>3, QuietAdds
  <2> QED
    BY <1>1, <1>5, <1>6, <2>1, <2>4
<1>8. CASE ParseImport \/ ParseExport
  <2>1. ListClosed(Here) /\ Type(Here) \in {"IMPORT", "EXPORT"}
    BY <1>8 DEF ParseImport, ParseExport, AtStatement
  <2> DEFINE e == ListEnd(Here)
  <2>2. e \in Here .. Len(toks) + 1 /\ Quiet(Here, e)
    BY <1>5, <2>1, NamesQuiet
  <2>3. e \in Int /\ Here <= e /\ cur <= e /\ e \in 1 .. Len(toks) + 1
    BY <1>1, <1>5, <2>2
  <2>4. Quiet(cur, e)
    BY <1>2, <1>4, <1>5, <2>2, <2>3, QuietAdds
  <2> HIDE DEF e
  <2>5. ASSUME NEW f \in 1 .. Len(toks) + 1, f >= e, Quiet(cur, f), cur' = SkipNewline(f)
        PROVE  cur' \in cur .. Len(toks) + 1 /\ Quiet(cur, cur')
    <3>1. cur' \in f .. Len(toks) + 1 /\ Quiet(f, cur')
      BY <2>5, SkipNewlineQuiet
    <3>2. CASE Type(f) = "COLON"
      <4>1. cur' = f
        BY <2>5, <3>2 DEF SkipNewline
      <4> QED
        BY <1>1, <2>3, <2>5, <4>1
    <3>3. CASE Type(f) # "COLON"
      <4>1. f \in Int /\ cur' \in Int /\ cur <= f /\ f <= cur' /\ cur' \in cur .. Len(toks) + 1
        BY <1>1, <2>3, <2>5, <3>1
      <4> QED
        BY <1>5, <2>5, <3>1, <3>3, <4>1, QuietAdds
    <3> QED
      BY <3>2, <3>3
  <2>6. CASE ParseImport /\ HasFrom(Here)
    <3>1. Type(e) = "FROM" /\ Type(e + 1) = "STRING_LITERAL" /\ cur' = SkipNewline(e + 2)
      BY <2>6 DEF ParseImport, HasFrom, e
    <3>2. e + 2 \in 1 .. Len(toks) + 1 /\ e + 2 >= e /\ (e + 1) + 1 = e + 2
      BY <1>1, <2>3, <3>1
    <3>3. Quiet(e, e + 1) /\ Quiet(e + 1, e + 2)
      <4>1. Quiet(e, e + 1)
        BY <2>3, <3>1, QuietOne DEF IsSymbol, SymbolTypes
      <4>2. Quiet(e + 1, (e + 1) + 1)
        BY <2>3, <3>1, QuietOne DEF IsSymbol, SymbolTypes
      <4> QED
        BY <3>2, <4>1, <4>2
    <3>4. e + 1 \in Int /\ e + 2 \in Int /\ e <= e + 1 /\ e + 1 <= e + 2 /\ cur <= e + 1
      BY <1>5, <2>3
    <3>5. Quiet(cur, e + 1)
      BY <1>5, <2>3, <2>4, <3>1, <3>3, <3>4, QuietAdds
    <3>6. Quiet(cur, e + 2)
      BY <1>5, <2>3, <3>1, <3>3, <3>4, <3>5, QuietAdds
    <3> QED
      BY <1>6, <2>5, <3>1, <3>2, <3>6
  <2>7. CASE ~(ParseImport /\ HasFrom(Here))
    <3>1. cur' = SkipNewline(e) \/ cur' = SkipNewline(e + 0)
      BY <1>8, <2>7 DEF ParseImport, ParseExport, e
    <3>2. e + 0 = e /\ e >= e
      BY <2>3
    <3> QED
      BY <1>6, <2>3, <2>4, <2>5, <3>1, <3>2
  <2> QED
    BY <2>6, <2>7
<1> QED
  BY <1>7, <1>8

(* In a block the current token is no label, no directive that ends the    *)
(* block, and not the end of the list.                                     *)
LEMMA InBlockQuiet ==
  ASSUME TokenList, cur \in 1 .. Len(toks) + 1, InBlock
  PROVE  cur \in 1 .. Len(toks) /\ Quiet(cur, cur + 1)
<1>1. Len(toks) \in Nat
  BY TokenFacts
<1>2. /\ ~(cur > Len(toks)) /\ ~IsLabelDeclaration(cur)
      /\ ~IsDirective(cur, {"section", "data", "text"})
  BY DEF InBlock, BlockEnds
<1>3. cur \in Int /\ cur \in 1 .. Len(toks)
  BY <1>1, <1>2
<1> QED
  BY <1>2, <1>3, QuietOne

(* A directive with a list: its word may be a label only when its colon is *)
(* what the parser is left at.                                             *)
LEMMA DirectiveQuiet ==
  ASSUME TokenList, cur \in 1 .. Len(toks) + 1, InBlock,
         NEW words, IsDirective(cur, words), NEW types \in SUBSET WordTypes,
         cur' = SkipNewline(AfterItems(cur + 2, types))
  PROVE  cur' \in cur .. Len(toks) + 1 /\ Quiet(cur, cur') /\ Type(cur) # "COLON"
<1>1. /\ Len(toks) \in Nat
      /\ \A q \in Int : Type(q) # "NULL" <=> q \in 1 .. Len(toks)
  BY TokenFacts
<1>2. cur \in 1 .. Len(toks) /\ Quiet(cur, cur + 1)
  BY InBlockQuiet
<1>3. Type(cur) = "PERIOD" /\ Type(cur + 1) = "LABEL"
  BY DEF IsDirective
<1>4. cur + 2 \in 1 .. Len(toks) + 1 /\ cur + 1 \in Int /\ (cur + 1) + 1 = cur + 2
  BY <1>1, <1>2, <1>3
<1> DEFINE a == AfterItems(cur + 2, types)
<1>5. /\ a \in cur + 2 .. Len(toks) + 1 /\ Quiet(cur + 2, a)
      /\ Type(cur + 2) \notin types => a = cur + 2
  BY <1>4, AfterItemsQuiet
<1> HIDE DEF a
<1>6. a \in 1 .. Len(toks) + 1 /\ cur' = SkipNewline(a)
  BY <1>2, <1>5 DEF a
<1>7. cur' \in a .. Len(toks) + 1 /\ Quiet(a, cur')
  BY <1>6, SkipNewlineQuiet
<1>8. cur' \in cur .. Len(toks) + 1 /\ cur' \in Int /\ a \in Int /\ cur \in Int
      /\ cur + 2 <= a /\ a <= cur' /\ cur <= cur + 1 /\ cur + 1 <= cur + 2
  BY <1>1, <1>2, <1>5, <1>7
<1>9. CASE Type(cur + 2) = "COLON"
  <2>1. a = cur + 2
    BY <1>5, <1>9 DEF WordTypes, NumberTypes, SymbolTypes
  <2>2. cur' = cur + 2
    BY <1>6, <1>9, <2>1 DEF SkipNewline
  <2>3. Quiet(cur, cur + 2)
    <3> SUFFICES ASSUME NEW q \in cur .. (cur + 2) - 1
                 PROVE  ~IsDirective(q, {"section", "data", "text"})
      BY <1>9 DEF Quiet
    <3>1. q = cur \/ q = cur + 1
      BY <1>8
    <3>2. cur \in cur .. (cur + 1) - 1
      BY <1>8
    <3> QED
      BY <1>2, <1>3, <3>1, <3>2 DEF Quiet, IsDirective
  <2> QED
    BY <1>3, <1>8, <2>2, <2>3
<1>10. CASE Type(cur + 2) # "COLON"
  <2>1. Quiet(cur + 1, cur + 2)
    <3>1. ~IsLabelDeclaration(cur + 1)
      BY <1>4, <1>10 DEF IsLabelDeclaration
    <3>2. Quiet(cur + 1, (cur + 1) + 1)
      BY <1>3, <1>4, <3>1, QuietOne
    <3> QED
      BY <1>4, <3>2
  <2>2. Quiet(cur, cur + 2)
    <3>1. cur + 2 \in Int
      BY <1>8
    <3> QED
      BY <1>2, <1>3, <1>4, <1>8, <2>1, <3>1, QuietAdds
  <2>3. Quiet(cur, a)
    <3>1. cur + 2 \in Int /\ cur <= cur + 2
      BY <1>8
    <3> QED
      BY <1>5, <1>8, <1>10, <2>2, <3>1, QuietAdds
  <2>4. CASE Type(a) = "COLON"
    <3>1. cur' = a
      BY <1>6, <2>4 DEF SkipNewline
    <3> QED
      BY <1>3, <1>8, <2>3, <3>1
  <2>5. CASE Type(a) # "COLON"
    <3>1. cur <= a
      BY <1>8
    <3>2. Quiet(cur, cur')
      BY <1>7, <1>8, <2>3, <2>5, <3>1, QuietAdds
    <3> QED
      BY <1>3, <1>8, <3>2
  <2> QED
    BY <2>4, <2>5
<1> QED
  BY <1>9, <1>10

(* A token that an instruction takes as an operand.                        *)
LEMMA OperandQuiet ==
  ASSUME NEW q \in Int, IsOperand(q) \/ IsNumber(q) \/ Type(q) \in {"REGISTER", "COMMA"}
  PROVE  Quiet(q, q + 1) /\ Type(q) \notin {"COLON", "NULL"}
<1>1. Type(q) \notin {"PERIOD", "COLON", "NULL"}
  BY DEF IsOperand, IsNumber, IsSymbol, NumberTypes, SymbolTypes
<1>2. ~IsSymbol(q) \/ ~IsLabelDeclaration(q)
  BY DEF IsOperand, IsNumber, IsSymbol, IsLabelDeclaration, NumberTypes, SymbolTypes
<1> QED
  BY <1>1, <1>2, QuietOne

BlockMoves ==
  \/ BlankLine \/ ParseByte \/ ParseWord
  \/ InstrNoOperand \/ InstrImm26 \/ InstrLabel \/ InstrReg
  \/ InstrRegReg \/ InstrRegImm21 \/ InstrRegLabel

LEMMA BlockQuiet ==
  ASSUME TokenList, cur \in 1 .. Len(toks) + 1, BlockMoves
  PROVE  cur' \in cur .. Len(toks) + 1 /\ Quiet(cur, cur') /\ Type(cur) # "COLON"
<1>1. /\ Len(toks) \in Nat
      /\ \A q \in Int : Type(q) # "NULL" <=> q \in 1 .. Len(toks)
  BY TokenFacts
<1>2. InBlock
  BY DEF BlockMoves, BlankLine, ParseByte, ParseWord, InstrNoOperand, InstrImm26, InstrLabel,
         InstrReg, InstrRegReg, InstrRegImm21, InstrRegLabel, AtSecondOperand, AtMnemonic
<1>3. cur \in 1 .. Len(toks) /\ Quiet(cur, cur + 1) /\ cur \in Int
  BY <1>1, <1>2, InBlockQuiet
<1>4. CASE ParseByte
  <2>1. IsDirective(cur, {"byte"}) /\ cur' = SkipNewline(AfterItems(cur + 2, NumberTypes))
    BY <1>4 DEF ParseByte, Grow
  <2>2. NumberTypes \in SUBSET WordTypes
    BY DEF WordTypes
  <2> QED
    BY <1>2, <2>1, <2>2, DirectiveQuiet
<1>5. CASE ParseWord
  <2>1. IsDirective(cur, {"word"}) /\ cur' = SkipNewline(AfterItems(cur + 2, WordTypes))
    BY <1>5 DEF ParseWord, Grow
  <2> QED
    BY <1>2, <2>1, DirectiveQuiet
<1>6. CASE BlankLine \/ InstrNoOperand
  <2>1. cur' = cur + 1 /\ Type(cur) # "COLON"
    BY <1>6 DEF BlankLine, InstrNoOperand, AddInstr, AtMnemonic
  <2> QED
    BY <1>1, <1>3, <2>1
<1>7. CASE InstrImm26 \/ InstrLabel \/ InstrReg
  <2>1. /\ cur' = cur + 2 /\ Type(cur) # "COLON"
        /\ IsOperand(cur + 1) \/ IsNumber(cur + 1) \/ Type(cur + 1) \in {"REGISTER", "COMMA"}
    BY <1>7 DEF InstrImm26, InstrLabel, InstrReg, AddInstr, AtMnemonic, IsNumber, NumberTypes
  <2>2. cur + 1 \in Int /\ (cur + 1) + 1 = cur + 2 /\ cur + 2 \in Int
        /\ cur <= cur + 1 /\ cur + 1 <= cur + 2
    BY <1>3
  <2>3. Quiet(cur + 1, cur + 2) /\ Type(cur + 1) \notin {"COLON", "NULL"}
    BY <2>1, <2>2, OperandQuiet
  <2>4. Quiet(cur, cur + 2)
    BY <1>3, <2>2, <2>3, QuietAdds
  <2>5. cur + 2 \in cur .. Len(toks) + 1
    BY <1>1, <1>3, <2>2, <2>3
  <2> QED
    BY <2>1, <2>4, <2>5
<1>8. CASE InstrRegReg \/ InstrRegImm21 \/ InstrRegLabel
  <2>1. /\ cur' = cur + 4 /\ Type(cur) # "COLON"
        /\ Type(cur + 1) = "REGISTER" /\ Type(cur + 2) = "COMMA"
        /\ IsOperand(cur + 3) \/ IsNumber(cur + 3) \/ Type(cur + 3) \in {"REGISTER", "COMMA"}
    BY <1>8 DEF InstrRegReg, InstrRegImm21, InstrRegLabel, AddInstr, AtSecondOperand, AtMnemonic
  <2>2. /\ cur + 1 \in Int /\ cur + 2 \in Int /\ cur + 3 \in Int /\ cur + 4 \in Int
        /\ (cur + 1) + 1 = cur + 2 /\ (cur + 2) + 1 = cur + 3 /\ (cur + 3) + 1 = cur + 4
        /\ cur <= cur + 1 /\ cur <= cur + 2 /\ cur <= cur + 3
        /\ cur + 1 <= cur + 2 /\ cur + 2 <= cur + 3 /\ cur + 3 <= cur + 4
    BY <1>3
  <2>3. /\ Quiet(cur + 1, cur + 2) /\ Type(cur + 1) # "COLON"
        /\ Quiet(cur + 2, cur + 3) /\ Type(cur + 2) # "COLON"
    BY <2>1, <2>2, OperandQuiet
  <2>4. Quiet(cur + 3, cur + 4) /\ Type(cur + 3) \notin {"COLON", "NULL"}
    BY <2>1, <2>2, OperandQuiet
  <2>5. Quiet(cur, cur + 2)
    BY <1>3, <2>2, <2>3, QuietAdds
  <2>6. Quiet(cur, cur + 3)
    BY <1>3, <2>2, <2>3, <2>5, QuietAdds
  <2>7. Quiet(cur, cur + 4)
    BY <1>3, <2>2, <2>4, <2>6, QuietAdds
  <2>8. cur + 4 \in cur .. Len(toks) + 1
    BY <1>1, <1>3, <2>2, <2>4
  <2> QED
    BY <2>1, <2>7, <2>8
<1> QED
  BY <1>4, <1>5, <1>6, <1>7, <1>8 DEF BlockMoves

---------------------------------------------------------------------------
(* Types.                                                                  *)

LEMMA ModType == \A x \in Int, m \in Nat \ {0} : x % m \in Nat
OBVIOUS

LEMMA AddInstrType ==
  ASSUME block \in AsmBlock, NEW i \in Instruction,
         block' = [block EXCEPT !.instrs = Append(@, i)]
  PROVE  block' \in AsmBlock
<1>1. block.instrs \in Seq(Instruction)
  BY DEF AsmBlock
<1>2. Append(block.instrs, i) \in Seq(Instruction)
  BY <1>1
<1> QED
  BY <1>2 DEF AsmBlock

LEMMA GrowType ==
  ASSUME block \in AsmBlock, NEW bytes \in Seq(Nat), NEW ws \in Seq(AsmWord), NEW next,
         Grow(bytes, ws, next)
  PROVE  block' \in AsmBlock
<1>1. block.data \o bytes \in Seq(Nat) /\ block.words \o ws \in Seq(AsmWord)
  BY DEF AsmBlock
<1>2. block' = [block EXCEPT !.data = @ \o bytes, !.words = @ \o ws]
  BY DEF Grow
<1> QED
  BY <1>1, <1>2 DEF AsmBlock

(* The items of a directive's list have the directive's types.             *)
LEMMA DirectiveItems ==
  ASSUME TokenList, cur \in 1 .. Len(toks), NEW types \in SUBSET WordTypes
  PROVE  /\ Items(cur + 2, types) \in Nat
         /\ \A k \in 1 .. Items(cur + 2, types) : Type(cur + 2 * k) \in types
<1> DEFINE n == Items(cur + 2, types)
<1>1. Len(toks) \in Nat
  BY TokenFacts
<1>2. n \in 0 .. Len(toks) /\ ItemCount(cur + 2, types, n)
  <2>1. cur + 2 \in Nat \ {0} /\ "NULL" \notin types
    BY <1>1 DEF WordTypes, NumberTypes, SymbolTypes
  <2> QED
    BY <2>1, ItemsExist
<1> HIDE DEF n
<1>3. n \in Nat
  BY <1>1, <1>2
<1>4. ASSUME NEW k \in 1 .. n PROVE Type(cur + 2 * k) \in types
  <2>1. k - 1 \in 0 .. n - 1 /\ cur + 2 + 2 * (k - 1) = cur + 2 * k
    BY <1>1, <1>3
  <2>2. Type(cur + 2 + 2 * (k - 1)) \in types
    BY <1>2, <2>1 DEF ItemCount
  <2> QED
    BY <2>1, <2>2
<1> QED
  BY <1>3, <1>4 DEF n

(* The items of a .byte are bytes, those of a .word are words.             *)
LEMMA ByteItems ==
  ASSUME TokenList, cur \in 1 .. Len(toks)
  PROVE  [k \in 1 .. Items(cur + 2, NumberTypes) |-> Atoi[Text(cur + 2 * k)] % 256] \in Seq(Nat)
<1> DEFINE n == Items(cur + 2, NumberTypes)
           bytes == [k \in 1 .. n |-> Atoi[Text(cur + 2 * k)] % 256]
<1>1. n \in Nat /\ \A k \in 1 .. n : Type(cur + 2 * k) \in NumberTypes
  <2>1. NumberTypes \in SUBSET WordTypes
    BY DEF WordTypes
  <2> QED
    BY <2>1, DirectiveItems
<1>2. ASSUME NEW k \in 1 .. n PROVE Atoi[Text(cur + 2 * k)] % 256 \in Nat
  <2>1. Text(cur + 2 * k) \in Numerals
    BY <1>1, TextFacts DEF IsNumber
  <2>2. Atoi[Text(cur + 2 * k)] \in Int
    BY <2>1, ParserAssumption
  <2> QED
    BY <2>2
<1> HIDE DEF n
<1>3. bytes \in [1 .. n -> Nat]
  BY <1>2
<1>4. bytes \in Seq(Nat)
  BY <1>1, <1>3, SeqDef
<1> QED
  BY <1>4 DEF n

LEMMA WordItems ==
  ASSUME TokenList, cur \in 1 .. Len(toks)
  PROVE  [k \in 1 .. Items(cur + 2, WordTypes) |-> WordAt(cur + 2 * k)] \in Seq(AsmWord)
<1> DEFINE n == Items(cur + 2, WordTypes)
           ws == [k \in 1 .. n |-> WordAt(cur + 2 * k)]
<1>1. n \in Nat /\ \A k \in 1 .. n : Type(cur + 2 * k) \in WordTypes
  BY DirectiveItems
<1>2. ASSUME NEW k \in 1 .. n PROVE WordAt(cur + 2 * k) \in AsmWord
  <2> DEFINE p == cur + 2 * k
  <2>1. IsSymbol(p) \/ IsNumber(p)
    BY <1>1 DEF IsSymbol, IsNumber, WordTypes
  <2> HIDE DEF p
  <2>2. ASSUME IsSymbol(p) PROVE WordAt(p) \in AsmWord
    <3>1. Text(p) \in Labels
      BY <2>2, TextFacts
    <3> QED
      BY <2>2, <3>1 DEF WordAt, AsmWord
  <2>3. ASSUME ~IsSymbol(p) PROVE WordAt(p) \in AsmWord
    <3>1. Text(p) \in Numerals
      BY <2>1, <2>3, TextFacts
    <3>2. Strtol[Text(p)] \in Int /\ WordSpan \in Nat \ {0}
      BY <3>1, ParserAssumption
    <3>3. Strtol[Text(p)] % WordSpan \in Nat
      BY <3>2, ModType
    <3> QED
      BY <2>3, <3>3 DEF WordAt, AsmWord
  <2> QED
    BY <2>2, <2>3 DEF p
<1> HIDE DEF n
<1>3. ws \in [1 .. n -> AsmWord]
  BY <1>2
<1>4. ws \in Seq(AsmWord)
  BY <1>1, <1>3, SeqDef
<1> QED
  BY <1>4 DEF n

(* What a block's steps add to it is instructions, bytes and words.        *)
LEMMA BlockMovesType ==
  ASSUME TokenList, cur \in 1 .. Len(toks) + 1, block \in AsmBlock, BlockMoves
  PROVE  block' \in AsmBlock
<1>1. Len(toks) \in Nat
  BY TokenFacts
<1>2. cur \in 1 .. Len(toks)
  <2>1. InBlock
    BY DEF BlockMoves, BlankLine, ParseByte, ParseWord, InstrNoOperand, InstrImm26, InstrLabel,
           InstrReg, InstrRegReg, InstrRegImm21, InstrRegLabel, AtSecondOperand, AtMnemonic
  <2> QED
    BY <2>1, InBlockQuiet
<1>3. CASE BlankLine
  BY <1>3 DEF BlankLine
<1>4. CASE ParseByte
  <2> DEFINE bytes == [k \in 1 .. Items(cur + 2, NumberTypes) |-> Atoi[Text(cur + 2 * k)] % 256]
  <2>1. bytes \in Seq(Nat) /\ << >> \in Seq(AsmWord)
    BY <1>2, ByteItems
  <2>2. Grow(bytes, << >>, SkipNewline(AfterItems(cur + 2, NumberTypes)))
    BY <1>4 DEF ParseByte
  <2> HIDE DEF bytes
  <2> QED
    BY <2>1, <2>2, GrowType
<1>5. CASE ParseWord
  <2> DEFINE ws == [k \in 1 .. Items(cur + 2, WordTypes) |-> WordAt(cur + 2 * k)]
  <2>1. ws \in Seq(AsmWord) /\ << >> \in Seq(Nat)
    BY <1>2, WordItems
  <2>2. Grow(<< >>, ws, SkipNewline(AfterItems(cur + 2, WordTypes)))
    BY <1>5 DEF ParseWord
  <2> HIDE DEF ws
  <2> QED
    BY <2>1, <2>2, GrowType
<1>6. /\ Type(cur) = "INSTRUCTION" => Op \in Nat
      /\ Opcode[Movi] \in Nat
  BY ParserAssumption, TextFacts DEF Op
<1>7. \A p : Type(p) = "REGISTER" => Reg(p) \in 0 .. RegSpan - 1
  BY ParserAssumption, TextFacts DEF Reg
<1>8. \A p : IsNumber(p) => /\ Atoi[Text(p)] % WordSpan \in Nat
                            /\ Atoi[Text(p)] % ImmSpan \in Nat
  <2> TAKE p
  <2> SUFFICES ASSUME IsNumber(p) PROVE Atoi[Text(p)] % WordSpan \in Nat
                                        /\ Atoi[Text(p)] % ImmSpan \in Nat
    OBVIOUS
  <2>1. Atoi[Text(p)] \in Int
    BY ParserAssumption, TextFacts
  <2>2. WordSpan \in Nat \ {0} /\ ImmSpan \in Nat \ {0}
    BY ParserAssumption, WidthAssumption
  <2> QED
    BY <2>1, <2>2, ModType
<1>9. \A p : IsOperand(p) => Text(p) \in Labels
  BY TextFacts DEF IsOperand
<1>10. 0 \in 0 .. RegSpan - 1 /\ 0 \in Nat
  BY WidthAssumption
<1>11. ASSUME NEW kind \in FixupKinds \union OperandKinds, NEW opcode \in Nat,
              NEW reg1 \in 0 .. RegSpan - 1, NEW reg2 \in 0 .. RegSpan - 1,
              NEW imm \in Nat, NEW l \in Labels \union {NoLabel}, NEW next,
              AddInstr(kind, opcode, reg1, reg2, imm, l, next)
       PROVE  block' \in AsmBlock
  <2> DEFINE i == [kind |-> kind, opcode |-> opcode, reg1 |-> reg1, reg2 |-> reg2,
                   imm |-> imm, label |-> l]
  <2>1. i \in Instruction
    BY DEF Instruction
  <2>2. block' = [block EXCEPT !.instrs = Append(@, i)]
    BY <1>11 DEF AddInstr
  <2> HIDE DEF i
  <2> QED
    BY <2>1, <2>2, AddInstrType
<1>12. /\ "NO_OPERAND" \in FixupKinds \union OperandKinds
       /\ "IMM26" \in FixupKinds \union OperandKinds
       /\ "LABEL" \in FixupKinds \union OperandKinds
       /\ "REG" \in FixupKinds \union OperandKinds
       /\ "REGREG" \in FixupKinds \union OperandKinds
       /\ "REGIMM21" \in FixupKinds \union OperandKinds
       /\ "REGLABEL" \in FixupKinds \union OperandKinds
       /\ NoLabel \in Labels \union {NoLabel}
  BY DEF FixupKinds, OperandKinds
<1>13. CASE InstrNoOperand
  <2>1. AddInstr("NO_OPERAND", Op, 0, 0, 0, NoLabel, cur + 1) /\ Type(cur) = "INSTRUCTION"
    BY <1>13 DEF InstrNoOperand, AtMnemonic
  <2> QED
    BY <1>6, <1>10, <1>11, <1>12, <2>1
<1>14. CASE InstrImm26
  <2>1. /\ AddInstr("IMM26", Op, 0, 0, Atoi[Text(cur + 1)] % WordSpan, NoLabel, cur + 2)
        /\ Type(cur) = "INSTRUCTION" /\ IsNumber(cur + 1)
    BY <1>14 DEF InstrImm26, AtMnemonic, IsNumber, NumberTypes
  <2> QED
    BY <1>6, <1>8, <1>10, <1>11, <1>12, <2>1
<1>15. CASE InstrLabel
  <2>1. /\ AddInstr("LABEL", Op, 0, 0, 0, Text(cur + 1), cur + 2)
        /\ Type(cur) = "INSTRUCTION" /\ Text(cur + 1) \in Labels \union {NoLabel}
    BY <1>9, <1>15 DEF InstrLabel, AtMnemonic
  <2> QED
    BY <1>6, <1>10, <1>11, <1>12, <2>1
<1>16. CASE InstrReg
  <2>1. /\ AddInstr("REG", Op, Reg(cur + 1), 0, 0, NoLabel, cur + 2)
        /\ Type(cur) = "INSTRUCTION" /\ Reg(cur + 1) \in 0 .. RegSpan - 1
    BY <1>7, <1>16 DEF InstrReg, AtMnemonic
  <2> QED
    BY <1>6, <1>10, <1>11, <1>12, <2>1
<1>17. CASE InstrRegReg
  <2>1. /\ AddInstr("REGREG", Op, Reg(cur + 1), Reg(cur + 3), 0, NoLabel, cur + 4)
        /\ Type(cur) = "INSTRUCTION" /\ Reg(cur + 1) \in 0 .. RegSpan - 1
        /\ Reg(cur + 3) \in 0 .. RegSpan - 1
    BY <1>7, <1>17 DEF InstrRegReg, AtSecondOperand, AtMnemonic
  <2> QED
    BY <1>6, <1>10, <1>11, <1>12, <2>1
<1>18. CASE InstrRegImm21
  <2> DEFINE span == IF Type(cur + 3) = "NUMBER" THEN WordSpan ELSE ImmSpan
  <2>1. /\ AddInstr("REGIMM21", Op, Reg(cur + 1), 0, Atoi[Text(cur + 3)] % span, NoLabel, cur + 4)
        /\ Type(cur) = "INSTRUCTION" /\ Reg(cur + 1) \in 0 .. RegSpan - 1
        /\ IsNumber(cur + 3)
    BY <1>7, <1>18 DEF InstrRegImm21, AtSecondOperand, AtMnemonic
  <2>2. Atoi[Text(cur + 3)] % span \in Nat
    BY <1>8, <2>1
  <2> HIDE DEF span
  <2> QED
    BY <1>6, <1>10, <1>11, <1>12, <2>1, <2>2
<1>19. CASE InstrRegLabel
  <2> DEFINE o == IF Text(cur) = Mov THEN Opcode[Movi] ELSE Op
  <2>1. /\ AddInstr("REGLABEL", o, Reg(cur + 1), 0, 0, Text(cur + 3), cur + 4)
        /\ Type(cur) = "INSTRUCTION" /\ Reg(cur + 1) \in 0 .. RegSpan - 1
        /\ Text(cur + 3) \in Labels \union {NoLabel}
    BY <1>7, <1>9, <1>19 DEF InstrRegLabel, AtSecondOperand, AtMnemonic
  <2>2. o \in Nat
    BY <1>6, <2>1
  <2> HIDE DEF o
  <2> QED
    BY <1>10, <1>11, <1>12, <2>1, <2>2
<1> QED
  BY <1>3, <1>4, <1>5, <1>13, <1>14, <1>15, <1>16, <1>17, <1>18, <1>19 DEF BlockMoves

(* Statements that change a setting or begin a block: where they are and   *)
(* where they leave the parser.                                            *)
HeadMoves == SectionDirective \/ DataOrText \/ BeginBlock

LEMMA HeadMovesOn ==
  ASSUME TokenList, cur \in 1 .. Len(toks) + 1, HeadMoves
  PROVE  /\ Here \in cur .. Len(toks) /\ Here \in 1 .. Len(toks) /\ Quiet(cur, Here)
         /\ Type(cur) # "COLON" /\ Type(Here) # "COLON"
         /\ cur' \in Here + 1 .. Len(toks) + 1 /\ cur' \in 1 .. Len(toks) + 1
<1>1. /\ Len(toks) \in Nat
      /\ \A q \in Int : Type(q) # "NULL" <=> q \in 1 .. Len(toks)
  BY TokenFacts
<1>2. /\ Here \in cur .. Len(toks) + 1 /\ Quiet(cur, Here)
      /\ Type(cur) # "NEWLINE" => Here = cur
  BY HereQuiet
<1>3. Type(Here) \in {"PERIOD"} \union SymbolTypes
  BY DEF HeadMoves, SectionDirective, DataOrText, BeginBlock, AtStatement
<1>4. Type(Here) \notin {"COLON", "NULL"} /\ Type(cur) # "COLON"
  BY <1>2, <1>3 DEF SymbolTypes
<1>5. Here \in Int /\ Here \in 1 .. Len(toks) /\ cur <= Here
  BY <1>1, <1>2, <1>4
<1>6. CASE SectionDirective
  <2>1. cur' = Here + 3 /\ Type(Here + 2) # "NULL"
    BY <1>6 DEF SectionDirective, IsSymbol, SymbolTypes
  <2> QED
    BY <1>1, <1>2, <1>4, <1>5, <2>1
<1>7. CASE DataOrText
  <2>1. cur' = Here + 2 /\ Type(Here + 1) # "NULL"
    BY <1>7 DEF DataOrText, IsDirective
  <2> QED
    BY <1>1, <1>2, <1>4, <1>5, <2>1
<1>8. CASE BeginBlock
  <2>1. cur' = Here + 2 /\ Type(Here + 2) # "NULL"
    BY <1>8 DEF BeginBlock
  <2> QED
    BY <1>1, <1>2, <1>4, <1>5, <2>1
<1> QED
  BY <1>6, <1>7, <1>8 DEF HeadMoves

TopMoves == SkipHead \/ ParseImport \/ ParseExport

(* The steps after which the parser does nothing more.                     *)
Stops ==
  \/ Halted("done") /\ at = "top" /\ cur > Len(toks)
  \/ Halted("error")
  \/ Halted("crash")
  \/ UNCHANGED vars

LEMMA NextCases ==
  ASSUME [Next]_vars
  PROVE  BlockMoves \/ TopMoves \/ HeadMoves \/ EndBlock \/ Stops
BY DEF Next, Step, Statement, Directive, ParseInstruction, BlockMoves, TopMoves, HeadMoves, Stops,
       ReturnBlocks, NewlinesAtEnd, RejectNames, RejectSection, ColonAtEnd, RejectStatement,
       RejectToken, RejectDirective, CommaAtEnd, RejectOperand, Terminated

TypeInv == TokenList /\ ParserTypeOK

LEMMA NoBlockType == NoBlock \in AsmBlock
<1>1. Labels # {}
  BY ParserAssumption
<1>2. PICK l \in Labels : NoBlock = NewBlock(l)
  BY <1>1 DEF NoBlock
<1>3. << >> \in Seq(Instruction) /\ << >> \in Seq(Nat) /\ << >> \in Seq(AsmWord)
  OBVIOUS
<1> QED
  BY <1>2, <1>3 DEF NewBlock, AsmBlock

LEMMA CalledTypeInv ==
  ASSUME TokenList, Called
  PROVE  TypeInv
<1>1. Len(toks) \in Nat
  BY TokenFacts
<1>2. block \in AsmBlock
  BY NoBlockType DEF Called
<1>3. [blocks |-> blocks, imports |-> g_imports, exports |-> g_exports] \in Source
  BY DEF Called, Source
<1>4. cur \in 1 .. Len(toks) + 1
  BY <1>1 DEF Called
<1>5. at \in Places /\ pending_section = NoSection /\ in_data \in BOOLEAN
  BY DEF Called, Places
<1> QED
  BY <1>2, <1>3, <1>4, <1>5 DEF TypeInv, ParserTypeOK

LEMMA InitTypeInv ==
  ASSUME Init
  PROVE  TypeInv
<1>1. toks \in TokenStreams /\ Called
  BY DEF Init
<1>2. /\ toks \in Seq([type : TokenTypes, str : STRING])
      /\ \A k \in DOMAIN toks : IsToken(toks[k])
  BY <1>1, ParserAssumption
<1>3. TokenList
  BY <1>2 DEF TokenList
<1> QED
  BY <1>1, <1>3, CalledTypeInv

LEMMA NextTypeInv ==
  ASSUME TypeInv, [Next]_vars
  PROVE  TypeInv'
<1>1. /\ TokenList /\ cur \in 1 .. Len(toks) + 1 /\ at \in Places
      /\ [blocks |-> blocks, imports |-> g_imports, exports |-> g_exports] \in Source
      /\ block \in AsmBlock /\ pending_section \in SectionNames \union {NoSection}
      /\ in_data \in BOOLEAN /\ Len(toks) \in Nat
  BY TokenFacts DEF TypeInv, ParserTypeOK
<1>2. blocks \in Seq(AsmBlock) /\ g_imports \in Seq(Labels) /\ g_exports \in Seq(Labels)
  BY <1>1 DEF Source
<1> SUFFICES /\ toks' = toks /\ cur' \in 1 .. Len(toks) + 1 /\ at' \in Places
             /\ blocks' \in Seq(AsmBlock) /\ g_imports' \in Seq(Labels)
             /\ g_exports' \in Seq(Labels) /\ block' \in AsmBlock
             /\ pending_section' \in SectionNames \union {NoSection}
             /\ in_data' \in BOOLEAN
  <2>1. ASSUME toks' = toks PROVE TokenList'
    BY <1>1, <2>1 DEF TokenList
  <2> QED
    BY <1>1, <2>1 DEF TypeInv, ParserTypeOK, Source
<1>3. CASE BlockMoves
  <2>1. cur' \in cur .. Len(toks) + 1 /\ block' \in AsmBlock
    BY <1>1, <1>3, BlockQuiet, BlockMovesType
  <2>2. UNCHANGED <<toks, at, blocks, pending_section, in_data, globals>>
    BY <1>3 DEF BlockMoves, BlankLine, ParseByte, ParseWord, InstrNoOperand, InstrImm26,
                InstrLabel, InstrReg, InstrRegReg, InstrRegImm21, InstrRegLabel, Grow, AddInstr
  <2> QED
    BY <1>1, <1>2, <2>1, <2>2 DEF globals
<1>4. CASE TopMoves
  <2>1. cur' \in cur .. Len(toks) + 1
    BY <1>1, <1>4, TopQuiet DEF TopMoves
  <2>2. UNCHANGED <<toks, at, blocks, block, pending_section, in_data>>
    BY <1>4 DEF TopMoves, SkipHead, ParseImport, ParseExport
  <2>3. g_imports' \in Seq(Labels) /\ g_exports' \in Seq(Labels)
    <3>1. CASE SkipHead
      BY <1>2, <3>1 DEF SkipHead, globals
    <3>2. CASE ParseImport \/ ParseExport
      <4>1. ListClosed(Here) /\ Type(Here) \in {"IMPORT", "EXPORT"}
        BY <3>2 DEF ParseImport, ParseExport, AtStatement
      <4>2. Here \in 1 .. Len(toks)
        <5>1. Here \in cur .. Len(toks) + 1 /\ Type(Here) # "NULL"
          BY <1>1, <4>1, HereQuiet
        <5>2. Here \in Int
          BY <1>1, <5>1
        <5> QED
          BY <1>1, <5>1, <5>2, TokenFacts
      <4>3. ListNames(Here) \in Seq(Labels)
        BY <1>1, <4>1, <4>2, NamesType
      <4>4. \/ g_imports' = AddNames(g_imports, ListNames(Here)) /\ g_exports' = g_exports
            \/ g_exports' = AddNames(g_exports, ListNames(Here)) /\ g_imports' = g_imports
        BY <3>2 DEF ParseImport, ParseExport
      <4>5. \A list \in Seq(Labels) : AddNames(list, ListNames(Here)) \in Seq(Labels)
        BY <4>3, AddNamesType
      <4> QED
        BY <1>2, <4>4, <4>5
    <3> QED
      BY <1>4, <3>1, <3>2 DEF TopMoves
  <2> QED
    BY <1>1, <1>2, <2>1, <2>2, <2>3
<1>5. CASE HeadMoves
  <2>1. cur' \in 1 .. Len(toks) + 1
    BY <1>1, <1>5, HeadMovesOn
  <2>2. CASE SectionDirective
    <3>1. pending_section' \in SectionNames
      BY <1>1, <2>2, TextFacts, ParserAssumption DEF SectionDirective
    <3> QED
      BY <1>1, <1>2, <2>1, <2>2, <3>1 DEF SectionDirective, globals
  <2>3. CASE DataOrText
    BY <1>1, <1>2, <2>1, <2>3 DEF DataOrText, globals
  <2>4. CASE BeginBlock
    <3>1. Text(Here) \in Labels
      BY <1>1, <2>4, TextFacts DEF BeginBlock, AtStatement, IsSymbol
    <3>2. NewBlock(Text(Here)) \in AsmBlock
      BY <3>1 DEF NewBlock, AsmBlock
    <3> QED
      BY <1>1, <1>2, <2>1, <2>4, <3>2 DEF BeginBlock, Places, globals
  <2> QED
    BY <1>5, <2>2, <2>3, <2>4 DEF HeadMoves
<1>6. CASE EndBlock
  <2> DEFINE b == [block EXCEPT !.section = pending_section,
                                !.in_data = pending_section = NoSection /\ in_data]
  <2>1. b \in AsmBlock
    BY <1>1 DEF AsmBlock
  <2>2. blocks' = Append(blocks, b)
    BY <1>6 DEF EndBlock
  <2> HIDE DEF b
  <2>3. blocks' \in Seq(AsmBlock)
    BY <1>2, <2>1, <2>2
  <2> QED
    BY <1>1, <1>2, <1>6, <2>3 DEF EndBlock, Places, globals
<1>7. CASE Stops
  BY <1>1, <1>2, <1>7 DEF Stops, Halted, Places, vars, globals
<1> QED
  BY <1>3, <1>4, <1>5, <1>6, <1>7, NextCases

LEMMA SpecTypeInv == Spec => []TypeInv
<1>1. Init => TypeInv
  BY InitTypeInv
<1>2. TypeInv /\ [Next]_vars => TypeInv'
  BY NextTypeInv
<1> QED
  BY <1>1, <1>2, PTL DEF Spec

(* Whatever tokens the lexer delivers, the parser stays within the list,   *)
(* and what it has built is a program codeGen may be called with: every    *)
(* field has its width, and every name is one of the file's.               *)
THEOREM ParserTypeCorrect == Spec => []ParserTypeOK
<1>1. TypeInv => ParserTypeOK
  BY DEF TypeInv
<1> QED
  BY <1>1, SpecTypeInv, PTL

---------------------------------------------------------------------------
(* Labels and sections.                                                    *)

(* The greatest of some positions, by what is known of it.                 *)
LEMMA LastBeforeIs ==
  ASSUME NEW c \in Nat, NEW words, NEW x \in 0 .. c - 1,
         x = 0 \/ IsDirective(x, words),
         \A q \in x + 1 .. c - 1 : ~IsDirective(q, words)
  PROVE  LastBefore(c, words) = x
<1> DEFINE S == {q \in 1 .. c - 1 : IsDirective(q, words)} \union {0}
<1>1. x \in S /\ \A y \in S : x >= y
  <2>1. x \in S
    OBVIOUS
  <2>2. ASSUME NEW y \in S PROVE x >= y
    <3>1. CASE y \in x + 1 .. c - 1
      BY <3>1
    <3>2. CASE y \notin x + 1 .. c - 1
      BY <3>2
    <3> QED
      BY <3>1, <3>2
  <2> QED
    BY <2>1, <2>2
<1>2. \A y \in S : y \in Int
  OBVIOUS
<1>3. LastBefore(c, words) = CHOOSE y \in S : \A z \in S : y >= z
  BY DEF LastBefore, Max
<1> HIDE DEF S
<1>4. \A y \in S : (\A z \in S : y >= z) => y = x
  BY <1>1, <1>2
<1> QED
  BY <1>1, <1>3, <1>4

LEMMA PreviousDeclarationIs ==
  ASSUME NEW c \in Nat, NEW x \in 0 .. c - 1, x = 0 \/ IsLabelDeclaration(x),
         \A q \in x + 1 .. c - 1 : ~IsLabelDeclaration(q)
  PROVE  PreviousDeclaration(c) = x
<1> DEFINE S == {q \in 1 .. c - 1 : IsLabelDeclaration(q)} \union {0}
<1>1. x \in S /\ \A y \in S : x >= y
  <2>1. x \in S
    OBVIOUS
  <2>2. ASSUME NEW y \in S PROVE x >= y
    <3>1. CASE y \in x + 1 .. c - 1
      BY <3>1
    <3>2. CASE y \notin x + 1 .. c - 1
      BY <3>2
    <3> QED
      BY <3>1, <3>2
  <2> QED
    BY <2>1, <2>2
<1>2. \A y \in S : y \in Int
  OBVIOUS
<1>3. PreviousDeclaration(c) = CHOOSE y \in S : \A z \in S : y >= z
  BY DEF PreviousDeclaration, Max
<1> HIDE DEF S
<1>4. \A y \in S : (\A z \in S : y >= z) => y = x
  BY <1>1, <1>2
<1> QED
  BY <1>1, <1>3, <1>4

(* Such a position there is.                                               *)
LEMMA LastBeforeFacts ==
  ASSUME NEW c \in Nat \ {0}, NEW words
  PROVE  LET s == LastBefore(c, words)
         IN  /\ s \in 0 .. c - 1 /\ (s = 0 \/ IsDirective(s, words))
             /\ \A q \in s + 1 .. c - 1 : ~IsDirective(q, words)
<1> DEFINE S == {q \in 1 .. c - 1 : IsDirective(q, words)} \union {0}
<1>1. PICK x \in S : \A y \in S : x >= y
  <2>1. S \in SUBSET (0 .. c - 1) /\ S # {} /\ c - 1 \in Nat
    OBVIOUS
  <2> HIDE DEF S
  <2> QED
    BY <2>1, GreatestOf
<1>2. x \in 0 .. c - 1 /\ (x = 0 \/ IsDirective(x, words))
  OBVIOUS
<1>3. ASSUME NEW q \in x + 1 .. c - 1 PROVE ~IsDirective(q, words)
  <2>1. q \in 1 .. c - 1 /\ ~(x >= q)
    BY <1>2
  <2> QED
    BY <1>1, <2>1
<1> HIDE DEF S
<1>4. LastBefore(c, words) = x
  BY <1>2, <1>3, LastBeforeIs
<1> QED
  BY <1>2, <1>3, <1>4

LEMMA PreviousDeclarationFacts ==
  ASSUME NEW c \in Nat \ {0}
  PROVE  LET d == PreviousDeclaration(c)
         IN  /\ d \in 0 .. c - 1 /\ (d = 0 \/ IsLabelDeclaration(d))
             /\ \A q \in d + 1 .. c - 1 : ~IsLabelDeclaration(q)
<1> DEFINE S == {q \in 1 .. c - 1 : IsLabelDeclaration(q)} \union {0}
<1>1. PICK x \in S : \A y \in S : x >= y
  <2>1. S \in SUBSET (0 .. c - 1) /\ S # {} /\ c - 1 \in Nat
    OBVIOUS
  <2> HIDE DEF S
  <2> QED
    BY <2>1, GreatestOf
<1>2. x \in 0 .. c - 1 /\ (x = 0 \/ IsLabelDeclaration(x))
  OBVIOUS
<1>3. ASSUME NEW q \in x + 1 .. c - 1 PROVE ~IsLabelDeclaration(q)
  <2>1. q \in 1 .. c - 1 /\ ~(x >= q)
    BY <1>2
  <2> QED
    BY <1>1, <2>1
<1> HIDE DEF S
<1>4. PreviousDeclaration(c) = x
  BY <1>2, <1>3, PreviousDeclarationIs
<1> QED
  BY <1>2, <1>3, <1>4

(* Over tokens where nothing is declared the last declaration stays.       *)
LEMMA NoDeclarationBetween ==
  ASSUME NEW a \in Nat \ {0}, NEW c \in Nat \ {0}, a <= c,
         \A q \in a .. c - 1 : ~IsLabelDeclaration(q)
  PROVE  Below(c) = Below(a) /\ PreviousDeclaration(c) = PreviousDeclaration(a)
<1>1. ASSUME NEW q \in Int PROVE q \in Below(c) <=> q \in Below(a)
  <2>1. q \in 1 .. c - 1 <=> q \in 1 .. a - 1 \/ q \in a .. c - 1
    OBVIOUS
  <2> QED
    BY <2>1 DEF Below
<1>2. Below(c) \in SUBSET Int /\ Below(a) \in SUBSET Int
  BY DEF Below
<1>3. Below(c) = Below(a)
  BY <1>1, <1>2
<1> DEFINE d == PreviousDeclaration(a)
<1>4. /\ d \in 0 .. a - 1 /\ (d = 0 \/ IsLabelDeclaration(d))
      /\ \A q \in d + 1 .. a - 1 : ~IsLabelDeclaration(q)
  BY PreviousDeclarationFacts
<1> HIDE DEF d
<1>5. d \in 0 .. c - 1
  BY <1>4
<1>6. \A q \in d + 1 .. c - 1 : ~IsLabelDeclaration(q)
  <2> TAKE q \in d + 1 .. c - 1
  <2>1. q \in d + 1 .. a - 1 \/ q \in a .. c - 1
    BY <1>4
  <2> QED
    BY <1>4, <2>1
<1>7. PreviousDeclaration(c) = d
  BY <1>4, <1>5, <1>6, PreviousDeclarationIs
<1> QED
  BY <1>3, <1>7 DEF d

LEMMA NoDirectiveBetween ==
  ASSUME NEW a \in Nat \ {0}, NEW c \in Nat \ {0}, a <= c, NEW words,
         \A q \in a .. c - 1 : ~IsDirective(q, words)
  PROVE  LastBefore(c, words) = LastBefore(a, words)
<1> DEFINE d == LastBefore(a, words)
<1>4. /\ d \in 0 .. a - 1 /\ (d = 0 \/ IsDirective(d, words))
      /\ \A q \in d + 1 .. a - 1 : ~IsDirective(q, words)
  BY LastBeforeFacts
<1> HIDE DEF d
<1>5. d \in 0 .. c - 1
  BY <1>4
<1>6. \A q \in d + 1 .. c - 1 : ~IsDirective(q, words)
  <2> TAKE q \in d + 1 .. c - 1
  <2>1. q \in d + 1 .. a - 1 \/ q \in a .. c - 1
    BY <1>4
  <2> QED
    BY <1>4, <2>1
<1>7. LastBefore(c, words) = d
  BY <1>4, <1>5, <1>6, LastBeforeIs
<1> QED
  BY <1>7 DEF d

(* What the tokens before a say, the tokens before c say, when those       *)
(* between are quiet.                                                      *)
LEMMA QuietSays ==
  ASSUME NEW a \in Nat \ {0}, NEW c \in Nat \ {0}, a <= c, Quiet(a, c), Type(c) # "COLON"
  PROVE  /\ Below(c) = Below(a) /\ PreviousDeclaration(c) = PreviousDeclaration(a)
         /\ LastBefore(c, {"section"}) = LastBefore(a, {"section"})
         /\ LastBefore(c, {"data", "text"}) = LastBefore(a, {"data", "text"})
         /\ \A bs : BlocksSay(a, bs) => BlocksSay(c, bs)
         /\ \A name : SectionSays(a, name) => SectionSays(c, name)
         /\ \A data : DataSays(a, data) => DataSays(c, data)
<1>1. \A q \in a .. c - 1 : ~IsLabelDeclaration(q)
  BY DEF Quiet
<1>2. \A q \in a .. c - 1 : ~IsDirective(q, {"section"}) /\ ~IsDirective(q, {"data", "text"})
  BY DEF Quiet, IsDirective
<1>3. Below(c) = Below(a) /\ PreviousDeclaration(c) = PreviousDeclaration(a)
  BY <1>1, NoDeclarationBetween
<1>4. LastBefore(c, {"section"}) = LastBefore(a, {"section"})
  BY <1>2, NoDirectiveBetween
<1>5. LastBefore(c, {"data", "text"}) = LastBefore(a, {"data", "text"})
  BY <1>2, NoDirectiveBetween
<1> QED
  BY <1>3, <1>4, <1>5 DEF BlocksSay, SectionSays, DataSays

(* The same between a label d and the token behind its block.              *)
LEMMA BlockEndSays ==
  ASSUME TokenList, NEW c \in 1 .. Len(toks) + 1, NEW d \in Below(c),
         Quiet(d + 1, c), Type(c) # "COLON"
  PROVE  /\ d \in 1 .. Len(toks) /\ d < c
         /\ Below(c) = Below(d) \union {d}
         /\ Cardinality(Below(c)) = Cardinality(Below(d)) + 1
         /\ SectionSays(c, NoSection)
         /\ \A data : DataSays(d, data) => DataSays(c, data)
<1>1. /\ Len(toks) \in Nat
      /\ \A q \in Int : Type(q) # "NULL" <=> q \in 1 .. Len(toks)
  BY TokenFacts
<1>2. d \in 1 .. c - 1 /\ IsLabelDeclaration(d) /\ d \in Nat \ {0} /\ d + 1 \in Nat \ {0}
      /\ d + 1 <= c /\ c \in Nat \ {0} /\ d <= d + 1
  BY <1>1 DEF Below
<1>3. d \in 1 .. Len(toks)
  BY <1>1, <1>2
<1>4. /\ Below(c) = Below(d + 1) /\ PreviousDeclaration(c) = PreviousDeclaration(d + 1)
      /\ LastBefore(c, {"section"}) = LastBefore(d + 1, {"section"})
      /\ LastBefore(c, {"data", "text"}) = LastBefore(d + 1, {"data", "text"})
  BY <1>2, QuietSays
<1>5. Below(d + 1) = Below(d) \union {d}
  <2>1. ASSUME NEW q \in Int PROVE q \in 1 .. (d + 1) - 1 <=> q \in 1 .. d - 1 \/ q = d
    BY <1>2
  <2>2. ASSUME NEW q \in Int PROVE q \in Below(d + 1) <=> q \in Below(d) \union {d}
    BY <1>2, <2>1 DEF Below
  <2>3. Below(d + 1) \in SUBSET Int /\ Below(d) \union {d} \in SUBSET Int
    BY <1>2 DEF Below
  <2> QED
    BY <2>2, <2>3
<1>6. Cardinality(Below(d) \union {d}) = Cardinality(Below(d)) + 1
  <2>1. Below(d) \in SUBSET (1 .. d - 1) /\ 1 \in Int /\ d - 1 \in Int
    BY <1>2 DEF Below
  <2>2. IsFiniteSet(Below(d))
    BY <2>1, FiniteWithin
  <2>3. d \notin Below(d)
    BY <1>2 DEF Below
  <2> QED
    BY <2>2, <2>3, FS_AddElement
<1>7. \A q \in d .. (d + 1) - 1 : q = d /\ Type(q) # "PERIOD"
  BY <1>2 DEF IsLabelDeclaration, IsSymbol, SymbolTypes
<1>8. LastBefore(d + 1, {"section"}) = LastBefore(d, {"section"})
  <2>1. \A q \in d .. (d + 1) - 1 : ~IsDirective(q, {"section"})
    BY <1>7 DEF IsDirective
  <2> QED
    BY <1>2, <2>1, NoDirectiveBetween
<1>9. LastBefore(d + 1, {"data", "text"}) = LastBefore(d, {"data", "text"})
  <2>1. \A q \in d .. (d + 1) - 1 : ~IsDirective(q, {"data", "text"})
    BY <1>7 DEF IsDirective
  <2> QED
    BY <1>2, <2>1, NoDirectiveBetween
<1>10. PreviousDeclaration(d + 1) = d
  <2>1. d \in 0 .. (d + 1) - 1 /\ \A q \in d + 1 .. (d + 1) - 1 : ~IsLabelDeclaration(q)
    BY <1>2
  <2> QED
    BY <1>2, <2>1, PreviousDeclarationIs
<1>11. SectionSays(c, NoSection)
  <2>1. LastBefore(d, {"section"}) \in 0 .. d - 1
    BY <1>2, LastBeforeFacts
  <2>2. ~(LastBefore(c, {"section"}) > PreviousDeclaration(c))
    BY <1>2, <1>4, <1>8, <1>10, <2>1
  <2> QED
    BY <2>2 DEF SectionSays
<1>12. \A data : DataSays(d, data) => DataSays(c, data)
  BY <1>4, <1>9 DEF DataSays
<1>13. d < c
  BY <1>2
<1>14. Below(c) = Below(d) \union {d}
  BY <1>4, <1>5
<1> QED
  BY <1>3, <1>6, <1>11, <1>12, <1>13, <1>14

(* The n-th label: a label's rank is its own among those up to it.         *)
LEMMA RankFacts ==
  ASSUME TokenList, NEW c \in 1 .. Len(toks) + 1, NEW p \in Below(c)
  PROVE  /\ p \in Nat \ {0} /\ Rank(p) \in 1 .. Cardinality(Below(c))
         /\ Rank(p) = Cardinality(Below(p)) + 1
<1>1. /\ Len(toks) \in Nat /\ DOMAIN toks = 1 .. Len(toks)
      /\ \A q \in Int : Type(q) # "NULL" <=> q \in 1 .. Len(toks)
  BY TokenFacts
<1>2. p \in 1 .. c - 1 /\ IsLabelDeclaration(p) /\ p \in Nat \ {0} /\ p \in 1 .. Len(toks)
  BY <1>1 DEF Below
<1> DEFINE R == {q \in Declarations : q <= p}
<1>3. R = Below(p) \union {p}
  <2>1. ASSUME NEW q \in Int
        PROVE  q \in 1 .. Len(toks) /\ q <= p <=> q \in 1 .. p - 1 \/ q = p
    BY <1>1, <1>2
  <2>2. ASSUME NEW q \in Int PROVE q \in R <=> q \in Below(p) \union {p}
    BY <1>1, <1>2, <2>1 DEF Below, Declarations, Positions
  <2>3. R \in SUBSET Int /\ Below(p) \union {p} \in SUBSET Int
    BY <1>1, <1>2 DEF Below, Declarations, Positions
  <2> QED
    BY <2>2, <2>3
<1>4. /\ Below(p) \in SUBSET (1 .. p - 1) /\ Below(c) \in SUBSET (1 .. c - 1)
      /\ 1 \in Int /\ p - 1 \in Int /\ c - 1 \in Int
  BY <1>1, <1>2 DEF Below
<1>5. /\ IsFiniteSet(Below(p)) /\ Cardinality(Below(p)) \in Nat
      /\ IsFiniteSet(Below(c)) /\ Cardinality(Below(c)) \in Nat
  BY <1>4, FiniteWithin
<1>6. Cardinality(R) = Cardinality(Below(p)) + 1
  <2>1. p \notin Below(p)
    BY <1>2 DEF Below
  <2> QED
    BY <1>3, <1>5, <2>1, FS_AddElement
<1>7. Cardinality(R) <= Cardinality(Below(c))
  <2>1. \A q \in 1 .. p - 1 : q \in 1 .. c - 1
    BY <1>1, <1>2
  <2>2. R \in SUBSET Below(c)
    BY <1>2, <1>3, <2>1 DEF Below
  <2> QED
    BY <1>5, <2>2, FS_Subset
<1> QED
  BY <1>2, <1>5, <1>6, <1>7 DEF Rank

(* A block that ends goes behind the blocks of the labels before its own.  *)
LEMMA AppendSays ==
  ASSUME TokenList, NEW c \in 1 .. Len(toks) + 1, NEW d \in Below(c),
         Quiet(d + 1, c), Type(c) # "COLON",
         NEW bs \in Seq(AsmBlock), BlocksSay(d, bs), NEW b \in AsmBlock, BlockSays(d, b)
  PROVE  BlocksSay(c, Append(bs, b))
<1>1. /\ d \in 1 .. Len(toks) /\ Below(c) = Below(d) \union {d} /\ Len(toks) \in Nat
      /\ Cardinality(Below(c)) = Cardinality(Below(d)) + 1
  BY BlockEndSays, TokenFacts
<1>2. Len(bs) \in Nat /\ Len(bs) = Cardinality(Below(d)) /\ Len(Append(bs, b)) = Len(bs) + 1
  BY DEF BlocksSay
<1>3. ASSUME NEW p \in Below(d) PROVE BlockSays(p, Append(bs, b)[Rank(p)])
  <2>1. d \in 1 .. Len(toks) + 1
    BY <1>1
  <2>2. Rank(p) \in 1 .. Len(bs)
    BY <1>2, <2>1, RankFacts
  <2>3. Append(bs, b)[Rank(p)] = bs[Rank(p)]
    BY <1>2, <2>2
  <2>4. BlockSays(p, bs[Rank(p)])
    BY DEF BlocksSay
  <2> QED
    BY <2>3, <2>4
<1>4. BlockSays(d, Append(bs, b)[Rank(d)])
  <2>1. Rank(d) = Len(bs) + 1
    BY <1>2, RankFacts
  <2>2. Append(bs, b)[Rank(d)] = b
    BY <1>2, <2>1
  <2> QED
    BY <2>2
<1> QED
  BY <1>1, <1>2, <1>3, <1>4 DEF BlocksSay

LEMMA EndBlockPlaced ==
  ASSUME TypeInv, Placed, EndBlock
  PROVE  TopPlaced(cur, blocks', NoSection, in_data)
<1>1. /\ TokenList /\ cur \in 1 .. Len(toks) + 1 /\ blocks \in Seq(AsmBlock)
      /\ block \in AsmBlock /\ pending_section \in SectionNames \union {NoSection}
      /\ in_data \in BOOLEAN
  BY DEF TypeInv, ParserTypeOK, Source
<1>2. BlockPlaced(cur, blocks, block, pending_section, in_data)
  BY DEF Placed, EndBlock
<1>3. CASE Type(cur) = "COLON"
  BY <1>3 DEF TopPlaced
<1>4. CASE Type(cur) # "COLON"
  <2>1. PICK d \in Below(cur) :
          /\ Quiet(d + 1, cur)
          /\ block.label = Text(d)
          /\ BlocksSay(d, blocks) /\ SectionSays(d, pending_section) /\ DataSays(d, in_data)
    BY <1>2, <1>4 DEF BlockPlaced
  <2> DEFINE b == [block EXCEPT !.section = pending_section,
                                !.in_data = pending_section = NoSection /\ in_data]
  <2>2. b \in AsmBlock
    BY <1>1 DEF AsmBlock
  <2>3. /\ b.label = Text(d) /\ b.section = pending_section
        /\ b.in_data = (pending_section = NoSection /\ in_data)
    BY <1>1, <2>1 DEF AsmBlock
  <2>4. blocks' = Append(blocks, b)
    BY DEF EndBlock
  <2> HIDE DEF b
  <2>5. BlockSays(d, b)
    BY <1>1, <2>1, <2>3 DEF BlockSays
  <2>6. BlocksSay(cur, blocks')
    BY <1>1, <1>4, <2>1, <2>2, <2>4, <2>5, AppendSays
  <2>7. SectionSays(cur, NoSection) /\ DataSays(cur, in_data)
    BY <1>1, <1>4, <2>1, BlockEndSays
  <2> QED
    BY <2>6, <2>7 DEF TopPlaced
<1> QED
  BY <1>3, <1>4

(* A statement that begins neither a block nor a setting leaves the parser *)
(* where the same is said.                                                 *)
LEMMA TopMovesPlaced ==
  ASSUME TypeInv, Placed, TopMoves
  PROVE  TopPlaced(cur', blocks, pending_section, in_data)
<1>1. TokenList /\ cur \in 1 .. Len(toks) + 1 /\ Len(toks) \in Nat
  BY TokenFacts DEF TypeInv, ParserTypeOK
<1>2. cur' \in cur .. Len(toks) + 1 /\ Quiet(cur, cur') /\ Type(cur) # "COLON"
  BY <1>1, TopQuiet DEF TopMoves
<1>3. at = "top"
  BY DEF TopMoves, SkipHead, ParseImport, ParseExport, AtStatement
<1>4. /\ BlocksSay(cur, blocks) /\ SectionSays(cur, pending_section)
      /\ DataSays(cur, in_data)
  BY <1>2, <1>3 DEF Placed, TopPlaced
<1>5. cur \in Nat \ {0} /\ cur' \in Nat \ {0} /\ cur <= cur'
  BY <1>1, <1>2
<1>6. Type(cur') # "COLON" =>
        /\ BlocksSay(cur', blocks) /\ SectionSays(cur', pending_section)
        /\ DataSays(cur', in_data)
  BY <1>2, <1>4, <1>5, QuietSays
<1> QED
  BY <1>6 DEF TopPlaced

(* The same of the steps inside a block.                                   *)
LEMMA BlockMovesPlaced ==
  ASSUME TypeInv, Placed, BlockMoves
  PROVE  BlockPlaced(cur', blocks, block', pending_section, in_data)
<1>1. /\ TokenList /\ cur \in 1 .. Len(toks) + 1 /\ Len(toks) \in Nat
      /\ block \in AsmBlock
  BY TokenFacts DEF TypeInv, ParserTypeOK
<1>2. cur' \in cur .. Len(toks) + 1 /\ Quiet(cur, cur') /\ Type(cur) # "COLON"
  BY <1>1, BlockQuiet
<1>3. at = "block"
  BY DEF BlockMoves, BlankLine, ParseByte, ParseWord, InstrNoOperand, InstrImm26, InstrLabel,
         InstrReg, InstrRegReg, InstrRegImm21, InstrRegLabel, AtSecondOperand, AtMnemonic, InBlock
<1>4. block'.label = block.label
  <2>1. \A bytes, ws, next : Grow(bytes, ws, next) => block'.label = block.label
    BY <1>1 DEF Grow, AsmBlock
  <2>2. \A kind, opcode, reg1, reg2, imm, l, next :
          AddInstr(kind, opcode, reg1, reg2, imm, l, next) => block'.label = block.label
    BY <1>1 DEF AddInstr, AsmBlock
  <2>3. CASE BlankLine
    BY <2>3 DEF BlankLine
  <2>4. CASE ParseByte
    BY <2>1, <2>4 DEF ParseByte
  <2>5. CASE ParseWord
    BY <2>1, <2>5 DEF ParseWord
  <2>6. CASE InstrNoOperand \/ InstrImm26 \/ InstrLabel \/ InstrReg
    BY <2>2, <2>6 DEF InstrNoOperand, InstrImm26, InstrLabel, InstrReg
  <2>7. CASE InstrRegReg \/ InstrRegImm21 \/ InstrRegLabel
    BY <2>2, <2>7 DEF InstrRegReg, InstrRegImm21, InstrRegLabel
  <2> QED
    BY <2>3, <2>4, <2>5, <2>6, <2>7 DEF BlockMoves
<1>5. PICK d \in Below(cur) :
        /\ Quiet(d + 1, cur)
        /\ block.label = Text(d)
        /\ BlocksSay(d, blocks) /\ SectionSays(d, pending_section) /\ DataSays(d, in_data)
  BY <1>2, <1>3 DEF Placed, BlockPlaced
<1>6. d \in Below(cur') /\ d + 1 \in Int /\ d + 1 <= cur /\ cur \in Int /\ cur' \in Int
      /\ cur <= cur'
  <2>1. d \in 1 .. cur - 1 /\ IsLabelDeclaration(d)
    BY DEF Below
  <2>2. /\ cur \in Int /\ cur' \in Int /\ cur <= cur'
    BY <1>1, <1>2
  <2>3. d \in Int /\ 1 <= d /\ d <= cur - 1
    BY <2>1, <2>2
  <2>4. d \in 1 .. cur' - 1
    <3>1. \A x \in Int : cur <= x => d \in 1 .. x - 1
      BY <2>2, <2>3
    <3> QED
      BY <2>2, <3>1
  <2>5. d + 1 \in Int /\ d + 1 <= cur
    BY <2>2, <2>3
  <2> QED
    BY <2>1, <2>2, <2>4, <2>5 DEF Below
<1>7. Quiet(d + 1, cur')
  BY <1>2, <1>5, <1>6, QuietAdds
<1> QED
  BY <1>4, <1>5, <1>6, <1>7 DEF BlockPlaced

(* The statements that change a setting or begin a block.                  *)
LEMMA HeadMovesPlaced ==
  ASSUME TypeInv, Placed, HeadMoves
  PROVE  /\ BeginBlock =>
              BlockPlaced(cur', blocks, block', pending_section, in_data)
         /\ SectionDirective => TopPlaced(cur', blocks, pending_section', in_data)
         /\ DataOrText => TopPlaced(cur', blocks, pending_section, in_data')
<1>1. TokenList /\ cur \in 1 .. Len(toks) + 1 /\ Len(toks) \in Nat
  BY TokenFacts DEF TypeInv, ParserTypeOK
<1> DEFINE h == Here
<1>2. /\ h \in cur .. Len(toks) /\ h \in 1 .. Len(toks) /\ Quiet(cur, h)
      /\ Type(cur) # "COLON" /\ Type(h) # "COLON"
      /\ cur' \in h + 1 .. Len(toks) + 1 /\ cur' \in 1 .. Len(toks) + 1
  BY <1>1, HeadMovesOn
<1>3. at = "top"
  BY DEF HeadMoves, SectionDirective, DataOrText, BeginBlock, AtStatement
<1> HIDE DEF h
<1>4. /\ BlocksSay(h, blocks) /\ SectionSays(h, pending_section) /\ DataSays(h, in_data)
  <2>1. /\ BlocksSay(cur, blocks) /\ SectionSays(cur, pending_section)
        /\ DataSays(cur, in_data)
    BY <1>2, <1>3 DEF Placed, TopPlaced
  <2>2. cur \in Nat \ {0} /\ h \in Nat \ {0} /\ cur <= h
    BY <1>1, <1>2
  <2> QED
    BY <1>2, <2>1, <2>2, QuietSays
<1>5. /\ h \in Nat \ {0} /\ h + 1 \in Nat \ {0} /\ h + 2 \in Nat \ {0} /\ h + 3 \in Nat \ {0}
      /\ (h + 1) + 1 = h + 2 /\ (h + 2) + 1 = h + 3
      /\ h <= h + 1 /\ h + 1 <= h + 2 /\ h + 2 <= h + 3
  BY <1>2
<1>6. CASE BeginBlock
  <2>1. /\ cur' = h + 2 /\ IsLabelDeclaration(h) /\ block' = NewBlock(Text(h))
    BY <1>6 DEF BeginBlock, h
  <2>2. Type(h + 1) = "COLON"
    BY <2>1 DEF IsLabelDeclaration
  <2>3. Quiet(h + 1, h + 2)
    BY <1>5, <2>2, QuietOne DEF IsSymbol, SymbolTypes
  <2>4. h \in 1 .. cur' - 1
    BY <1>5, <2>1
  <2>5. h \in Below(cur')
    BY <2>1, <2>4 DEF Below
  <2>6. block'.label = Text(h)
    BY <2>1 DEF NewBlock
  <2>7. Quiet(h + 1, cur')
    BY <2>1, <2>3
  <2>8. BlockPlaced(cur', blocks, block', pending_section, in_data)
    BY <1>4, <2>5, <2>6, <2>7 DEF BlockPlaced
  <2> QED
    BY <1>6, <2>8 DEF BeginBlock, SectionDirective, DataOrText, AtStatement, SymbolTypes
<1>7. CASE SectionDirective
  <2>1. /\ cur' = h + 3 /\ IsDirective(h, {"section"}) /\ IsSymbol(h + 2)
        /\ pending_section' = Text(h + 2)
    BY <1>7 DEF SectionDirective, h
  <2>2. SUFFICES ASSUME Type(cur') # "COLON"
                 PROVE  TopPlaced(cur', blocks, pending_section', in_data)
    BY <1>7 DEF TopPlaced, SectionDirective, DataOrText, BeginBlock, AtStatement, SymbolTypes,
                IsDirective
  <2>3. \A q \in h .. cur' - 1 : q = h \/ q = h + 1 \/ q = h + 2
    BY <1>5, <2>1
  <2>4. Type(h) = "PERIOD" /\ Type(h + 1) = "LABEL" /\ Type(h + 2) \in SymbolTypes
    BY <2>1 DEF IsDirective, IsSymbol
  <2>5. \A q \in h .. cur' - 1 : ~IsLabelDeclaration(q)
    <3>1. Type((h + 1) + 1) # "COLON" /\ Type((h + 2) + 1) # "COLON"
      BY <1>5, <2>1, <2>2, <2>4 DEF SymbolTypes
    <3>2. ~IsSymbol(h)
      BY <2>4 DEF IsSymbol, SymbolTypes
    <3> QED
      BY <2>3, <3>1, <3>2 DEF IsLabelDeclaration
  <2>6. h <= cur' /\ cur' \in Nat \ {0} /\ h \in 0 .. cur' - 1
    BY <1>5, <2>1
  <2>7. Below(cur') = Below(h) /\ PreviousDeclaration(cur') = PreviousDeclaration(h)
    BY <1>5, <2>5, <2>6, NoDeclarationBetween
  <2>8. LastBefore(cur', {"data", "text"}) = LastBefore(h, {"data", "text"})
    <3>1. \A q \in h .. cur' - 1 : ~IsDirective(q, {"data", "text"})
      <4>1. ~IsDirective(h, {"data", "text"})
        BY <2>1 DEF IsDirective
      <4>2. ~IsDirective(h + 1, {"data", "text"}) /\ ~IsDirective(h + 2, {"data", "text"})
        BY <2>4 DEF IsDirective, SymbolTypes
      <4> QED
        BY <2>3, <4>1, <4>2
    <3> QED
      BY <1>5, <2>6, <3>1, NoDirectiveBetween
  <2>9. LastBefore(cur', {"section"}) = h
    <3>1. \A q \in h + 1 .. cur' - 1 : q = h + 1 \/ q = h + 2
      BY <1>5, <2>1
    <3>2. \A q \in h + 1 .. cur' - 1 : ~IsDirective(q, {"section"})
      BY <2>4, <3>1 DEF IsDirective, SymbolTypes
    <3> QED
      BY <2>1, <2>6, <3>2, LastBeforeIs
  <2>10. SectionSays(cur', pending_section')
    <3>1. Text(h + 2) # NoSection
      BY <1>1, <2>1, TextFacts, ParserAssumption, LabelAssumption
    <3>2. PreviousDeclaration(h) \in 0 .. h - 1
      BY <1>5, PreviousDeclarationFacts
    <3>3. h > PreviousDeclaration(cur')
      BY <1>5, <2>7, <3>2
    <3> QED
      BY <2>1, <2>9, <3>1, <3>3 DEF SectionSays
  <2>11. BlocksSay(cur', blocks)
    BY <1>4, <2>7 DEF BlocksSay
  <2>12. DataSays(cur', in_data)
    BY <1>4, <2>8 DEF DataSays
  <2> QED
    BY <2>10, <2>11, <2>12 DEF TopPlaced
<1>8. CASE DataOrText
  <2>1. /\ cur' = h + 2 /\ IsDirective(h, {"data", "text"})
        /\ in_data' = (Text(h + 1) = "data")
    BY <1>8 DEF DataOrText, h
  <2>2. SUFFICES ASSUME Type(cur') # "COLON"
                 PROVE  TopPlaced(cur', blocks, pending_section, in_data')
    BY <1>8 DEF TopPlaced, SectionDirective, DataOrText, BeginBlock, AtStatement, SymbolTypes,
                IsDirective
  <2>3. \A q \in h .. cur' - 1 : q = h \/ q = h + 1
    BY <1>5, <2>1
  <2>4. Type(h) = "PERIOD" /\ Type(h + 1) = "LABEL"
    BY <2>1 DEF IsDirective
  <2>5. \A q \in h .. cur' - 1 : ~IsLabelDeclaration(q)
    <3>1. Type((h + 1) + 1) # "COLON"
      BY <1>5, <2>1, <2>2
    <3>2. ~IsSymbol(h)
      BY <2>4 DEF IsSymbol, SymbolTypes
    <3> QED
      BY <2>3, <3>1, <3>2 DEF IsLabelDeclaration
  <2>6. h <= cur' /\ cur' \in Nat \ {0} /\ h \in 0 .. cur' - 1
    BY <1>5, <2>1
  <2>7. Below(cur') = Below(h) /\ PreviousDeclaration(cur') = PreviousDeclaration(h)
    BY <1>5, <2>5, <2>6, NoDeclarationBetween
  <2>8. LastBefore(cur', {"section"}) = LastBefore(h, {"section"})
    <3>1. \A q \in h .. cur' - 1 : ~IsDirective(q, {"section"})
      <4>1. ~IsDirective(h, {"section"})
        BY <2>1 DEF IsDirective
      <4>2. ~IsDirective(h + 1, {"section"})
        BY <2>4 DEF IsDirective
      <4> QED
        BY <2>3, <4>1, <4>2
    <3> QED
      BY <1>5, <2>6, <3>1, NoDirectiveBetween
  <2>9. LastBefore(cur', {"data", "text"}) = h
    <3>1. \A q \in h + 1 .. cur' - 1 : q = h + 1
      BY <1>5, <2>1
    <3>2. \A q \in h + 1 .. cur' - 1 : ~IsDirective(q, {"data", "text"})
      BY <2>4, <3>1 DEF IsDirective
    <3> QED
      BY <2>1, <2>6, <3>2, LastBeforeIs
  <2>10. DataSays(cur', in_data')
    <3>1. h > 0
      BY <1>5
    <3> QED
      BY <2>1, <2>9, <3>1 DEF DataSays
  <2>11. BlocksSay(cur', blocks)
    BY <1>4, <2>7 DEF BlocksSay
  <2>12. SectionSays(cur', pending_section)
    BY <1>4, <2>7, <2>8 DEF SectionSays
  <2> QED
    BY <2>10, <2>11, <2>12 DEF TopPlaced
<1> QED
  BY <1>6, <1>7, <1>8 DEF HeadMoves

(* What the tokens say does not change while they do not.                  *)
LEMMA SaysUnchanged ==
  ASSUME toks' = toks
  PROVE  /\ \A p : Type(p)' = Type(p) /\ Text(p)' = Text(p)
         /\ \A c, bs : BlocksSay(c, bs)' <=> BlocksSay(c, bs)
         /\ \A c, name : SectionSays(c, name)' <=> SectionSays(c, name)
         /\ \A c, data : DataSays(c, data)' <=> DataSays(c, data)
         /\ \A a, c : Quiet(a, c)' <=> Quiet(a, c)
         /\ \A c : Below(c)' = Below(c)
<1>1. ASSUME NEW p PROVE Type(p)' = Type(p) /\ Text(p)' = Text(p)
  BY DEF Type, Text
<1>2. ASSUME NEW p PROVE IsLabelDeclaration(p)' <=> IsLabelDeclaration(p)
  BY <1>1 DEF IsLabelDeclaration, IsSymbol
<1>3. ASSUME NEW p, NEW words PROVE IsDirective(p, words)' <=> IsDirective(p, words)
  BY <1>1 DEF IsDirective
<1>4. ASSUME NEW c PROVE Below(c)' = Below(c)
  BY <1>2 DEF Below
<1>5. ASSUME NEW c, NEW words PROVE LastBefore(c, words)' = LastBefore(c, words)
  <2>1. {q \in 1 .. c - 1 : IsDirective(q, words)'} = {q \in 1 .. c - 1 : IsDirective(q, words)}
    BY <1>3
  <2> QED
    BY <2>1 DEF LastBefore
<1>6. ASSUME NEW c PROVE PreviousDeclaration(c)' = PreviousDeclaration(c)
  <2>1. {q \in 1 .. c - 1 : IsLabelDeclaration(q)'} = {q \in 1 .. c - 1 : IsLabelDeclaration(q)}
    BY <1>2
  <2> QED
    BY <2>1 DEF PreviousDeclaration
<1>7. ASSUME NEW c, NEW name PROVE SectionSays(c, name)' <=> SectionSays(c, name)
  BY <1>1, <1>5, <1>6 DEF SectionSays
<1>8. ASSUME NEW c, NEW data PROVE DataSays(c, data)' <=> DataSays(c, data)
  BY <1>1, <1>5 DEF DataSays
<1>9. ASSUME NEW p, NEW b PROVE BlockSays(p, b)' <=> BlockSays(p, b)
  BY <1>1, <1>7, <1>8 DEF BlockSays
<1>10. ASSUME NEW p PROVE Rank(p)' = Rank(p)
  <2>1. Declarations' = Declarations
    BY <1>2 DEF Declarations, Positions
  <2> QED
    BY <2>1 DEF Rank
<1>11. ASSUME NEW c, NEW bs PROVE BlocksSay(c, bs)' <=> BlocksSay(c, bs)
  BY <1>4, <1>9, <1>10 DEF BlocksSay
<1>12. ASSUME NEW a, NEW c PROVE Quiet(a, c)' <=> Quiet(a, c)
  BY <1>1, <1>2, <1>3 DEF Quiet
<1> QED
  BY <1>1, <1>4, <1>7, <1>8, <1>11, <1>12

LEMMA PlacedUnchanged ==
  ASSUME toks' = toks,
         at' \in {"top", "done"} => TopPlaced(cur', blocks', pending_section', in_data'),
         at' = "block" => BlockPlaced(cur', blocks', block', pending_section', in_data'),
         at' = "done" => cur' > Len(toks)
  PROVE  Placed'
<1>1. ASSUME at' \in {"top", "done"}
      PROVE  TopPlaced(cur, blocks, pending_section, in_data)'
  BY <1>1, SaysUnchanged DEF TopPlaced
<1>2. ASSUME at' = "block" PROVE BlockPlaced(cur, blocks, block, pending_section, in_data)'
  BY <1>2, SaysUnchanged DEF BlockPlaced
<1> QED
  BY <1>1, <1>2 DEF Placed

LEMMA NextPlaced ==
  ASSUME TypeInv, Placed, [Next]_vars
  PROVE  Placed'
<1>1. CASE BlockMoves
  <2>1. BlockPlaced(cur', blocks, block', pending_section, in_data)
    BY <1>1, BlockMovesPlaced
  <2>2. UNCHANGED <<toks, at, blocks, pending_section, in_data>> /\ at = "block"
    BY <1>1 DEF BlockMoves, BlankLine, ParseByte, ParseWord, InstrNoOperand, InstrImm26,
                InstrLabel, InstrReg, InstrRegReg, InstrRegImm21, InstrRegLabel, Grow, AddInstr,
                AtSecondOperand, AtMnemonic, InBlock
  <2> QED
    BY <2>1, <2>2, PlacedUnchanged
<1>2. CASE TopMoves
  <2>1. TopPlaced(cur', blocks, pending_section, in_data)
    BY <1>2, TopMovesPlaced
  <2>2. UNCHANGED <<toks, at, blocks, block, pending_section, in_data>> /\ at = "top"
    BY <1>2 DEF TopMoves, SkipHead, ParseImport, ParseExport, AtStatement
  <2> QED
    BY <2>1, <2>2, PlacedUnchanged
<1>3. CASE HeadMoves
  <2>1. CASE BeginBlock
    <3>1. BlockPlaced(cur', blocks, block', pending_section, in_data)
      BY <1>3, <2>1, HeadMovesPlaced
    <3>2. UNCHANGED <<toks, blocks, pending_section, in_data>> /\ at' = "block"
      BY <2>1 DEF BeginBlock
    <3> QED
      BY <3>1, <3>2, PlacedUnchanged
  <2>2. CASE SectionDirective
    <3>1. TopPlaced(cur', blocks, pending_section', in_data)
      BY <1>3, <2>2, HeadMovesPlaced
    <3>2. UNCHANGED <<toks, blocks, in_data>> /\ at' = "top"
      BY <2>2 DEF SectionDirective, AtStatement
    <3> QED
      BY <3>1, <3>2, PlacedUnchanged
  <2>3. CASE DataOrText
    <3>1. TopPlaced(cur', blocks, pending_section, in_data')
      BY <1>3, <2>3, HeadMovesPlaced
    <3>2. UNCHANGED <<toks, blocks, pending_section>> /\ at' = "top"
      BY <2>3 DEF DataOrText, AtStatement
    <3> QED
      BY <3>1, <3>2, PlacedUnchanged
  <2> QED
    BY <1>3, <2>1, <2>2, <2>3 DEF HeadMoves
<1>4. CASE EndBlock
  <2>1. TopPlaced(cur, blocks', NoSection, in_data)
    BY <1>4, EndBlockPlaced
  <2>2. UNCHANGED <<toks, cur, in_data>> /\ at' = "top" /\ pending_section' = NoSection
    BY <1>4 DEF EndBlock
  <2> QED
    BY <2>1, <2>2, PlacedUnchanged
<1>5. CASE Stops
  <2>1. UNCHANGED <<toks, cur, blocks, block, pending_section, in_data>>
    BY <1>5 DEF Stops, Halted, vars
  <2>2. \/ at' = "done" /\ at = "top" /\ cur > Len(toks)
        \/ at' \in {"error", "crash"}
        \/ at' = at
    BY <1>5 DEF Stops, Halted, vars
  <2> QED
    BY <2>1, <2>2, PlacedUnchanged DEF Placed
<1> QED
  BY <1>1, <1>2, <1>3, <1>4, <1>5, NextCases

LEMMA InitPlaced ==
  ASSUME Init
  PROVE  Placed
<1>1. cur = 1 /\ at = "top" /\ blocks = << >> /\ pending_section = NoSection /\ in_data = FALSE
  BY DEF Init, Called
<1>2. Below(1) = {}
  BY DEF Below
<1>3. BlocksSay(1, << >>)
  BY <1>2, FS_EmptySet DEF BlocksSay
<1>4. LastBefore(1, {"section"}) = 0 /\ LastBefore(1, {"data", "text"}) = 0
      /\ PreviousDeclaration(1) = 0
  <2>1. 1 \in Nat /\ 0 \in 0 .. 1 - 1 /\ \A q \in 0 + 1 .. 1 - 1 : FALSE
    OBVIOUS
  <2> QED
    BY <2>1, LastBeforeIs, PreviousDeclarationIs
<1>5. SectionSays(1, NoSection) /\ DataSays(1, FALSE)
  BY <1>4 DEF SectionSays, DataSays
<1> QED
  BY <1>1, <1>3, <1>5 DEF Placed, TopPlaced

LEMMA SpecPlaced == Spec => [](TypeInv /\ Placed)
<1>1. Init => TypeInv /\ Placed
  BY InitTypeInv, InitPlaced
<1>2. TypeInv /\ Placed /\ [Next]_vars => (TypeInv /\ Placed)'
  BY NextTypeInv, NextPlaced
<1> QED
  BY <1>1, <1>2, PTL DEF Spec

(* At the end the labels behind the parser are all labels of the file.     *)
LEMMA AtEnd ==
  ASSUME TypeInv, Placed, at = "done"
  PROVE  /\ Declarations = Below(cur)
         /\ Len(blocks) = Cardinality(Declarations)
         /\ \A p \in Declarations : BlockSays(p, BlockOf(p)) /\ p \in Nat \ {0}
<1>1. /\ TokenList /\ cur \in 1 .. Len(toks) + 1 /\ Len(toks) \in Nat
      /\ DOMAIN toks = 1 .. Len(toks)
      /\ \A q \in Int : Type(q) # "NULL" <=> q \in 1 .. Len(toks)
  BY TokenFacts DEF TypeInv, ParserTypeOK
<1>2. cur = Len(toks) + 1
  BY <1>1 DEF Placed
<1>3. Type(cur) = "NULL"
  BY <1>1, <1>2
<1>4. BlocksSay(cur, blocks)
  BY <1>3 DEF Placed, TopPlaced
<1>5. Declarations = Below(cur)
  <2>1. 1 .. cur - 1 = DOMAIN toks
    BY <1>1, <1>2
  <2> QED
    BY <2>1 DEF Declarations, Positions, Below
<1> QED
  BY <1>1, <1>4, <1>5 DEF BlocksSay, BlockOf, Below

(* For a file of any length that is accepted: every "name:" in it has      *)
(* begun a block, in order, and nothing else has.                          *)
THEOREM LabelsBeginBlocks == Spec => []EveryLabelBeginsABlock
<1>1. TypeInv /\ Placed => EveryLabelBeginsABlock
  BY AtEnd DEF EveryLabelBeginsABlock, BlockSays
<1> QED
  BY <1>1, SpecPlaced, PTL

(* And every block is in the section that the directives before its label  *)
(* say, whatever stands between them.                                      *)
THEOREM SectionsAreByPosition == Spec => []SectionsByPosition
<1>1. TypeInv /\ Placed => SectionsByPosition
  <2> SUFFICES ASSUME TypeInv, Placed, at = "done", NEW p \in Declarations
               PROVE  LET s == LastBefore(p, {"section"})
                          d == LastBefore(p, {"data", "text"})
                          named == s > PreviousDeclaration(p)
                      IN  /\ BlockOf(p).section = IF named THEN Text(s + 2) ELSE NoSection
                          /\ BlockOf(p).in_data = (~named /\ d > 0 /\ Text(d + 1) = "data")
    BY DEF SectionsByPosition
  <2>1. BlockSays(p, BlockOf(p))
    BY AtEnd
  <2>2. SectionSays(p, BlockOf(p).section)
    BY <2>1 DEF BlockSays
  <2>3. PICK data \in BOOLEAN :
          DataSays(p, data) /\ BlockOf(p).in_data = (BlockOf(p).section = NoSection /\ data)
    BY <2>1 DEF BlockSays
  <2> DEFINE named == LastBefore(p, {"section"}) > PreviousDeclaration(p)
             d == LastBefore(p, {"data", "text"})
  <2>4. /\ BlockOf(p).section = IF named THEN Text(LastBefore(p, {"section"}) + 2) ELSE NoSection
        /\ named <=> BlockOf(p).section # NoSection
    BY <2>2 DEF SectionSays
  <2>5. data = (d > 0 /\ Text(d + 1) = "data")
    BY <2>3 DEF DataSays
  <2>6. BlockOf(p).in_data = (~named /\ d > 0 /\ Text(d + 1) = "data")
    BY <2>3, <2>4, <2>5
  <2> QED
    BY <2>4, <2>6
<1> QED
  BY <1>1, SpecPlaced, PTL

---------------------------------------------------------------------------
(* Operands.                                                               *)

(* Tokens are counted piece by piece.                                      *)
LEMMA TokensAdd ==
  ASSUME NEW a \in Int, NEW b \in Int, NEW c \in Int, a <= b, b <= c, NEW types
  PROVE  /\ Cardinality(Tokens(a, c, types))
              = Cardinality(Tokens(a, b, types)) + Cardinality(Tokens(b, c, types))
         /\ Cardinality(Tokens(a, b, types)) \in Nat /\ Cardinality(Tokens(b, c, types)) \in Nat
<1> DEFINE S == Tokens(a, b, types)
           T == Tokens(b, c, types)
<1>1. S \in SUBSET (a .. b - 1) /\ T \in SUBSET (b .. c - 1) /\ b - 1 \in Int /\ c - 1 \in Int
  BY DEF Tokens
<1>2. Tokens(a, c, types) = S \cup T
  <2>1. ASSUME NEW q \in Int PROVE q \in a .. c - 1 <=> q \in a .. b - 1 \/ q \in b .. c - 1
    OBVIOUS
  <2>2. ASSUME NEW q \in Int PROVE q \in Tokens(a, c, types) <=> q \in S \cup T
    BY <2>1 DEF Tokens
  <2>3. Tokens(a, c, types) \in SUBSET Int /\ S \cup T \in SUBSET Int
    BY DEF Tokens
  <2> QED
    BY <2>2, <2>3
<1>3. S \cap T = {}
  BY <1>1
<1> HIDE DEF S, T
<1>4. /\ IsFiniteSet(S) /\ Cardinality(S) \in Nat
      /\ IsFiniteSet(T) /\ Cardinality(T) \in Nat
  BY <1>1, FiniteWithin
<1>5. Cardinality(S \cup T) = Cardinality(S) + Cardinality(T)
  BY <1>3, <1>4, DisjointSum
<1> QED
  BY <1>2, <1>4, <1>5 DEF S, T

LEMMA TokensOne ==
  ASSUME NEW a \in Int, NEW types
  PROVE  Cardinality(Tokens(a, a + 1, types)) = IF Type(a) \in types THEN 1 ELSE 0
<1>1. Tokens(a, a + 1, types) = IF Type(a) \in types THEN {a} ELSE {}
  <2>1. \A q \in a .. (a + 1) - 1 : q = a
    OBVIOUS
  <2>2. a \in a .. (a + 1) - 1
    OBVIOUS
  <2> QED
    BY <2>1, <2>2 DEF Tokens
<1> QED
  BY <1>1, FS_EmptySet, FS_Singleton

(* Between two tokens there is neither a number nor a register.            *)
Plain(from, to) == \A q \in from .. to - 1 : ~IsNumber(q) /\ Type(q) # "REGISTER"

LEMMA PlainAdds ==
  ASSUME NEW a \in Int, NEW b \in Int, NEW c \in Int, a <= b, b <= c, Plain(a, b), Plain(b, c)
  PROVE  Plain(a, c)
<1>1. \A q \in a .. c - 1 : q \in a .. b - 1 \/ q \in b .. c - 1
  OBVIOUS
<1> QED
  BY <1>1 DEF Plain

LEMMA PlainOne ==
  ASSUME NEW a \in Int, Type(a) \in MarkTypes \union SymbolTypes
  PROVE  Plain(a, a + 1)
<1>1. \A q \in a .. (a + 1) - 1 : q = a
  OBVIOUS
<1>2. Type(a) \notin NumberTypes \union {"REGISTER"}
  BY DEF MarkTypes, SymbolTypes, NumberTypes
<1> QED
  BY <1>1, <1>2 DEF Plain, IsNumber

LEMMA PlainCounts ==
  ASSUME NEW a \in Int, NEW b \in Int, Plain(a, b)
  PROVE  /\ Cardinality(Tokens(a, b, NumberTypes)) = 0
         /\ Cardinality(Tokens(a, b, {"REGISTER"})) = 0
<1>1. Tokens(a, b, NumberTypes) = {} /\ Tokens(a, b, {"REGISTER"}) = {}
  BY DEF Tokens, Plain, IsNumber
<1> QED
  BY <1>1, FS_EmptySet

(* A comma-separated list is its items and commas.                         *)
LEMMA AfterItemsAre ==
  ASSUME TokenList, NEW p \in 1 .. Len(toks) + 1, NEW types \in SUBSET WordTypes
  PROVE  LET n == Items(p, types)
             a == AfterItems(p, types)
         IN  /\ n \in Nat
             /\ \A k \in 1 .. n : p + 2 * (k - 1) \in p .. a - 1 /\ Type(p + 2 * (k - 1)) \in types
             /\ \A q \in p .. a - 1 :
                  Type(q) = "COMMA" \/ \E k \in 1 .. n : q = p + 2 * (k - 1)
<1> DEFINE n == Items(p, types)
           a == AfterItems(p, types)
<1>1. Len(toks) \in Nat
  BY TokenFacts
<1>2. p \in Nat \ {0} /\ "NULL" \notin types
  BY <1>1 DEF WordTypes, NumberTypes, SymbolTypes
<1>3. n \in 0 .. Len(toks) /\ ItemCount(p, types, n)
  BY <1>2, ItemsExist
<1>4. n \in Nat
  BY <1>1, <1>3
<1>5. a = IF n = 0 THEN p
          ELSE IF Type(p + 2 * n - 1) = "COMMA" THEN p + 2 * n ELSE p + 2 * n - 1
  BY DEF AfterItems
<1> HIDE DEF n, a
<1>6. /\ \A k \in 0 .. n - 1 : Type(p + 2 * k) \in types
      /\ \A k \in 0 .. n - 2 : Type(p + 2 * k + 1) = "COMMA"
  BY <1>3 DEF ItemCount
<1>7. ASSUME NEW k \in 1 .. n
      PROVE  p + 2 * (k - 1) \in p .. a - 1 /\ Type(p + 2 * (k - 1)) \in types
  <2>1. k - 1 \in 0 .. n - 1 /\ n # 0 /\ k \in Int
    BY <1>4
  <2>2. a = p + 2 * n \/ a = p + 2 * n - 1
    BY <1>5, <2>1
  <2>3. p + 2 * (k - 1) \in p .. a - 1
    BY <1>2, <1>4, <2>1, <2>2
  <2> QED
    BY <1>6, <2>1, <2>3
<1>8. ASSUME NEW q \in p .. a - 1, Type(q) # "COMMA"
      PROVE  \E k \in 1 .. n : q = p + 2 * (k - 1)
  <2>1. n # 0
    BY <1>2, <1>5
  <2>2. a \in Int /\ a <= p + 2 * n /\ (a = p + 2 * n => Type(p + 2 * n - 1) = "COMMA")
    BY <1>2, <1>4, <1>5, <2>1
  <2>3. PICK m \in Nat : q - p = 2 * m \/ q - p = 2 * m + 1
    <3>1. \A d \in Nat : \E m \in Nat : d = 2 * m \/ d = 2 * m + 1
      <4> TAKE d \in Nat
      <4>1. d \div 2 \in Nat /\ (d = 2 * (d \div 2) \/ d = 2 * (d \div 2) + 1)
        OBVIOUS
      <4> QED
        BY <4>1
    <3>2. q - p \in Nat
      BY <1>2, <2>2
    <3> QED
      BY <3>1, <3>2
  <2>4. CASE q - p = 2 * m
    <3>1. m + 1 \in 1 .. n /\ q = p + 2 * ((m + 1) - 1)
      BY <1>2, <1>4, <2>2, <2>4
    <3> QED
      BY <3>1
  <2>5. CASE q - p = 2 * m + 1
    <3>1. CASE m \in 0 .. n - 2
      <4>1. q = p + 2 * m + 1
        BY <1>2, <2>2, <2>5
      <4> QED
        BY <1>6, <1>8, <3>1, <4>1
    <3>2. CASE m \notin 0 .. n - 2
      <4>1. q = p + 2 * n - 1 /\ a = p + 2 * n
        BY <1>2, <1>4, <2>2, <2>5, <3>2
      <4> QED
        BY <1>8, <2>2, <4>1
    <3> QED
      BY <3>1, <3>2
  <2> QED
    BY <2>3, <2>4, <2>5
<1> QED
  BY <1>4, <1>7, <1>8 DEF n, a

(* So its tokens of a type are its items of that type.                     *)
LEMMA ItemsCount ==
  ASSUME TokenList, NEW p \in 1 .. Len(toks) + 1, NEW types \in SUBSET WordTypes,
         NEW wanted, "COMMA" \notin wanted
  PROVE  LET J == {k \in 1 .. Items(p, types) : Type(p + 2 * (k - 1)) \in wanted}
         IN  Cardinality(Tokens(p, AfterItems(p, types), wanted)) = Cardinality(J)
<1> DEFINE n == Items(p, types)
           a == AfterItems(p, types)
           J == {k \in 1 .. n : Type(p + 2 * (k - 1)) \in wanted}
           T == Tokens(p, a, wanted)
           f == [k \in J |-> p + 2 * (k - 1)]
<1>1. /\ n \in Nat
      /\ \A k \in 1 .. n : p + 2 * (k - 1) \in p .. a - 1 /\ Type(p + 2 * (k - 1)) \in types
      /\ \A q \in p .. a - 1 : Type(q) = "COMMA" \/ \E k \in 1 .. n : q = p + 2 * (k - 1)
  BY AfterItemsAre
<1>2. p \in Int
  BY TokenFacts
<1> HIDE DEF n, a
<1>3. f \in [J -> T]
  BY <1>1 DEF Tokens
<1>4. ASSUME NEW x \in J, NEW y \in J, f[x] = f[y] PROVE x = y
  <2>1. p + 2 * (x - 1) = p + 2 * (y - 1) /\ x \in Int /\ y \in Int
    BY <1>1, <1>4
  <2> QED
    BY <1>2, <2>1
<1>5. ASSUME NEW q \in T PROVE \E x \in J : f[x] = q
  <2>1. q \in p .. a - 1 /\ Type(q) \in wanted
    BY DEF Tokens
  <2>2. PICK k \in 1 .. n : q = p + 2 * (k - 1)
    BY <1>1, <2>1
  <2> QED
    BY <2>1, <2>2
<1>6. IsFiniteSet(J)
  <2>1. J \in SUBSET (1 .. n) /\ 1 \in Int /\ n \in Int
    BY <1>1
  <2> QED
    BY <2>1, FiniteWithin
<1>7. \A x \in J, y \in J : f[x] = f[y] => x = y
  BY <1>4
<1>8. \A q \in T : \E x \in J : f[x] = q
  BY <1>5
<1> HIDE DEF J, T, f
<1>9. Cardinality(T) = Cardinality(J)
  BY <1>3, <1>6, <1>7, <1>8, SameSize
<1> QED
  BY <1>9 DEF J, T, n, a
(* One more block adds its own places.                                     *)
LEMMA NumberedAppend ==
  ASSUME NEW n \in Nat, NEW F, DOMAIN F = 1 .. n, NEW G, DOMAIN G = 1 .. n + 1,
         \A k \in 1 .. n : G[k] = F[k] /\ IsFiniteSet(F[k]), IsFiniteSet(G[n + 1])
  PROVE  /\ Cardinality(Numbered(G)) = Cardinality(Numbered(F)) + Cardinality(G[n + 1])
         /\ Cardinality(Numbered(F)) \in Nat /\ Cardinality(G[n + 1]) \in Nat
<1> DEFINE f == [k \in 1 .. n |-> {k} \X F[k]]
           T == {{k} \X F[k] : k \in 1 .. n}
           O == {n + 1} \X G[n + 1]
<1>1. IsFiniteSet(1 .. n)
  BY FS_Interval
<1>2. f \in [1 .. n -> T] /\ \A t \in T : \E k \in 1 .. n : f[k] = t
  OBVIOUS
<1>3. \A t \in T : IsFiniteSet(t)
  <2>1. ASSUME NEW k \in 1 .. n PROVE IsFiniteSet({k} \X F[k])
    BY TaggedSize
  <2> QED
    BY <2>1
<1>4. UNION T = Numbered(F)
  BY DEF Numbered
<1>5. IsFiniteSet(O) /\ Cardinality(O) = Cardinality(G[n + 1])
  BY TaggedSize
<1>6. Numbered(G) = Numbered(F) \cup O
  <2>1. 1 .. n + 1 = (1 .. n) \cup {n + 1}
    OBVIOUS
  <2>2. Numbered(G) = (UNION {{k} \X G[k] : k \in 1 .. n}) \cup O
    BY <2>1 DEF Numbered
  <2>3. {{k} \X G[k] : k \in 1 .. n} = {{k} \X F[k] : k \in 1 .. n}
    OBVIOUS
  <2> QED
    BY <1>4, <2>2, <2>3
<1>7. Numbered(F) \cap O = {}
  <2>1. \A x \in Numbered(F) : x[1] \in 1 .. n
    BY DEF Numbered
  <2>2. \A x \in O : x[1] = n + 1
    OBVIOUS
  <2>3. n + 1 \notin 1 .. n
    OBVIOUS
  <2> QED
    BY <2>1, <2>2, <2>3
<1> HIDE DEF f, T, O
<1>8. IsFiniteSet(T)
  BY <1>1, <1>2, FiniteImage
<1>9. IsFiniteSet(Numbered(F))
  BY <1>3, <1>4, <1>8, FS_UNION
<1>10. Cardinality(Numbered(G)) = Cardinality(Numbered(F)) + Cardinality(O)
  BY <1>5, <1>6, <1>7, <1>9, DisjointSum
<1> QED
  BY <1>5, <1>9, <1>10, FS_CardinalityType

LEMMA OfKindAppend ==
  ASSUME NEW S, NEW s \in Seq(S), NEW i \in S, NEW kinds
  PROVE  /\ IsFiniteSet(OfKind(s, kinds)) /\ Cardinality(OfKind(s, kinds)) \in Nat
         /\ Cardinality(OfKind(Append(s, i), kinds))
              = Cardinality(OfKind(s, kinds)) + IF i.kind \in kinds THEN 1 ELSE 0
<1> DEFINE n == Len(s)
           A == OfKind(s, kinds)
           B == OfKind(Append(s, i), kinds)
<1>1. n \in Nat /\ DOMAIN s = 1 .. n /\ DOMAIN Append(s, i) = 1 .. n + 1
      /\ (\A j \in 1 .. n : Append(s, i)[j] = s[j]) /\ Append(s, i)[n + 1] = i
  OBVIOUS
<1> HIDE DEF n
<1>2. A \in SUBSET (1 .. n) /\ 1 \in Int /\ n \in Int
  BY <1>1 DEF OfKind
<1>3. IsFiniteSet(A) /\ Cardinality(A) \in Nat
  BY <1>2, FiniteWithin
<1>4. B = IF i.kind \in kinds THEN A \cup {n + 1} ELSE A
  <2>1. \A j : j \in 1 .. n + 1 <=> j \in 1 .. n \/ j = n + 1
    BY <1>1
  <2>2. n + 1 \notin 1 .. n
    BY <1>1
  <2> QED
    BY <1>1, <2>1, <2>2 DEF OfKind
<1>5. n + 1 \notin A
  BY <1>1, <1>2
<1> HIDE DEF A, B
<1>6. Cardinality(A \cup {n + 1}) = Cardinality(A) + 1
  BY <1>3, <1>5, FS_AddElement
<1>7. Cardinality(B) = Cardinality(A) + IF i.kind \in kinds THEN 1 ELSE 0
  BY <1>3, <1>4, <1>6
<1> QED
  BY <1>3, <1>7 DEF A, B

LEMMA LiteralsConcat ==
  ASSUME NEW S, NEW s \in Seq(S), NEW t \in Seq(S)
  PROVE  /\ IsFiniteSet(Values(s)) /\ Cardinality(Values(s)) \in Nat
         /\ IsFiniteSet(Values(t)) /\ Cardinality(Values(t)) \in Nat
         /\ Cardinality(Values(s \o t)) = Cardinality(Values(s)) + Cardinality(Values(t))
<1> DEFINE m == Len(s)
           n == Len(t)
           A == Values(s)
           B == Values(t)
           C == {m + j : j \in B}
           f == [j \in B |-> m + j]
<1>1. /\ m \in Nat /\ n \in Nat /\ DOMAIN s = 1 .. m /\ DOMAIN t = 1 .. n
      /\ DOMAIN (s \o t) = 1 .. m + n
      /\ (\A j \in 1 .. m : (s \o t)[j] = s[j]) /\ (\A j \in 1 .. n : (s \o t)[m + j] = t[j])
  OBVIOUS
<1> HIDE DEF m, n
<1>2. A \in SUBSET (1 .. m) /\ B \in SUBSET (1 .. n) /\ 1 \in Int /\ m \in Int /\ n \in Int
  BY <1>1 DEF Values
<1>3. IsFiniteSet(A) /\ Cardinality(A) \in Nat /\ IsFiniteSet(B) /\ Cardinality(B) \in Nat
  BY <1>2, FiniteWithin
<1>4. IsFiniteSet(C) /\ Cardinality(C) = Cardinality(B)
  <2>1. f \in [B -> C]
    OBVIOUS
  <2>2. ASSUME NEW x \in B, NEW y \in B, f[x] = f[y] PROVE x = y
    <3>1. m + x = m + y /\ x \in Int /\ y \in Int
      BY <1>2, <2>2
    <3> QED
      BY <1>2, <3>1
  <2>3. \A c \in C : \E x \in B : f[x] = c
    OBVIOUS
  <2>4. \A x \in B, y \in B : f[x] = f[y] => x = y
    BY <2>2
  <2> HIDE DEF f, B, C
  <2> QED
    BY <1>3, <2>1, <2>3, <2>4, SameSize
<1>5. Values(s \o t) = A \cup C
  <2>1. ASSUME NEW j \in Int PROVE j \in Values(s \o t) <=> j \in A \cup C
    <3>1. CASE j \in 1 .. m
      <4>1. j \in 1 .. m + n /\ \A x \in 1 .. n : m + x # j
        BY <1>1, <3>1
      <4> QED
        BY <1>1, <1>2, <3>1, <4>1 DEF Values
    <3>2. CASE j \in m + 1 .. m + n
      <4>1. PICK x \in 1 .. n : j = m + x
        <5>1. j - m \in 1 .. n /\ j = m + (j - m)
          BY <1>1, <3>2
        <5> QED
          BY <5>1
      <4>2. j \in 1 .. m + n /\ j \notin 1 .. m /\ \A y \in 1 .. n : m + y = m + x => y = x
        BY <1>1, <3>2
      <4>3. j \in C <=> x \in B
        BY <1>2, <4>1, <4>2
      <4>4. x \in B <=> (s \o t)[j].symbol = NoLabel
        BY <1>1, <4>1 DEF Values
      <4>5. j \in Values(s \o t) <=> (s \o t)[j].symbol = NoLabel
        BY <1>1, <4>2 DEF Values
      <4> QED
        BY <1>2, <4>2, <4>3, <4>4, <4>5
    <3>3. CASE j \notin 1 .. m + n
      <4>1. j \notin 1 .. m /\ \A x \in 1 .. n : m + x # j
        BY <1>1, <3>3
      <4> QED
        BY <1>1, <1>2, <3>3, <4>1 DEF Values
    <3> QED
      BY <1>1, <3>1, <3>2, <3>3
  <2>2. Values(s \o t) \in SUBSET Int /\ A \cup C \in SUBSET Int
    BY <1>1, <1>2 DEF Values
  <2> QED
    BY <2>1, <2>2
<1>6. A \cap C = {}
  <2>1. \A j \in 1 .. m, x \in 1 .. n : j # m + x
    BY <1>1
  <2> QED
    BY <1>2, <2>1
<1> HIDE DEF A, B, C
<1>7. Cardinality(A \cup C) = Cardinality(A) + Cardinality(C)
  BY <1>3, <1>4, <1>6, DisjointSum
<1> QED
  BY <1>3, <1>4, <1>5, <1>7 DEF A, B

(* How many places a block has.                                            *)
LEMMA BlockCount ==
  ASSUME NEW b \in AsmBlock
  PROVE  LET lits == Values(b.words)
             imms == OfKind(b.instrs, {"REGIMM21", "IMM26"})
             reg1 == OfKind(b.instrs, {"REG", "REGREG", "REGIMM21", "REGLABEL"})
             reg2 == OfKind(b.instrs, {"REGREG"})
         IN  /\ IsFiniteSet(NumbersOf(b)) /\ IsFiniteSet(RegistersOf(b))
             /\ Cardinality(NumbersOf(b)) = Len(b.data) + Cardinality(lits) + Cardinality(imms)
             /\ Cardinality(RegistersOf(b)) = Cardinality(reg1) + Cardinality(reg2)
<1> DEFINE lits == Values(b.words)
           imms == OfKind(b.instrs, {"REGIMM21", "IMM26"})
           reg1 == OfKind(b.instrs, {"REG", "REGREG", "REGIMM21", "REGLABEL"})
           reg2 == OfKind(b.instrs, {"REGREG"})
           D == {"data"} \X DOMAIN b.data
           W == {"words"} \X lits
           I == {"imm"} \X imms
           R == {"reg1"} \X reg1
           Q == {"reg2"} \X reg2
<1>1. b.data \in Seq(Nat) /\ b.words \in Seq(AsmWord) /\ b.instrs \in Seq(Instruction)
  BY DEF AsmBlock
<1>2. IsFiniteSet(DOMAIN b.data) /\ Cardinality(DOMAIN b.data) = Len(b.data)
      /\ Len(b.data) \in Nat
  <2>1. DOMAIN b.data = 1 .. Len(b.data) /\ Len(b.data) \in Nat
    BY <1>1
  <2> DEFINE n == Len(b.data)
  <2> HIDE DEF n
  <2>2. n \in Nat => IsFiniteSet(1 .. n) /\ Cardinality(1 .. n) = n
    <3> SUFFICES ASSUME n \in Nat PROVE IsFiniteSet(1 .. n) /\ Cardinality(1 .. n) = n
      OBVIOUS
    <3>1. IsFiniteSet(1 .. n) /\ Cardinality(1 .. n) = IF 1 > n THEN 0 ELSE n - 1 + 1
      BY FS_Interval
    <3> QED
      BY <3>1
  <2> QED
    BY <2>1, <2>2 DEF n
<1>3. IsFiniteSet(lits) /\ Cardinality(lits) \in Nat
  BY <1>1, LiteralsConcat
<1>4. \E i : i \in Instruction
  <2> DEFINE i == [kind |-> "REG", opcode |-> 0, reg1 |-> 0, reg2 |-> 0, imm |-> 0,
                   label |-> NoLabel]
  <2>1. "REG" \in FixupKinds \union OperandKinds /\ 0 \in 0 .. RegSpan - 1 /\ 0 \in Nat
    BY WidthAssumption DEF FixupKinds, OperandKinds
  <2>2. i \in Instruction
    BY <2>1 DEF Instruction
  <2> QED
    BY <2>2
<1>5. \A kinds : IsFiniteSet(OfKind(b.instrs, kinds)) /\ Cardinality(OfKind(b.instrs, kinds)) \in Nat
  BY <1>1, <1>4, OfKindAppend
<1>6. /\ IsFiniteSet(imms) /\ Cardinality(imms) \in Nat
      /\ IsFiniteSet(reg1) /\ Cardinality(reg1) \in Nat
      /\ IsFiniteSet(reg2) /\ Cardinality(reg2) \in Nat
  BY <1>5
<1>7. NumbersOf(b) = (D \cup W) \cup I /\ RegistersOf(b) = R \cup Q
  BY DEF NumbersOf, RegistersOf
<1>8. D \cap W = {} /\ (D \cup W) \cap I = {} /\ R \cap Q = {}
  <2>1. (\A x \in D : x[1] = "data") /\ (\A x \in W : x[1] = "words") /\ (\A x \in I : x[1] = "imm")
        /\ (\A x \in R : x[1] = "reg1") /\ (\A x \in Q : x[1] = "reg2")
    OBVIOUS
  <2> HIDE DEF D, W, I, R, Q
  <2> QED
    BY <2>1
<1>9. /\ IsFiniteSet(D) /\ Cardinality(D) = Len(b.data)
      /\ IsFiniteSet(W) /\ Cardinality(W) = Cardinality(lits)
      /\ IsFiniteSet(I) /\ Cardinality(I) = Cardinality(imms)
      /\ IsFiniteSet(R) /\ Cardinality(R) = Cardinality(reg1)
      /\ IsFiniteSet(Q) /\ Cardinality(Q) = Cardinality(reg2)
  <2> HIDE DEF lits, imms, reg1, reg2
  <2> QED
    BY <1>2, <1>3, <1>6, TaggedSize
<1> HIDE DEF D, W, I, R, Q
<1>10. /\ IsFiniteSet(D \cup W)
       /\ Cardinality(D \cup W) = Cardinality(D) + Cardinality(W)
  BY <1>8, <1>9, DisjointSum
<1>11. /\ IsFiniteSet((D \cup W) \cup I)
       /\ Cardinality((D \cup W) \cup I) = Cardinality(D \cup W) + Cardinality(I)
  BY <1>8, <1>9, <1>10, DisjointSum
<1>12. IsFiniteSet(R \cup Q) /\ Cardinality(R \cup Q) = Cardinality(R) + Cardinality(Q)
  BY <1>8, <1>9, DisjointSum
<1> HIDE DEF lits, imms, reg1, reg2
<1>13. Cardinality(NumbersOf(b)) = Len(b.data) + Cardinality(lits) + Cardinality(imms)
  BY <1>7, <1>9, <1>10, <1>11
<1>14. Cardinality(RegistersOf(b)) = Cardinality(reg1) + Cardinality(reg2)
  BY <1>7, <1>9, <1>12
<1> QED
  BY <1>7, <1>11, <1>12, <1>13, <1>14 DEF lits, imms, reg1, reg2
(* What an instruction adds to a block's places.                           *)
LEMMA AddInstrCounts ==
  ASSUME NEW b \in AsmBlock, NEW c \in AsmBlock, NEW i,
         c.data = b.data, c.words = b.words, c.instrs = Append(b.instrs, i)
  PROVE  /\ Cardinality(NumbersOf(c)) = Cardinality(NumbersOf(b))
              + IF i.kind \in {"REGIMM21", "IMM26"} THEN 1 ELSE 0
         /\ Cardinality(RegistersOf(c)) = Cardinality(RegistersOf(b))
              + (IF i.kind \in {"REG", "REGREG", "REGIMM21", "REGLABEL"} THEN 1 ELSE 0)
              + IF i.kind \in {"REGREG"} THEN 1 ELSE 0
<1> DEFINE lits == Cardinality(Values(b.words))
           imms == Cardinality(OfKind(b.instrs, {"REGIMM21", "IMM26"}))
           reg1 == Cardinality(OfKind(b.instrs, {"REG", "REGREG", "REGIMM21", "REGLABEL"}))
           reg2 == Cardinality(OfKind(b.instrs, {"REGREG"}))
           more == IF i.kind \in {"REGIMM21", "IMM26"} THEN 1 ELSE 0
           one  == IF i.kind \in {"REG", "REGREG", "REGIMM21", "REGLABEL"} THEN 1 ELSE 0
           two  == IF i.kind \in {"REGREG"} THEN 1 ELSE 0
           n    == Len(b.data)
<1>1. /\ b.data \in Seq(Nat) /\ b.words \in Seq(AsmWord) /\ b.instrs \in Seq(Instruction)
      /\ c.instrs \in Seq(Instruction)
  BY DEF AsmBlock
<1>2. i \in Instruction
  <2>1. Len(b.instrs) \in Nat /\ Len(c.instrs) = Len(b.instrs) + 1
        /\ c.instrs[Len(b.instrs) + 1] = i
    BY <1>1
  <2>2. c.instrs[Len(c.instrs)] \in Instruction
    BY <1>1, <2>1
  <2> QED
    BY <2>1, <2>2
<1>3. lits \in Nat /\ n \in Nat
  BY <1>1, LiteralsConcat
<1>4. /\ imms \in Nat /\ reg1 \in Nat /\ reg2 \in Nat
      /\ Cardinality(OfKind(c.instrs, {"REGIMM21", "IMM26"})) = imms + more
      /\ Cardinality(OfKind(c.instrs, {"REG", "REGREG", "REGIMM21", "REGLABEL"})) = reg1 + one
      /\ Cardinality(OfKind(c.instrs, {"REGREG"})) = reg2 + two
  BY <1>2, <1>1, OfKindAppend
<1>5. /\ Cardinality(NumbersOf(b)) = n + lits + imms
      /\ Cardinality(RegistersOf(b)) = reg1 + reg2
  BY BlockCount
<1>6. /\ Cardinality(NumbersOf(c)) = n + lits + (imms + more)
      /\ Cardinality(RegistersOf(c)) = (reg1 + one) + (reg2 + two)
  BY <1>4, BlockCount
<1>7. more \in Nat /\ one \in Nat /\ two \in Nat
  OBVIOUS
<1> HIDE DEF lits, imms, reg1, reg2, more, one, two, n
<1>8. /\ Cardinality(NumbersOf(c)) = Cardinality(NumbersOf(b)) + more
      /\ Cardinality(RegistersOf(c)) = Cardinality(RegistersOf(b)) + one + two
  BY <1>3, <1>4, <1>5, <1>6, <1>7
<1> QED
  BY <1>8 DEF more, one, two

(* And bytes and words.                                                    *)
LEMMA GrowCounts ==
  ASSUME NEW b \in AsmBlock, NEW c \in AsmBlock, NEW bytes \in Seq(Nat), NEW ws \in Seq(AsmWord),
         c.data = b.data \o bytes, c.words = b.words \o ws, c.instrs = b.instrs
  PROVE  /\ Cardinality(NumbersOf(c))
              = Cardinality(NumbersOf(b)) + Len(bytes) + Cardinality(Values(ws))
         /\ Cardinality(RegistersOf(c)) = Cardinality(RegistersOf(b))
<1> DEFINE lits == Cardinality(Values(b.words))
           more == Cardinality(Values(ws))
           imms == Cardinality(OfKind(b.instrs, {"REGIMM21", "IMM26"}))
           n    == Len(b.data)
           m    == Len(bytes)
<1>1. b.data \in Seq(Nat) /\ b.words \in Seq(AsmWord) /\ b.instrs \in Seq(Instruction)
  BY DEF AsmBlock
<1>2. /\ lits \in Nat /\ more \in Nat
      /\ Cardinality(Values(c.words)) = lits + more
  BY <1>1, LiteralsConcat
<1>3. n \in Nat /\ m \in Nat /\ Len(c.data) = n + m
  BY <1>1
<1>4. /\ Cardinality(NumbersOf(b)) = n + lits + imms
      /\ Cardinality(NumbersOf(c)) = (n + m) + (lits + more) + imms
      /\ Cardinality(RegistersOf(c)) = Cardinality(RegistersOf(b))
  BY <1>2, <1>3, BlockCount
<1>5. imms \in Nat
  <2>1. Cardinality(NumbersOf(b)) \in Nat /\ IsFiniteSet(OfKind(b.instrs, {"REGIMM21", "IMM26"}))
    <3>1. OfKind(b.instrs, {"REGIMM21", "IMM26"}) \in SUBSET (1 .. Len(b.instrs))
          /\ 1 \in Int /\ Len(b.instrs) \in Int
      BY <1>1 DEF OfKind
    <3>2. IsFiniteSet(OfKind(b.instrs, {"REGIMM21", "IMM26"}))
      BY <3>1, FiniteWithin
    <3> QED
      BY <3>2, BlockCount, FS_CardinalityType
  <2> QED
    BY <2>1, FS_CardinalityType
<1> HIDE DEF lits, more, imms, n, m
<1>6. Cardinality(NumbersOf(c)) = Cardinality(NumbersOf(b)) + m + more
  BY <1>2, <1>3, <1>4, <1>5
<1> QED
  BY <1>4, <1>6 DEF m, more

(* The places of a program with one more block.                            *)
LEMMA PlacesAppend ==
  ASSUME NEW bs \in Seq(AsmBlock), NEW b \in AsmBlock
  PROVE  /\ Cardinality(NumberPlaces(Append(bs, b)))
              = Cardinality(NumberPlaces(bs)) + Cardinality(NumbersOf(b))
         /\ Cardinality(RegisterPlaces(Append(bs, b)))
              = Cardinality(RegisterPlaces(bs)) + Cardinality(RegistersOf(b))
         /\ Cardinality(NumberPlaces(bs)) \in Nat /\ Cardinality(NumbersOf(b)) \in Nat
         /\ Cardinality(RegisterPlaces(bs)) \in Nat /\ Cardinality(RegistersOf(b)) \in Nat
<1> DEFINE n == Len(bs)
           F == [k \in DOMAIN bs |-> NumbersOf(bs[k])]
           G == [k \in DOMAIN Append(bs, b) |-> NumbersOf(Append(bs, b)[k])]
           H == [k \in DOMAIN bs |-> RegistersOf(bs[k])]
           J == [k \in DOMAIN Append(bs, b) |-> RegistersOf(Append(bs, b)[k])]
<1>1. /\ n \in Nat /\ DOMAIN bs = 1 .. n /\ DOMAIN Append(bs, b) = 1 .. n + 1
      /\ \A k \in 1 .. n : bs[k] \in AsmBlock /\ Append(bs, b)[k] = bs[k]
      /\ Append(bs, b)[n + 1] = b /\ n + 1 \in 1 .. n + 1
  OBVIOUS
<1> HIDE DEF n
<1>2. \A a \in AsmBlock : IsFiniteSet(NumbersOf(a)) /\ IsFiniteSet(RegistersOf(a))
  BY BlockCount
<1>3. /\ DOMAIN F = 1 .. n /\ DOMAIN G = 1 .. n + 1 /\ DOMAIN H = 1 .. n /\ DOMAIN J = 1 .. n + 1
      /\ \A k \in 1 .. n : G[k] = F[k] /\ IsFiniteSet(F[k]) /\ J[k] = H[k] /\ IsFiniteSet(H[k])
      /\ G[n + 1] = NumbersOf(b) /\ J[n + 1] = RegistersOf(b)
  <2>1. \A k \in 1 .. n : k \in 1 .. n + 1
    BY <1>1
  <2> QED
    BY <1>1, <1>2, <2>1
<1>4. /\ NumberPlaces(bs) = Numbered(F) /\ NumberPlaces(Append(bs, b)) = Numbered(G)
      /\ RegisterPlaces(bs) = Numbered(H) /\ RegisterPlaces(Append(bs, b)) = Numbered(J)
  BY DEF NumberPlaces, RegisterPlaces
<1> HIDE DEF F, G, H, J
<1>5. IsFiniteSet(G[n + 1]) /\ IsFiniteSet(J[n + 1])
  BY <1>2, <1>3
<1>6. /\ Cardinality(Numbered(G)) = Cardinality(Numbered(F)) + Cardinality(G[n + 1])
      /\ Cardinality(Numbered(F)) \in Nat /\ Cardinality(G[n + 1]) \in Nat
  BY <1>1, <1>3, <1>5, NumberedAppend
<1>7. /\ Cardinality(Numbered(J)) = Cardinality(Numbered(H)) + Cardinality(J[n + 1])
      /\ Cardinality(Numbered(H)) \in Nat /\ Cardinality(J[n + 1]) \in Nat
  BY <1>1, <1>3, <1>5, NumberedAppend
<1> QED
  BY <1>3, <1>4, <1>6, <1>7
---------------------------------------------------------------------------
(* Steps over tokens that are neither numbers nor registers.               *)

LEMMA HerePlain ==
  ASSUME TokenList, cur \in 1 .. Len(toks) + 1
  PROVE  Plain(cur, Here) /\ cur <= Here /\ Here \in Int /\ cur \in Int
<1>1. /\ Here \in cur .. Len(toks) + 1 /\ Len(toks) \in Nat
      /\ \A q \in cur .. Here - 1 : Type(q) = "NEWLINE"
  BY HereQuiet, TokenFacts
<1> QED
  BY <1>1 DEF Plain, IsNumber, NumberTypes

LEMMA SkipNewlinePlain ==
  ASSUME NEW p \in Int
  PROVE  Plain(p, SkipNewline(p)) /\ p <= SkipNewline(p) /\ SkipNewline(p) \in Int
<1>1. CASE Type(p) = "NEWLINE"
  <2>1. Plain(p, p + 1)
    BY <1>1, PlainOne DEF MarkTypes
  <2> QED
    BY <1>1, <2>1 DEF SkipNewline
<1>2. CASE Type(p) # "NEWLINE"
  <2>1. SkipNewline(p) = p /\ Plain(p, p)
    BY <1>2 DEF SkipNewline, Plain
  <2> QED
    BY <2>1
<1> QED
  BY <1>1, <1>2

(* A list of names.                                                        *)
LEMMA NamesPlain ==
  ASSUME TokenList, NEW p \in 1 .. Len(toks),
         Type(p) \in {"IMPORT", "EXPORT"}, ListClosed(p)
  PROVE  Plain(p, ListEnd(p)) /\ p <= ListEnd(p) /\ ListEnd(p) \in Int
<1> DEFINE b == ListStart(p)
           a == AfterItems(b, SymbolTypes)
<1>1. b \in 1 .. Len(toks) /\ Len(toks) \in Nat
  BY NamesQuiet, TokenFacts
<1>2. b \in 1 .. Len(toks) + 1 /\ SymbolTypes \in SUBSET WordTypes
  BY <1>1 DEF WordTypes
<1>3. a \in b .. Len(toks) + 1
  BY <1>2, AfterItemsQuiet
<1>4. Plain(b, a)
  <2>1. LET n == Items(b, SymbolTypes)
        IN  /\ \A k \in 1 .. n : Type(b + 2 * (k - 1)) \in SymbolTypes
            /\ \A q \in b .. a - 1 :
                 Type(q) = "COMMA" \/ \E k \in 1 .. n : q = b + 2 * (k - 1)
    BY <1>2, AfterItemsAre
  <2>2. \A q \in b .. a - 1 : Type(q) \in {"COMMA"} \union SymbolTypes
    <3> HIDE DEF a, b
    <3> QED
      BY <2>1
  <2> QED
    BY <2>2 DEF Plain, IsNumber, NumberTypes, SymbolTypes
<1>5. Plain(p, b) /\ p <= b
  <2>1. Plain(p, p + 1) /\ p \in Int
    BY PlainOne DEF MarkTypes
  <2>2. CASE Braced(p)
    <3>1. Type(p + 1) = "L_BRACE" /\ b = (p + 1) + 1
      BY <2>2 DEF Braced, ListStart
    <3>2. Plain(p + 1, (p + 1) + 1)
      BY <3>1, PlainOne DEF MarkTypes
    <3>3. p + 1 \in Int /\ (p + 1) + 1 \in Int /\ p <= p + 1 /\ p + 1 <= (p + 1) + 1
          /\ p <= (p + 1) + 1
      OBVIOUS
    <3> QED
      BY <2>1, <3>1, <3>2, <3>3, PlainAdds
  <2>3. CASE ~Braced(p)
    BY <2>1, <2>3 DEF ListStart
  <2> QED
    BY <2>2, <2>3
<1> HIDE DEF a, b
<1>6. a \in Int /\ b \in Int /\ p \in Int /\ b <= a /\ p <= a
  BY <1>1, <1>3, <1>5
<1>7. Plain(p, a)
  BY <1>4, <1>5, <1>6, PlainAdds
<1>8. CASE Braced(p)
  <2>1. ListEnd(p) = a + 1 /\ Type(a) = "R_BRACE"
    BY <1>8 DEF ListEnd, ListClosed, a, b
  <2>2. Plain(a, a + 1)
    BY <1>6, <2>1, PlainOne DEF MarkTypes
  <2>3. a + 1 \in Int /\ a <= a + 1 /\ p <= a + 1
    BY <1>6
  <2> QED
    BY <1>6, <1>7, <2>1, <2>2, <2>3, PlainAdds
<1>9. CASE ~Braced(p)
  <2>1. ListEnd(p) = a
    BY <1>6, <1>9 DEF ListEnd, a, b
  <2> QED
    BY <1>6, <1>7, <2>1
<1> QED
  BY <1>8, <1>9

LEMMA TopPlain ==
  ASSUME TokenList, cur \in 1 .. Len(toks) + 1, TopMoves
  PROVE  Plain(cur, cur') /\ cur <= cur' /\ cur' \in Int
<1>1. /\ Len(toks) \in Nat
      /\ \A q \in Int : Type(q) # "NULL" <=> q \in 1 .. Len(toks)
  BY TokenFacts
<1> DEFINE h == Here
<1>2. Plain(cur, h) /\ cur <= h /\ h \in Int /\ cur \in Int
  BY HerePlain
<1>3. Type(h) \in {"HEAD", "IMPORT", "EXPORT"}
  BY DEF TopMoves, SkipHead, ParseImport, ParseExport, AtStatement
<1>4. h \in 1 .. Len(toks)
  BY <1>1, <1>2, <1>3
<1>5. CASE SkipHead
  <2>1. cur' = h + 1
    BY <1>5 DEF SkipHead
  <2> HIDE DEF h
  <2>2. Plain(h, h + 1)
    BY <1>2, <1>3, PlainOne DEF MarkTypes
  <2>3. h + 1 \in Int /\ h <= h + 1 /\ cur <= h + 1
    BY <1>2
  <2> QED
    BY <1>2, <2>1, <2>2, <2>3, PlainAdds
<1>6. CASE ParseImport \/ ParseExport
  <2> DEFINE e == ListEnd(h)
  <2>1. ListClosed(h) /\ Type(h) \in {"IMPORT", "EXPORT"}
    BY <1>6 DEF ParseImport, ParseExport, AtStatement
  <2>2. Plain(h, e) /\ h <= e /\ e \in Int
    BY <1>4, <2>1, NamesPlain
  <2>3. \E f \in Int : Plain(e, f) /\ e <= f /\ cur' = SkipNewline(f)
    <3>1. CASE ParseImport /\ HasFrom(h)
      <4>1. Type(e) = "FROM" /\ Type(e + 1) = "STRING_LITERAL" /\ cur' = SkipNewline(e + 2)
        BY <3>1 DEF ParseImport, HasFrom
      <4> HIDE DEF e, h
      <4>2. Plain(e, e + 1) /\ Plain(e + 1, (e + 1) + 1)
        BY <2>2, <4>1, PlainOne DEF MarkTypes
      <4>3. e + 1 \in Int /\ e + 2 \in Int /\ (e + 1) + 1 = e + 2 /\ e <= e + 1
            /\ e + 1 <= e + 2 /\ e <= e + 2
        BY <2>2
      <4>4. Plain(e, e + 2)
        BY <2>2, <4>2, <4>3, PlainAdds
      <4> QED
        BY <4>1, <4>3, <4>4
    <3>2. CASE ~(ParseImport /\ HasFrom(h))
      <4>1. cur' = SkipNewline(e) \/ cur' = SkipNewline(e + 0)
        BY <1>6, <3>2 DEF ParseImport, ParseExport
      <4> HIDE DEF e, h
      <4>2. e + 0 = e /\ e <= e /\ Plain(e, e)
        BY <2>2 DEF Plain
      <4> QED
        BY <2>2, <4>1, <4>2
    <3> QED
      BY <3>1, <3>2
  <2> HIDE DEF e, h
  <2>4. PICK f \in Int : Plain(e, f) /\ e <= f /\ cur' = SkipNewline(f)
    BY <2>3
  <2>5. Plain(f, cur') /\ f <= cur' /\ cur' \in Int
    BY <2>4, SkipNewlinePlain
  <2>6. cur <= e /\ cur <= f /\ cur <= cur'
    BY <1>2, <2>2, <2>4, <2>5
  <2>7. Plain(cur, e)
    BY <1>2, <2>2, PlainAdds
  <2>8. Plain(cur, f)
    BY <1>2, <2>2, <2>4, <2>6, <2>7, PlainAdds
  <2>9. Plain(cur, cur')
    BY <1>2, <2>5, <2>6, <2>8, PlainAdds
  <2> QED
    BY <2>5, <2>6, <2>9
<1> QED
  BY <1>5, <1>6 DEF TopMoves

LEMMA HeadPlain ==
  ASSUME TokenList, cur \in 1 .. Len(toks) + 1, HeadMoves
  PROVE  Plain(cur, cur') /\ cur <= cur' /\ cur' \in Int
<1> DEFINE h == Here
<1>1. Plain(cur, h) /\ cur <= h /\ h \in Int /\ cur \in Int
  BY HerePlain
<1>2. \/ cur' = h + 2
      \/ cur' = h + 3 /\ IsSymbol(h + 2)
  BY DEF HeadMoves, SectionDirective, DataOrText, BeginBlock
<1>3. /\ Type(h) \in {"PERIOD"} \union SymbolTypes
      /\ Type(h + 1) \in {"COLON", "LABEL"}
  BY DEF HeadMoves, SectionDirective, DataOrText, BeginBlock, AtStatement, IsLabelDeclaration,
         IsDirective
<1> HIDE DEF h
<1>4. Plain(h, h + 1) /\ Plain(h + 1, (h + 1) + 1)
  <2>1. /\ Type(h) \in MarkTypes \union SymbolTypes
        /\ Type(h + 1) \in MarkTypes \union SymbolTypes
    BY <1>3 DEF MarkTypes, SymbolTypes
  <2> QED
    BY <1>1, <2>1, PlainOne
<1>5. h + 1 \in Int /\ h + 2 \in Int /\ h + 3 \in Int /\ (h + 1) + 1 = h + 2 /\ (h + 2) + 1 = h + 3
      /\ cur <= h + 1 /\ cur <= h + 2 /\ cur <= h + 3
      /\ h <= h + 1 /\ h + 1 <= h + 2 /\ h + 2 <= h + 3
  BY <1>1
<1>6. Plain(cur, h + 1)
  BY <1>1, <1>4, <1>5, PlainAdds
<1>7. Plain(cur, h + 2)
  BY <1>1, <1>4, <1>5, <1>6, PlainAdds
<1>8. CASE cur' = h + 2
  BY <1>5, <1>7, <1>8
<1>9. CASE cur' = h + 3 /\ IsSymbol(h + 2)
  <2>1. Plain(h + 2, (h + 2) + 1)
    BY <1>5, <1>9, PlainOne DEF IsSymbol
  <2>2. Plain(cur, h + 3)
    BY <1>1, <1>5, <1>7, <2>1, PlainAdds
  <2> QED
    BY <1>5, <1>9, <2>2
<1> QED
  BY <1>2, <1>8, <1>9
---------------------------------------------------------------------------
(* Steps over tokens that are.                                             *)

(* A step that reads the numbers and registers it adds to the block.       *)
LEMMA CountsStep ==
  ASSUME NEW c \in Nat \ {0}, NEW d \in Int, c <= d, NEW bs \in Seq(AsmBlock),
         NEW b \in AsmBlock, NEW e \in AsmBlock, Counts(c, Append(bs, b)),
         Cardinality(NumbersOf(e))
           = Cardinality(NumbersOf(b)) + Cardinality(Tokens(c, d, NumberTypes)),
         Cardinality(RegistersOf(e))
           = Cardinality(RegistersOf(b)) + Cardinality(Tokens(c, d, {"REGISTER"}))
  PROVE  Counts(d, Append(bs, e))
<1>1. 1 \in Int /\ c \in Int /\ 1 <= c
  OBVIOUS
<1>2. /\ Cardinality(Tokens(1, d, NumberTypes))
           = Cardinality(Tokens(1, c, NumberTypes)) + Cardinality(Tokens(c, d, NumberTypes))
      /\ Cardinality(Tokens(c, d, NumberTypes)) \in Nat
  BY <1>1, TokensAdd
<1>3. /\ Cardinality(Tokens(1, d, {"REGISTER"}))
           = Cardinality(Tokens(1, c, {"REGISTER"})) + Cardinality(Tokens(c, d, {"REGISTER"}))
      /\ Cardinality(Tokens(c, d, {"REGISTER"})) \in Nat
  BY <1>1, TokensAdd
<1>4. /\ Cardinality(NumberPlaces(Append(bs, b)))
           = Cardinality(NumberPlaces(bs)) + Cardinality(NumbersOf(b))
      /\ Cardinality(RegisterPlaces(Append(bs, b)))
           = Cardinality(RegisterPlaces(bs)) + Cardinality(RegistersOf(b))
      /\ Cardinality(NumberPlaces(bs)) \in Nat /\ Cardinality(NumbersOf(b)) \in Nat
      /\ Cardinality(RegisterPlaces(bs)) \in Nat /\ Cardinality(RegistersOf(b)) \in Nat
  BY PlacesAppend
<1>5. /\ Cardinality(NumberPlaces(Append(bs, e)))
           = Cardinality(NumberPlaces(bs)) + Cardinality(NumbersOf(e))
      /\ Cardinality(RegisterPlaces(Append(bs, e)))
           = Cardinality(RegisterPlaces(bs)) + Cardinality(RegistersOf(e))
  BY PlacesAppend
<1>6. /\ Cardinality(Tokens(1, c, NumberTypes)) = Cardinality(NumberPlaces(Append(bs, b)))
      /\ Cardinality(Tokens(1, c, {"REGISTER"})) = Cardinality(RegisterPlaces(Append(bs, b)))
  BY DEF Counts
<1>7. Cardinality(Tokens(1, d, NumberTypes)) = Cardinality(NumberPlaces(Append(bs, e)))
  BY <1>2, <1>4, <1>5, <1>6
<1>8. Cardinality(Tokens(1, d, {"REGISTER"})) = Cardinality(RegisterPlaces(Append(bs, e)))
  BY <1>3, <1>4, <1>5, <1>6
<1> QED
  BY <1>7, <1>8 DEF Counts

(* One that reads none and adds no place.                                  *)
LEMMA CountsStay ==
  ASSUME NEW c \in Nat \ {0}, NEW d \in Int, c <= d, Plain(c, d), NEW bs, Counts(c, bs),
         NEW cs, Cardinality(NumberPlaces(cs)) = Cardinality(NumberPlaces(bs)),
         Cardinality(RegisterPlaces(cs)) = Cardinality(RegisterPlaces(bs))
  PROVE  Counts(d, cs)
<1>1. 1 \in Int /\ c \in Int /\ 1 <= c
  OBVIOUS
<1>2. /\ Cardinality(Tokens(c, d, NumberTypes)) = 0
      /\ Cardinality(Tokens(c, d, {"REGISTER"})) = 0
  BY <1>1, PlainCounts
<1>3. /\ Cardinality(Tokens(1, d, NumberTypes))
           = Cardinality(Tokens(1, c, NumberTypes)) + Cardinality(Tokens(c, d, NumberTypes))
      /\ Cardinality(Tokens(1, c, NumberTypes)) \in Nat
  BY <1>1, TokensAdd
<1>4. /\ Cardinality(Tokens(1, d, {"REGISTER"}))
           = Cardinality(Tokens(1, c, {"REGISTER"})) + Cardinality(Tokens(c, d, {"REGISTER"}))
      /\ Cardinality(Tokens(1, c, {"REGISTER"})) \in Nat
  BY <1>1, TokensAdd
<1> QED
  BY <1>2, <1>3, <1>4 DEF Counts

LEMMA TokensTwo ==
  ASSUME NEW a \in Int, NEW types
  PROVE  Cardinality(Tokens(a, a + 2, types))
           = (IF Type(a) \in types THEN 1 ELSE 0) + (IF Type(a + 1) \in types THEN 1 ELSE 0)
<1>1. a + 1 \in Int /\ a + 2 \in Int /\ a <= a + 1 /\ a + 1 <= a + 2 /\ (a + 1) + 1 = a + 2
  OBVIOUS
<1>2. Cardinality(Tokens(a, a + 1, types)) = IF Type(a) \in types THEN 1 ELSE 0
  BY TokensOne
<1>3. Cardinality(Tokens(a + 1, a + 2, types)) = IF Type(a + 1) \in types THEN 1 ELSE 0
  BY <1>1, TokensOne
<1>4. Cardinality(Tokens(a, a + 2, types))
        = Cardinality(Tokens(a, a + 1, types)) + Cardinality(Tokens(a + 1, a + 2, types))
  BY <1>1, TokensAdd
<1> QED
  BY <1>2, <1>3, <1>4

(* What each form of an instruction reads.                                 *)
LEMMA InstrReads ==
  ASSUME cur \in Nat \ {0}, NEW k, NEW n \in Int, cur <= n,
         Cardinality(Tokens(cur, n, NumberTypes))
           = IF k \in {"REGIMM21", "IMM26"} THEN 1 ELSE 0,
         Cardinality(Tokens(cur, n, {"REGISTER"}))
           = (IF k \in {"REG", "REGREG", "REGIMM21", "REGLABEL"} THEN 1 ELSE 0)
             + IF k \in {"REGREG"} THEN 1 ELSE 0,
         TypeInv, block' \in AsmBlock,
         Counts(cur, Append(blocks, block)),
         NEW opcode, NEW reg1, NEW reg2, NEW imm, NEW l,
         AddInstr(k, opcode, reg1, reg2, imm, l, n)
  PROVE  Counts(n, Append(blocks, block'))
<1> DEFINE i == [kind |-> k, opcode |-> opcode, reg1 |-> reg1, reg2 |-> reg2, imm |-> imm,
                 label |-> l]
<1>1. block \in AsmBlock /\ blocks \in Seq(AsmBlock)
  BY DEF TypeInv, ParserTypeOK, Source
<1>2. block' = [block EXCEPT !.instrs = Append(@, i)] /\ i.kind = k
  BY DEF AddInstr
<1> HIDE DEF i
<1>3. block'.data = block.data /\ block'.words = block.words
      /\ block'.instrs = Append(block.instrs, i)
  BY <1>1, <1>2 DEF AsmBlock
<1> DEFINE e == block'
<1> HIDE DEF e
<1>4. e \in AsmBlock /\ e.data = block.data /\ e.words = block.words
      /\ e.instrs = Append(block.instrs, i)
  BY <1>3 DEF e
<1>5. /\ Cardinality(NumbersOf(e)) = Cardinality(NumbersOf(block))
           + IF i.kind \in {"REGIMM21", "IMM26"} THEN 1 ELSE 0
      /\ Cardinality(RegistersOf(e)) = Cardinality(RegistersOf(block))
           + (IF i.kind \in {"REG", "REGREG", "REGIMM21", "REGLABEL"} THEN 1 ELSE 0)
           + IF i.kind \in {"REGREG"} THEN 1 ELSE 0
  BY <1>1, <1>4, AddInstrCounts
<1>6. Cardinality(NumbersOf(e))
        = Cardinality(NumbersOf(block)) + Cardinality(Tokens(cur, n, NumberTypes))
  BY <1>2, <1>5
<1>7. Cardinality(RegistersOf(e))
        = Cardinality(RegistersOf(block)) + Cardinality(Tokens(cur, n, {"REGISTER"}))
  <2> DEFINE one == IF k \in {"REG", "REGREG", "REGIMM21", "REGLABEL"} THEN 1 ELSE 0
             two == IF k \in {"REGREG"} THEN 1 ELSE 0
  <2>1. /\ Cardinality(RegistersOf(e)) = Cardinality(RegistersOf(block)) + one + two
        /\ Cardinality(Tokens(cur, n, {"REGISTER"})) = one + two
    BY <1>2, <1>5
  <2>2. one \in Int /\ two \in Int
    OBVIOUS
  <2>3. Cardinality(RegistersOf(block)) \in Nat
    BY <1>1, PlacesAppend
  <2> HIDE DEF one, two
  <2> QED
    BY <2>1, <2>2, <2>3
<1>8. Counts(n, Append(blocks, e))
  BY <1>1, <1>4, <1>6, <1>7, CountsStep
<1> QED
  BY <1>8 DEF e
LEMMA InstrCounted ==
  ASSUME TypeInv, Counts(cur, Append(blocks, block)), block' \in AsmBlock,
         \/ InstrNoOperand \/ InstrImm26 \/ InstrLabel \/ InstrReg
         \/ InstrRegReg \/ InstrRegImm21 \/ InstrRegLabel
  PROVE  Counts(cur', Append(blocks, block'))
<1>1. cur \in Nat \ {0} /\ cur \in Int /\ cur + 2 \in Int /\ cur + 1 \in Int
      /\ cur + 4 \in Int /\ cur <= cur + 1 /\ cur <= cur + 2 /\ cur <= cur + 4
      /\ cur + 2 <= cur + 4 /\ (cur + 2) + 2 = cur + 4 /\ (cur + 2) + 1 = cur + 3
  BY TokenFacts DEF TypeInv, ParserTypeOK
<1>2. Type(cur) = "INSTRUCTION"
  BY DEF InstrNoOperand, InstrImm26, InstrLabel, InstrReg, InstrRegReg, InstrRegImm21,
         InstrRegLabel, AtSecondOperand, AtMnemonic
<1>3. Type(cur) \notin NumberTypes /\ Type(cur) \notin {"REGISTER"}
  BY <1>2 DEF NumberTypes
<1>4. /\ Cardinality(Tokens(cur, cur + 1, NumberTypes)) = 0
      /\ Cardinality(Tokens(cur, cur + 1, {"REGISTER"})) = 0
  BY <1>1, <1>3, TokensOne
<1>5. /\ Cardinality(Tokens(cur, cur + 2, NumberTypes))
           = IF Type(cur + 1) \in NumberTypes THEN 1 ELSE 0
      /\ Cardinality(Tokens(cur, cur + 2, {"REGISTER"}))
           = IF Type(cur + 1) \in {"REGISTER"} THEN 1 ELSE 0
  <2>1. Cardinality(Tokens(cur, cur + 2, NumberTypes))
          = (IF Type(cur) \in NumberTypes THEN 1 ELSE 0)
            + (IF Type(cur + 1) \in NumberTypes THEN 1 ELSE 0)
    BY <1>1, TokensTwo
  <2>2. Cardinality(Tokens(cur, cur + 2, {"REGISTER"}))
          = (IF Type(cur) \in {"REGISTER"} THEN 1 ELSE 0)
            + (IF Type(cur + 1) \in {"REGISTER"} THEN 1 ELSE 0)
    BY <1>1, TokensTwo
  <2> QED
    BY <1>3, <2>1, <2>2
<1>6. ASSUME AtSecondOperand
      PROVE  /\ Cardinality(Tokens(cur, cur + 4, NumberTypes))
                  = IF Type(cur + 3) \in NumberTypes THEN 1 ELSE 0
             /\ Cardinality(Tokens(cur, cur + 4, {"REGISTER"}))
                  = 1 + IF Type(cur + 3) \in {"REGISTER"} THEN 1 ELSE 0
  <2>1. Type(cur + 1) = "REGISTER" /\ Type(cur + 2) = "COMMA"
    BY <1>6 DEF AtSecondOperand
  <2>2. Type(cur + 2) \notin NumberTypes /\ Type(cur + 1) \notin NumberTypes
    BY <2>1 DEF NumberTypes
  <2>3. /\ Cardinality(Tokens(cur, cur + 4, NumberTypes))
             = Cardinality(Tokens(cur, cur + 2, NumberTypes))
               + Cardinality(Tokens(cur + 2, cur + 4, NumberTypes))
        /\ Cardinality(Tokens(cur, cur + 4, {"REGISTER"}))
             = Cardinality(Tokens(cur, cur + 2, {"REGISTER"}))
               + Cardinality(Tokens(cur + 2, cur + 4, {"REGISTER"}))
    BY <1>1, TokensAdd
  <2>4. Cardinality(Tokens(cur + 2, (cur + 2) + 2, NumberTypes))
          = (IF Type(cur + 2) \in NumberTypes THEN 1 ELSE 0)
            + (IF Type((cur + 2) + 1) \in NumberTypes THEN 1 ELSE 0)
    BY <1>1, TokensTwo
  <2>5. Cardinality(Tokens(cur + 2, (cur + 2) + 2, {"REGISTER"}))
          = (IF Type(cur + 2) \in {"REGISTER"} THEN 1 ELSE 0)
            + (IF Type((cur + 2) + 1) \in {"REGISTER"} THEN 1 ELSE 0)
    BY <1>1, TokensTwo
  <2>6. Cardinality(Tokens(cur + 2, cur + 4, NumberTypes))
          = IF Type(cur + 3) \in NumberTypes THEN 1 ELSE 0
    BY <1>1, <2>2, <2>4
  <2>7. Cardinality(Tokens(cur + 2, cur + 4, {"REGISTER"}))
          = IF Type(cur + 3) \in {"REGISTER"} THEN 1 ELSE 0
    BY <1>1, <2>1, <2>5
  <2> QED
    BY <1>5, <2>1, <2>2, <2>3, <2>6, <2>7
<1>7. CASE InstrNoOperand
  <2>1. AddInstr("NO_OPERAND", Op, 0, 0, 0, NoLabel, cur + 1)
    BY <1>7 DEF InstrNoOperand
  <2>2. Counts(cur + 1, Append(blocks, block'))
    BY <1>1, <1>4, <2>1, InstrReads
  <2> QED
    BY <2>1, <2>2 DEF AddInstr
<1>8. CASE InstrImm26
  <2>1. /\ AddInstr("IMM26", Op, 0, 0, Atoi[Text(cur + 1)] % WordSpan, NoLabel, cur + 2)
        /\ Type(cur + 1) \in NumberTypes /\ Type(cur + 1) \notin {"REGISTER"}
    BY <1>8 DEF InstrImm26, NumberTypes
  <2> DEFINE imm == Atoi[Text(cur + 1)] % WordSpan
  <2> HIDE DEF imm
  <2>2. AddInstr("IMM26", Op, 0, 0, imm, NoLabel, cur + 2)
    BY <2>1 DEF imm
  <2>3. Counts(cur + 2, Append(blocks, block'))
    BY <1>1, <1>5, <2>1, <2>2, InstrReads
  <2> QED
    BY <2>2, <2>3 DEF AddInstr
<1>9. CASE InstrLabel
  <2>1. /\ AddInstr("LABEL", Op, 0, 0, 0, Text(cur + 1), cur + 2)
        /\ Type(cur + 1) \notin NumberTypes /\ Type(cur + 1) \notin {"REGISTER"}
    BY <1>9 DEF InstrLabel, IsOperand, IsSymbol, SymbolTypes, NumberTypes
  <2>2. Counts(cur + 2, Append(blocks, block'))
    BY <1>1, <1>5, <2>1, InstrReads
  <2> QED
    BY <2>1, <2>2 DEF AddInstr
<1>10. CASE InstrReg
  <2>1. /\ AddInstr("REG", Op, Reg(cur + 1), 0, 0, NoLabel, cur + 2)
        /\ Type(cur + 1) \notin NumberTypes /\ Type(cur + 1) \in {"REGISTER"}
    BY <1>10 DEF InstrReg, NumberTypes
  <2>2. Counts(cur + 2, Append(blocks, block'))
    BY <1>1, <1>5, <2>1, InstrReads
  <2> QED
    BY <2>1, <2>2 DEF AddInstr
<1>11. CASE InstrRegReg
  <2>1. /\ AddInstr("REGREG", Op, Reg(cur + 1), Reg(cur + 3), 0, NoLabel, cur + 4)
        /\ AtSecondOperand /\ Type(cur + 3) \notin NumberTypes /\ Type(cur + 3) \in {"REGISTER"}
    BY <1>11 DEF InstrRegReg, NumberTypes
  <2>2. Counts(cur + 4, Append(blocks, block'))
    BY <1>1, <1>6, <2>1, InstrReads
  <2> QED
    BY <2>1, <2>2 DEF AddInstr
<1>12. CASE InstrRegImm21
  <2> DEFINE imm == Atoi[Text(cur + 3)] % IF Type(cur + 3) = "NUMBER" THEN WordSpan ELSE ImmSpan
  <2>1. /\ AddInstr("REGIMM21", Op, Reg(cur + 1), 0, imm, NoLabel, cur + 4)
        /\ AtSecondOperand /\ Type(cur + 3) \in NumberTypes /\ Type(cur + 3) \notin {"REGISTER"}
    BY <1>12 DEF InstrRegImm21, IsNumber, NumberTypes
  <2> HIDE DEF imm
  <2>2. Counts(cur + 4, Append(blocks, block'))
    BY <1>1, <1>6, <2>1, InstrReads
  <2> QED
    BY <2>1, <2>2 DEF AddInstr
<1>13. CASE InstrRegLabel
  <2> DEFINE o == IF Text(cur) = Mov THEN Opcode[Movi] ELSE Op
  <2>1. /\ AddInstr("REGLABEL", o, Reg(cur + 1), 0, 0, Text(cur + 3), cur + 4)
        /\ AtSecondOperand /\ Type(cur + 3) \notin NumberTypes
        /\ Type(cur + 3) \notin {"REGISTER"}
    BY <1>13 DEF InstrRegLabel, IsOperand, IsSymbol, SymbolTypes, NumberTypes
  <2> HIDE DEF o
  <2>2. Counts(cur + 4, Append(blocks, block'))
    BY <1>1, <1>6, <2>1, InstrReads
  <2> QED
    BY <2>1, <2>2 DEF AddInstr
<1> QED
  BY <1>7, <1>8, <1>9, <1>10, <1>11, <1>12, <1>13
(* What a directive with a list reads.                                     *)
LEMMA DirectiveReads ==
  ASSUME TokenList, cur \in 1 .. Len(toks), NEW words, IsDirective(cur, words),
         NEW types \in SUBSET WordTypes, NEW wanted \in {NumberTypes, {"REGISTER"}},
         NEW d, d = SkipNewline(AfterItems(cur + 2, types))
  PROVE  /\ d \in Int /\ cur <= d
         /\ Cardinality(Tokens(cur, d, wanted))
              = Cardinality({k \in 1 .. Items(cur + 2, types) : Type(cur + 2 * k) \in wanted})
<1> DEFINE n == Items(cur + 2, types)
           a == AfterItems(cur + 2, types)
           J == {k \in 1 .. n : Type(cur + 2 * k) \in wanted}
           K == {k \in 1 .. n : Type((cur + 2) + 2 * (k - 1)) \in wanted}
<1>1. /\ Len(toks) \in Nat
      /\ \A q \in Int : Type(q) # "NULL" <=> q \in 1 .. Len(toks)
  BY TokenFacts
<1>2. Type(cur) = "PERIOD" /\ Type(cur + 1) = "LABEL"
  BY DEF IsDirective
<1>3. cur \in Int /\ cur + 1 \in Int /\ cur + 2 \in 1 .. Len(toks) + 1 /\ (cur + 1) + 1 = cur + 2
      /\ cur + 2 \in Int /\ cur <= cur + 1 /\ cur + 1 <= cur + 2 /\ cur <= cur + 2
  BY <1>1, <1>2
<1>4. a \in cur + 2 .. Len(toks) + 1
  BY <1>3, AfterItemsQuiet
<1>5. Cardinality(Tokens(cur + 2, a, wanted)) = Cardinality(K)
  <2>1. "COMMA" \notin wanted
    BY DEF NumberTypes
  <2> QED
    BY <1>3, <2>1, ItemsCount
<1>6. K = J
  <2>1. n \in Nat
    BY DirectiveItems
  <2> HIDE DEF n
  <2>2. \A k \in 1 .. n : (cur + 2) + 2 * (k - 1) = cur + 2 * k
    BY <1>3, <2>1
  <2> QED
    BY <2>2
<1>7. Plain(cur, cur + 1) /\ Plain(cur + 1, (cur + 1) + 1)
  BY <1>2, <1>3, PlainOne DEF MarkTypes, SymbolTypes
<1>8. Plain(cur, cur + 2)
  BY <1>3, <1>7, PlainAdds
<1> HIDE DEF n, a, J, K
<1>9. a \in Int /\ cur + 2 <= a /\ cur <= a
  BY <1>1, <1>3, <1>4
<1>10. Plain(a, d) /\ a <= d /\ d \in Int
  BY <1>9, SkipNewlinePlain DEF a
<1>11. cur <= d
  BY <1>3, <1>9, <1>10
<1>12. Cardinality(Tokens(cur, cur + 2, wanted)) = 0 /\ Cardinality(Tokens(a, d, wanted)) = 0
  BY <1>3, <1>8, <1>9, <1>10, PlainCounts
<1>13. /\ Cardinality(Tokens(cur, a, wanted))
            = Cardinality(Tokens(cur, cur + 2, wanted)) + Cardinality(Tokens(cur + 2, a, wanted))
       /\ Cardinality(Tokens(cur + 2, a, wanted)) \in Nat
  BY <1>3, <1>9, TokensAdd
<1>14. Cardinality(Tokens(cur, d, wanted))
         = Cardinality(Tokens(cur, a, wanted)) + Cardinality(Tokens(a, d, wanted))
  BY <1>3, <1>9, <1>10, TokensAdd
<1>15. Cardinality(Tokens(cur, d, wanted)) = Cardinality(J)
  BY <1>5, <1>6, <1>12, <1>13, <1>14
<1> QED
  BY <1>10, <1>11, <1>15 DEF J, n

LEMMA ByteCounted ==
  ASSUME TypeInv, Counts(cur, Append(blocks, block)), block' \in AsmBlock, ParseByte
  PROVE  Counts(cur', Append(blocks, block'))
<1> DEFINE n == Items(cur + 2, NumberTypes)
           bytes == [k \in 1 .. n |-> Atoi[Text(cur + 2 * k)] % 256]
           d == SkipNewline(AfterItems(cur + 2, NumberTypes))
<1>1. /\ TokenList /\ cur \in 1 .. Len(toks) + 1 /\ blocks \in Seq(AsmBlock)
      /\ block \in AsmBlock /\ Len(toks) \in Nat /\ cur \in Nat \ {0}
  BY TokenFacts DEF TypeInv, ParserTypeOK, Source
<1>2. InBlock /\ IsDirective(cur, {"byte"}) /\ Grow(bytes, << >>, d)
  BY DEF ParseByte
<1>3. cur \in 1 .. Len(toks)
  BY <1>1, <1>2, InBlockQuiet
<1>4. NumberTypes \in SUBSET WordTypes
  BY DEF WordTypes
<1>5. n \in Nat /\ \A k \in 1 .. n : Type(cur + 2 * k) \in NumberTypes
  BY <1>1, <1>3, <1>4, DirectiveItems
<1>6. bytes \in Seq(Nat) /\ << >> \in Seq(AsmWord)
  BY <1>1, <1>3, ByteItems
<1>7. /\ d \in Int /\ cur <= d
      /\ Cardinality(Tokens(cur, d, NumberTypes))
           = Cardinality({k \in 1 .. n : Type(cur + 2 * k) \in NumberTypes})
  <2>1. NumberTypes \in {NumberTypes, {"REGISTER"}}
    OBVIOUS
  <2> QED
    BY <1>1, <1>2, <1>3, <1>4, <2>1, DirectiveReads
<1>8. Cardinality(Tokens(cur, d, {"REGISTER"}))
        = Cardinality({k \in 1 .. n : Type(cur + 2 * k) \in {"REGISTER"}})
  <2>1. {"REGISTER"} \in {NumberTypes, {"REGISTER"}}
    OBVIOUS
  <2> QED
    BY <1>1, <1>2, <1>3, <1>4, <2>1, DirectiveReads
<1>9. Len(bytes) = n
  <2> HIDE DEF n
  <2> QED
    BY <1>5
<1> HIDE DEF n, bytes, d
<1>10. /\ {k \in 1 .. n : Type(cur + 2 * k) \in NumberTypes} = 1 .. n
       /\ {k \in 1 .. n : Type(cur + 2 * k) \in {"REGISTER"}} = {}
  BY <1>5 DEF NumberTypes
<1>11. Cardinality(1 .. n) = n /\ Cardinality({}) = 0
  <2>1. Cardinality(1 .. n) = IF 1 > n THEN 0 ELSE n - 1 + 1
    BY <1>5, FS_Interval
  <2> QED
    BY <1>5, <2>1, FS_EmptySet
<1>12. Values(<< >>) = {}
  BY DEF Values
<1> DEFINE e == block'
<1> HIDE DEF e
<1>13. /\ e \in AsmBlock /\ e.data = block.data \o bytes /\ e.words = block.words \o << >>
       /\ e.instrs = block.instrs
  BY <1>1, <1>2 DEF Grow, AsmBlock, e
<1>14. /\ Cardinality(NumbersOf(e))
            = Cardinality(NumbersOf(block)) + Len(bytes) + Cardinality(Values(<< >>))
       /\ Cardinality(RegistersOf(e)) = Cardinality(RegistersOf(block))
  BY <1>1, <1>6, <1>13, GrowCounts
<1>15. Cardinality(NumbersOf(block)) \in Nat /\ Cardinality(RegistersOf(block)) \in Nat
  BY <1>1, PlacesAppend
<1>16. Cardinality(NumbersOf(e)) = Cardinality(NumbersOf(block)) + Cardinality(Tokens(cur, d, NumberTypes))
  <2>1. Cardinality(Tokens(cur, d, NumberTypes)) = n
    BY <1>7, <1>10, <1>11
  <2>2. Cardinality(Values(<< >>)) = 0
    BY <1>11, <1>12
  <2> QED
    BY <1>5, <1>9, <1>14, <1>15, <2>1, <2>2
<1>17. Cardinality(RegistersOf(e))
         = Cardinality(RegistersOf(block)) + Cardinality(Tokens(cur, d, {"REGISTER"}))
  <2>1. Cardinality(Tokens(cur, d, {"REGISTER"})) = 0
    BY <1>8, <1>10, <1>11
  <2> QED
    BY <1>14, <1>15, <2>1
<1>18. Counts(d, Append(blocks, e))
  BY <1>1, <1>7, <1>13, <1>16, <1>17, CountsStep
<1> QED
  BY <1>2, <1>18 DEF Grow, e

LEMMA WordCounted ==
  ASSUME TypeInv, Counts(cur, Append(blocks, block)), block' \in AsmBlock, ParseWord
  PROVE  Counts(cur', Append(blocks, block'))
<1> DEFINE n == Items(cur + 2, WordTypes)
           ws == [k \in 1 .. n |-> WordAt(cur + 2 * k)]
           d == SkipNewline(AfterItems(cur + 2, WordTypes))
<1>1. /\ TokenList /\ cur \in 1 .. Len(toks) + 1 /\ blocks \in Seq(AsmBlock)
      /\ block \in AsmBlock /\ Len(toks) \in Nat /\ cur \in Nat \ {0}
  BY TokenFacts DEF TypeInv, ParserTypeOK, Source
<1>2. InBlock /\ IsDirective(cur, {"word"}) /\ Grow(<< >>, ws, d)
  BY DEF ParseWord
<1>3. cur \in 1 .. Len(toks)
  BY <1>1, <1>2, InBlockQuiet
<1>4. n \in Nat /\ \A k \in 1 .. n : Type(cur + 2 * k) \in WordTypes
  BY <1>1, <1>3, DirectiveItems
<1>5. ws \in Seq(AsmWord) /\ << >> \in Seq(Nat)
  BY <1>1, <1>3, WordItems
<1>6. /\ d \in Int /\ cur <= d
      /\ Cardinality(Tokens(cur, d, NumberTypes))
           = Cardinality({k \in 1 .. n : Type(cur + 2 * k) \in NumberTypes})
  <2>1. NumberTypes \in {NumberTypes, {"REGISTER"}}
    OBVIOUS
  <2> QED
    BY <1>1, <1>2, <1>3, <2>1, DirectiveReads
<1>7. Cardinality(Tokens(cur, d, {"REGISTER"}))
        = Cardinality({k \in 1 .. n : Type(cur + 2 * k) \in {"REGISTER"}})
  <2>1. {"REGISTER"} \in {NumberTypes, {"REGISTER"}}
    OBVIOUS
  <2> QED
    BY <1>1, <1>2, <1>3, <2>1, DirectiveReads
<1>8. DOMAIN ws = 1 .. n /\ \A k \in 1 .. n : ws[k] = WordAt(cur + 2 * k)
  OBVIOUS
<1> HIDE DEF n, ws, d
<1>9. {k \in 1 .. n : Type(cur + 2 * k) \in {"REGISTER"}} = {}
  BY <1>4 DEF WordTypes, NumberTypes, SymbolTypes
<1>10. \A p : Type(p) \in WordTypes => (WordAt(p).symbol = NoLabel <=> Type(p) \in NumberTypes)
  <2> TAKE p
  <2>1. CASE IsSymbol(p)
    <3>1. WordAt(p).symbol = Text(p) /\ Text(p) \in Labels /\ NoLabel \notin Labels
      BY <1>1, <2>1, TextFacts, LabelAssumption DEF WordAt
    <3> QED
      BY <2>1, <3>1 DEF IsSymbol, SymbolTypes, NumberTypes
  <2>2. CASE ~IsSymbol(p)
    BY <2>2 DEF WordAt, IsSymbol, WordTypes
  <2> QED
    BY <2>1, <2>2
<1>11. Values(ws) = {k \in 1 .. n : Type(cur + 2 * k) \in NumberTypes}
  BY <1>4, <1>8, <1>10 DEF Values
<1> DEFINE e == block'
<1> HIDE DEF e
<1>12. /\ e \in AsmBlock /\ e.data = block.data \o << >> /\ e.words = block.words \o ws
       /\ e.instrs = block.instrs
  BY <1>1, <1>2 DEF Grow, AsmBlock, e
<1>13. /\ Cardinality(NumbersOf(e))
            = Cardinality(NumbersOf(block)) + Len(<< >>) + Cardinality(Values(ws))
       /\ Cardinality(RegistersOf(e)) = Cardinality(RegistersOf(block))
  BY <1>1, <1>5, <1>12, GrowCounts
<1>14. Cardinality(NumbersOf(block)) \in Nat /\ Cardinality(RegistersOf(block)) \in Nat
  BY <1>1, PlacesAppend
<1>15. Cardinality(NumbersOf(e))
         = Cardinality(NumbersOf(block)) + Cardinality(Tokens(cur, d, NumberTypes))
  <2>1. Cardinality(Tokens(cur, d, NumberTypes)) = Cardinality(Values(ws))
    BY <1>6, <1>11
  <2>2. Cardinality(Values(ws)) \in Nat /\ Len(<< >>) = 0
    BY <1>5, LiteralsConcat
  <2> QED
    BY <1>13, <1>14, <2>1, <2>2
<1>16. Cardinality(RegistersOf(e))
         = Cardinality(RegistersOf(block)) + Cardinality(Tokens(cur, d, {"REGISTER"}))
  <2>1. Cardinality(Tokens(cur, d, {"REGISTER"})) = 0
    BY <1>7, <1>9, FS_EmptySet
  <2> QED
    BY <1>13, <1>14, <2>1
<1>17. Counts(d, Append(blocks, e))
  BY <1>1, <1>6, <1>12, <1>15, <1>16, CountsStep
<1> QED
  BY <1>2, <1>17 DEF Grow, e
LEMMA BlockMovesCounted ==
  ASSUME TypeInv, Counted, BlockMoves
  PROVE  Counts(cur', Append(blocks, block'))
<1>1. /\ TokenList /\ cur \in 1 .. Len(toks) + 1 /\ block \in AsmBlock
      /\ cur \in Nat \ {0}
  BY TokenFacts DEF TypeInv, ParserTypeOK
<1>2. at = "block"
  BY DEF BlockMoves, BlankLine, ParseByte, ParseWord, InstrNoOperand, InstrImm26, InstrLabel,
         InstrReg, InstrRegReg, InstrRegImm21, InstrRegLabel, AtSecondOperand, AtMnemonic, InBlock
<1>3. Counts(cur, Append(blocks, block)) /\ block' \in AsmBlock
  BY <1>1, <1>2, BlockMovesType DEF Counted
<1>4. CASE BlankLine
  <2>1. cur' = cur + 1 /\ block' = block /\ Type(cur) = "NEWLINE"
    BY <1>4 DEF BlankLine
  <2>2. Plain(cur, cur + 1) /\ cur + 1 \in Int /\ cur <= cur + 1
    BY <1>1, <2>1, PlainOne DEF MarkTypes
  <2>3. Counts(cur + 1, Append(blocks, block))
    BY <1>1, <1>3, <2>2, CountsStay
  <2> QED
    BY <2>1, <2>3
<1>5. CASE ParseByte
  BY <1>3, <1>5, ByteCounted
<1>6. CASE ParseWord
  BY <1>3, <1>6, WordCounted
<1>7. CASE ~(BlankLine \/ ParseByte \/ ParseWord)
  BY <1>3, <1>7, InstrCounted DEF BlockMoves
<1> QED
  BY <1>4, <1>5, <1>6, <1>7

(* A block ends with the places it has.                                    *)
LEMMA EndBlockCounted ==
  ASSUME TypeInv, Counted, EndBlock
  PROVE  Counts(cur, blocks')
<1> DEFINE b == [block EXCEPT !.section = pending_section,
                              !.in_data = pending_section = NoSection /\ in_data]
<1>1. /\ blocks \in Seq(AsmBlock) /\ block \in AsmBlock /\ in_data \in BOOLEAN
      /\ pending_section \in SectionNames \union {NoSection} /\ cur \in Nat \ {0}
  BY TokenFacts DEF TypeInv, ParserTypeOK, Source
<1>2. Counts(cur, Append(blocks, block)) /\ blocks' = Append(blocks, b)
  BY DEF Counted, EndBlock
<1>3. /\ b \in AsmBlock /\ b.data = block.data /\ b.words = block.words
      /\ b.instrs = block.instrs
  BY <1>1 DEF AsmBlock
<1> HIDE DEF b
<1>4. NumbersOf(b) = NumbersOf(block) /\ RegistersOf(b) = RegistersOf(block)
  BY <1>3 DEF NumbersOf, RegistersOf
<1>5. /\ Cardinality(NumberPlaces(Append(blocks, b)))
           = Cardinality(NumberPlaces(blocks)) + Cardinality(NumbersOf(block))
      /\ Cardinality(RegisterPlaces(Append(blocks, b)))
           = Cardinality(RegisterPlaces(blocks)) + Cardinality(RegistersOf(block))
  BY <1>1, <1>3, <1>4, PlacesAppend
<1>6. /\ Cardinality(NumberPlaces(Append(blocks, block)))
           = Cardinality(NumberPlaces(blocks)) + Cardinality(NumbersOf(block))
      /\ Cardinality(RegisterPlaces(Append(blocks, block)))
           = Cardinality(RegisterPlaces(blocks)) + Cardinality(RegistersOf(block))
  BY <1>1, PlacesAppend
<1> QED
  BY <1>2, <1>5, <1>6 DEF Counts

(* A block begins with none.                                               *)
LEMMA NewBlockCounts ==
  ASSUME NEW bs \in Seq(AsmBlock), NEW l \in Labels
  PROVE  /\ Cardinality(NumberPlaces(Append(bs, NewBlock(l)))) = Cardinality(NumberPlaces(bs))
         /\ Cardinality(RegisterPlaces(Append(bs, NewBlock(l)))) = Cardinality(RegisterPlaces(bs))
<1> DEFINE b == NewBlock(l)
<1>1. b \in AsmBlock /\ b.data = << >> /\ b.words = << >> /\ b.instrs = << >>
  BY DEF NewBlock, AsmBlock
<1> HIDE DEF b
<1>2. NumbersOf(b) = {} /\ RegistersOf(b) = {}
  BY <1>1 DEF NumbersOf, RegistersOf, Values, OfKind
<1>3. /\ Cardinality(NumberPlaces(Append(bs, b)))
           = Cardinality(NumberPlaces(bs)) + Cardinality(NumbersOf(b))
      /\ Cardinality(RegisterPlaces(Append(bs, b)))
           = Cardinality(RegisterPlaces(bs)) + Cardinality(RegistersOf(b))
      /\ Cardinality(NumberPlaces(bs)) \in Nat /\ Cardinality(RegisterPlaces(bs)) \in Nat
  BY <1>1, PlacesAppend
<1>4. Cardinality(NumbersOf(b)) = 0 /\ Cardinality(RegistersOf(b)) = 0
  BY <1>2, FS_EmptySet
<1> QED
  BY <1>3, <1>4 DEF b

LEMMA CountedUnchanged ==
  ASSUME toks' = toks,
         at' \in {"top", "done"} => Counts(cur', blocks'),
         at' = "block" => Counts(cur', Append(blocks', block'))
  PROVE  Counted'
<1>1. ASSUME NEW c, NEW types PROVE Tokens(1, c, types)' = Tokens(1, c, types)
  BY DEF Tokens, Type
<1>2. ASSUME NEW c, NEW bs PROVE Counts(c, bs)' <=> Counts(c, bs)
  BY <1>1 DEF Counts, NumberTypes
<1>3. ASSUME at' \in {"top", "done"} PROVE Counts(cur, blocks)'
  BY <1>2, <1>3
<1>4. ASSUME at' = "block" PROVE Counts(cur, Append(blocks, block))'
  BY <1>2, <1>4
<1> QED
  BY <1>3, <1>4 DEF Counted

LEMMA NextCounted ==
  ASSUME TypeInv, Counted, [Next]_vars
  PROVE  Counted'
<1>1. /\ TokenList /\ cur \in 1 .. Len(toks) + 1 /\ blocks \in Seq(AsmBlock)
      /\ cur \in Nat \ {0}
  BY TokenFacts DEF TypeInv, ParserTypeOK, Source
<1>2. CASE BlockMoves
  <2>1. Counts(cur', Append(blocks, block'))
    BY <1>2, BlockMovesCounted
  <2>2. UNCHANGED <<toks, at, blocks>> /\ at = "block"
    BY <1>2 DEF BlockMoves, BlankLine, ParseByte, ParseWord, InstrNoOperand, InstrImm26,
                InstrLabel, InstrReg, InstrRegReg, InstrRegImm21, InstrRegLabel, Grow, AddInstr,
                AtSecondOperand, AtMnemonic, InBlock
  <2> QED
    BY <2>1, <2>2, CountedUnchanged
<1>3. CASE TopMoves \/ SectionDirective \/ DataOrText
  <2>1. UNCHANGED <<toks, at, blocks>> /\ at = "top"
    BY <1>3 DEF TopMoves, SkipHead, ParseImport, ParseExport, SectionDirective, DataOrText,
                AtStatement
  <2>2. Plain(cur, cur') /\ cur <= cur' /\ cur' \in Int
    BY <1>1, <1>3, TopPlain, HeadPlain DEF HeadMoves
  <2>3. Counts(cur, blocks)
    BY <2>1 DEF Counted
  <2> DEFINE c == cur'
  <2> HIDE DEF c
  <2>4. Plain(cur, c) /\ cur <= c /\ c \in Int
    BY <2>2 DEF c
  <2>5. Counts(c, blocks)
    BY <1>1, <2>3, <2>4, CountsStay
  <2> QED
    BY <2>1, <2>5, CountedUnchanged DEF c
<1>4. CASE BeginBlock
  <2>1. UNCHANGED <<toks, blocks>> /\ at = "top" /\ at' = "block"
        /\ block' = NewBlock(Text(Here)) /\ Text(Here) \in Labels
    BY <1>1, <1>4, TextFacts DEF BeginBlock, AtStatement, IsSymbol
  <2>2. Plain(cur, cur') /\ cur <= cur' /\ cur' \in Int
    BY <1>1, <1>4, HeadPlain DEF HeadMoves
  <2>3. Counts(cur, blocks)
    BY <2>1 DEF Counted
  <2> DEFINE c == cur'
             l == Text(Here)
  <2> HIDE DEF c, l
  <2>4. Plain(cur, c) /\ cur <= c /\ c \in Int /\ l \in Labels
    BY <2>1, <2>2 DEF c, l
  <2>5. /\ Cardinality(NumberPlaces(Append(blocks, NewBlock(l))))
             = Cardinality(NumberPlaces(blocks))
        /\ Cardinality(RegisterPlaces(Append(blocks, NewBlock(l))))
             = Cardinality(RegisterPlaces(blocks))
    BY <1>1, <2>4, NewBlockCounts
  <2>6. Counts(c, Append(blocks, NewBlock(l)))
    BY <1>1, <2>3, <2>4, <2>5, CountsStay
  <2>7. Counts(cur', Append(blocks', block'))
    BY <2>1, <2>6 DEF c, l
  <2> QED
    BY <2>1, <2>7, CountedUnchanged
<1>5. CASE EndBlock
  <2>1. Counts(cur, blocks')
    BY <1>5, EndBlockCounted
  <2>2. UNCHANGED <<toks, cur>> /\ at' = "top"
    BY <1>5 DEF EndBlock
  <2> QED
    BY <2>1, <2>2, CountedUnchanged
<1>6. CASE Stops
  <2>1. UNCHANGED <<toks, cur, blocks, block>>
    BY <1>6 DEF Stops, Halted, vars
  <2>2. \/ at' = "done" /\ at = "top"
        \/ at' \in {"error", "crash"}
        \/ at' = at
    BY <1>6 DEF Stops, Halted, vars
  <2> QED
    BY <2>1, <2>2, CountedUnchanged DEF Counted
<1> QED
  BY <1>2, <1>3, <1>4, <1>5, <1>6, NextCases DEF HeadMoves

LEMMA InitCounted ==
  ASSUME Init
  PROVE  Counted
<1>1. cur = 1 /\ at = "top" /\ blocks = << >>
  BY DEF Init, Called
<1>2. \A types : Tokens(1, 1, types) = {}
  BY DEF Tokens
<1>3. NumberPlaces(<< >>) = {} /\ RegisterPlaces(<< >>) = {}
  BY DEF NumberPlaces, RegisterPlaces, Numbered
<1>4. Counts(1, << >>)
  BY <1>2, <1>3 DEF Counts
<1> QED
  BY <1>1, <1>4 DEF Counted

LEMMA SpecCounted == Spec => [](TypeInv /\ Placed /\ Counted)
<1>1. Init => Counted
  BY InitCounted
<1>2. TypeInv /\ Counted /\ [Next]_vars => Counted'
  BY NextCounted
<1> QED
  BY <1>1, <1>2, SpecPlaced, PTL DEF Spec

(* A file that is accepted, of any length, has as many numbers and         *)
(* registers as its blocks have places for: no operand has been dropped,   *)
(* and none is used twice.                                                 *)
THEOREM OperandsAreAccounted == Spec => []OperandsAccounted
<1>1. TypeInv /\ Placed /\ Counted => OperandsAccounted
  <2> SUFFICES ASSUME TypeInv, Placed, Counted, at = "done"
               PROVE  /\ Cardinality({p \in Positions : IsNumber(p)})
                           = Cardinality(NumberPlaces(blocks))
                      /\ Cardinality({p \in Positions : Type(p) = "REGISTER"})
                           = Cardinality(RegisterPlaces(blocks))
    BY DEF OperandsAccounted
  <2>1. /\ cur \in 1 .. Len(toks) + 1 /\ Len(toks) \in Nat /\ DOMAIN toks = 1 .. Len(toks)
    BY TokenFacts DEF TypeInv, ParserTypeOK
  <2>2. 1 .. cur - 1 = Positions
    BY <2>1 DEF Placed, Positions
  <2>3. /\ Tokens(1, cur, NumberTypes) = {p \in Positions : IsNumber(p)}
        /\ Tokens(1, cur, {"REGISTER"}) = {p \in Positions : Type(p) = "REGISTER"}
    BY <2>2 DEF Tokens, IsNumber
  <2>4. Counts(cur, blocks)
    BY DEF Counted
  <2> QED
    BY <2>3, <2>4 DEF Counts
<1> QED
  BY <1>1, SpecCounted, PTL

(* What one part adds to what stands before it.                            *)
LEMMA ConcatFacts ==
  ASSUME NEW S, NEW s \in Seq(S), NEW t \in Seq(S)
  PROVE  /\ s \o t \in Seq(S)
         /\ Len(s) \in Nat /\ Len(t) \in Nat /\ Len(s \o t) = Len(s) + Len(t)
         /\ \A i \in 1 .. Len(s) : (s \o t)[i] = s[i]
         /\ \A i \in 1 .. Len(t) : (s \o t)[Len(s) + i] = t[i]
<1>1. Len(s) \in Nat /\ Len(t) \in Nat /\ Len(s \o t) = Len(s) + Len(t)
  OBVIOUS
<1>2. ASSUME NEW i \in 1 .. Len(s) PROVE (s \o t)[i] = s[i]
  OBVIOUS
<1>3. ASSUME NEW i \in 1 .. Len(t) PROVE (s \o t)[Len(s) + i] = t[i]
  <2>1. Len(s) + i \in Len(s) + 1 .. Len(s) + Len(t) /\ (Len(s) + i) - Len(s) = i
    BY <1>1
  <2> QED
    BY <1>1, <2>1
<1>4. s \o t \in Seq(S)
  OBVIOUS
<1> QED
  BY <1>1, <1>2, <1>3, <1>4

(* Behind the first p, the rest is put together on its own.                *)
Behind(f, h, p, q) == \A k \in 1 .. q : h[k] = f[p + k]

LEMMA UptoSplits ==
  ASSUME NEW S, NEW n \in Nat, NEW f \in ListsOf(S, n), NEW p \in 0 .. n,
         NEW q \in Nat, n = p + q,
         NEW h \in ListsOf(S, q), Behind(f, h, p, q)
  PROVE  Upto(f, n) = Upto(f, p) \o Upto(h, q)
<1>1. /\ \A k \in 0 .. n : Upto(f, k) \in Seq(S)
      /\ \A k \in 1 .. n : f[k] \in Seq(S) /\ Upto(f, k) = Upto(f, k - 1) \o f[k]
  <2>1. Grows(S, n, f)
    BY UptoGrows
  <2> QED
    BY <2>1 DEF Grows
<1>2. /\ Upto(h, 0) = << >>
      /\ \A k \in 0 .. q : Upto(h, k) \in Seq(S)
      /\ \A k \in 1 .. q : h[k] \in Seq(S) /\ Upto(h, k) = Upto(h, k - 1) \o h[k]
  <2>1. Grows(S, q, h)
    BY UptoGrows
  <2> QED
    BY <2>1 DEF Grows
<1> DEFINE T == {d \in Nat : d <= q => Upto(f, p + d) = Upto(f, p) \o Upto(h, d)}
<1>3. 0 \in T
  <2>1. p + 0 = p /\ p \in 0 .. n
    OBVIOUS
  <2>2. Upto(f, p) \o << >> = Upto(f, p)
    <3>1. Upto(f, p) \in Seq(S)
      BY <1>1, <2>1
    <3> QED
      BY <3>1
  <2> QED
    BY <1>2, <2>1, <2>2
<1>4. ASSUME NEW d \in Nat, d \in T PROVE d + 1 \in T
  <2> SUFFICES ASSUME d + 1 <= q PROVE Upto(f, p + (d + 1)) = Upto(f, p) \o Upto(h, d + 1)
    OBVIOUS
  <2>1. /\ p + (d + 1) \in 1 .. n /\ (p + (d + 1)) - 1 = p + d /\ d <= q
        /\ d + 1 \in 1 .. q /\ (d + 1) - 1 = d /\ d \in 0 .. q /\ p \in 0 .. n
    OBVIOUS
  <2>2. Upto(f, p + (d + 1)) = Upto(f, p + d) \o f[p + (d + 1)]
    BY <1>1, <2>1
  <2>3. Upto(h, d + 1) = Upto(h, d) \o h[d + 1]
    BY <1>2, <2>1
  <2>4. Upto(f, p + d) = Upto(f, p) \o Upto(h, d) /\ h[d + 1] = f[p + (d + 1)]
    BY <1>4, <2>1 DEF Behind
  <2>5. Upto(f, p) \in Seq(S) /\ Upto(h, d) \in Seq(S) /\ h[d + 1] \in Seq(S)
    BY <1>1, <1>2, <2>1
  <2>6. Upto(f, p) \o (Upto(h, d) \o h[d + 1]) = (Upto(f, p) \o Upto(h, d)) \o h[d + 1]
    <3> DEFINE x == Upto(f, p)
               y == Upto(h, d)
               z == h[d + 1]
    <3>1. x \in Seq(S) /\ y \in Seq(S) /\ z \in Seq(S)
      BY <2>5
    <3> HIDE DEF x, y, z
    <3>2. x \o (y \o z) = (x \o y) \o z
      BY <3>1, Associates
    <3> QED
      BY <3>2 DEF x, y, z
  <2> QED
    BY <2>2, <2>3, <2>4, <2>6
<1> HIDE DEF T
<1>5. \A d \in Nat : d \in T
  BY <1>3, <1>4, AllFollow
<1> QED
  BY <1>5 DEF T

(* What FlattenSeq is given in Distinct.                                   *)
Firsts(seq) ==
  [k \in 1 .. Len(seq) |->
     IF \E j \in 1 .. k - 1 : seq[j] = seq[k] THEN << >> ELSE <<seq[k]>>]

LEMMA DistinctIs ==
  ASSUME NEW S, NEW a \in Seq(S)
  PROVE  /\ Firsts(a) \in ListsOf(S, Len(a)) /\ Len(a) \in Nat
         /\ Distinct(a) = Upto(Firsts(a), Len(a))
         /\ Distinct(a) \in Seq(S)
<1>1. Len(a) \in Nat /\ DOMAIN a = 1 .. Len(a) /\ \A k \in 1 .. Len(a) : a[k] \in S
  OBVIOUS
<1>2. Firsts(a) \in ListsOf(S, Len(a))
  <2>1. \A k \in 1 .. Len(a) : << >> \in Seq(S) /\ <<a[k]>> \in Seq(S)
    BY <1>1
  <2> QED
    BY <2>1 DEF ListsOf, Firsts
<1>3. Distinct(a) = FlattenSeq(Firsts(a))
  BY <1>1 DEF Distinct, Firsts
<1>4. FlattenSeq(Firsts(a)) = Upto(Firsts(a), Len(a))
  BY <1>1, <1>2, UptoGrows DEF Grows
<1> QED
  BY <1>1, <1>2, <1>3, <1>4, PutTogether

(* Nothing is lost and nothing is added.                                   *)
LEMMA DistinctHas ==
  ASSUME NEW S, NEW a \in Seq(S), NEW x
  PROVE  Contains(Distinct(a), x) <=> \E j \in 1 .. Len(a) : a[j] = x
<1> DEFINE n == Len(a)
           f == Firsts(a)
           T == {m \in Nat : m <= n => (   (\E q \in 1 .. Len(Upto(f, m)) : Upto(f, m)[q] = x)
                                      <=> \E j \in 1 .. m : a[j] = x)}
<1>1. n \in Nat /\ f \in ListsOf(S, n) /\ Distinct(a) = Upto(f, n)
  BY DistinctIs
<1>2. /\ Upto(f, 0) = << >>
      /\ \A k \in 0 .. n : Upto(f, k) \in Seq(S)
      /\ \A k \in 1 .. n : f[k] \in Seq(S) /\ Upto(f, k) = Upto(f, k - 1) \o f[k]
  <2> HIDE DEF n, f
  <2> QED
    BY <1>1, UptoGrows DEF Grows
<1>3. \A k \in 1 .. n : f[k] = IF \E j \in 1 .. k - 1 : a[j] = a[k] THEN << >> ELSE <<a[k]>>
  BY DEF Firsts
<1> HIDE DEF n, f
<1>4. 0 \in T
  <2>1. Len(Upto(f, 0)) = 0
    BY <1>2
  <2> QED
    BY <2>1
<1>5. ASSUME NEW m \in Nat, m \in T PROVE m + 1 \in T
  <2> SUFFICES ASSUME m + 1 <= n
               PROVE  (\E q \in 1 .. Len(Upto(f, m + 1)) : Upto(f, m + 1)[q] = x)
                      <=> \E j \in 1 .. m + 1 : a[j] = x
    OBVIOUS
  <2>1. m + 1 \in 1 .. n /\ (m + 1) - 1 = m /\ m \in 0 .. n /\ m <= n
    BY <1>1
  <2> DEFINE s == Upto(f, m)
             t == f[m + 1]
             r == s \o t
  <2>2. Upto(f, m + 1) = r /\ s \in Seq(S) /\ t \in Seq(S)
    BY <1>2, <2>1
  <2>3. (\E q \in 1 .. Len(s) : s[q] = x) <=> \E j \in 1 .. m : a[j] = x
    BY <1>5, <2>1
  <2>4. t = IF \E j \in 1 .. m : a[j] = a[m + 1] THEN << >> ELSE <<a[m + 1]>>
    BY <1>3, <2>1
  <2>5. (\E j \in 1 .. m + 1 : a[j] = x) <=> (\E j \in 1 .. m : a[j] = x) \/ a[m + 1] = x
    <3>1. \A j \in 1 .. m + 1 : j = m + 1 \/ j \in 1 .. m
      OBVIOUS
    <3>2. m + 1 \in 1 .. m + 1 /\ \A j \in 1 .. m : j \in 1 .. m + 1
      OBVIOUS
    <3> QED
      BY <3>1, <3>2
  <2> HIDE DEF s, t
  <2>6. CASE \E j \in 1 .. m : a[j] = a[m + 1]
    <3>1. r = s
      BY <2>2, <2>4, <2>6
    <3> HIDE DEF r
    <3> QED
      BY <2>2, <2>3, <2>5, <2>6, <3>1
  <2>7. CASE ~\E j \in 1 .. m : a[j] = a[m + 1]
    <3>1. t = <<a[m + 1]>> /\ Len(t) = 1 /\ t[1] = a[m + 1]
      BY <2>4, <2>7
    <3>2. Len(s) \in Nat /\ Len(r) = Len(s) + 1
          /\ (\A i \in 1 .. Len(s) : r[i] = s[i]) /\ r[Len(s) + 1] = t[1]
      <4>1. /\ Len(s) \in Nat /\ Len(r) = Len(s) + Len(t)
            /\ \A i \in 1 .. Len(s) : r[i] = s[i]
            /\ \A i \in 1 .. Len(t) : r[Len(s) + i] = t[i]
        BY <2>2, ConcatFacts
      <4>2. 1 \in 1 .. Len(t)
        BY <3>1
      <4> HIDE DEF r
      <4> QED
        BY <3>1, <4>1, <4>2
    <3> HIDE DEF r
    <3>3. (\E q \in 1 .. Len(r) : r[q] = x) <=> (\E q \in 1 .. Len(s) : s[q] = x) \/ t[1] = x
      <4> DEFINE l == Len(s)
      <4>1. \A q \in 1 .. l + 1 : q = l + 1 \/ q \in 1 .. l
        BY <3>2
      <4>2. l + 1 \in 1 .. l + 1 /\ \A q \in 1 .. l : q \in 1 .. l + 1
        BY <3>2
      <4> QED
        BY <3>2, <4>1, <4>2
    <3> QED
      BY <2>2, <2>3, <2>5, <3>1, <3>3
  <2> QED
    BY <2>6, <2>7
<1> HIDE DEF T
<1>6. \A m \in Nat : m \in T
  BY <1>4, <1>5, AllFollow
<1>7. (\E q \in 1 .. Len(Distinct(a)) : Distinct(a)[q] = x) <=> \E j \in 1 .. n : a[j] = x
  BY <1>1, <1>6 DEF T
<1> QED
  BY <1>7 DEF Contains, n

(* Adding the names of a list to those of the lists before gives the       *)
(* names of all, each once.                                                *)
LEMMA AddNamesMeans ==
  ASSUME NEW S, NEW a \in Seq(S), NEW b \in Seq(S)
  PROVE  AddNames(Distinct(a), b) = Distinct(a \o b)
<1> DEFINE p == Len(a)
           q == Len(b)
           c == a \o b
           f == Firsts(c)
           h == [k \in 1 .. q |->
                   IF Contains(Distinct(a), b[k]) \/ \E j \in 1 .. k - 1 : b[j] = b[k]
                   THEN << >> ELSE <<b[k]>>]
<1>1. /\ c \in Seq(S) /\ p \in Nat /\ q \in Nat /\ Len(c) = p + q
      /\ \A i \in 1 .. p : c[i] = a[i]
      /\ \A i \in 1 .. q : c[p + i] = b[i]
  BY ConcatFacts
<1>2. f \in ListsOf(S, p + q) /\ Distinct(c) = Upto(f, p + q)
  BY <1>1, DistinctIs
<1>3. h \in ListsOf(S, q)
  <2>1. \A k \in 1 .. q : << >> \in Seq(S) /\ <<b[k]>> \in Seq(S)
    BY <1>1
  <2> QED
    BY <2>1 DEF ListsOf
<1>4. AddNames(Distinct(a), b) = Distinct(a) \o Upto(h, q)
  <2>1. AddNames(Distinct(a), b) = Distinct(a) \o FlattenSeq(h)
    <3>1. DOMAIN b = 1 .. q
      OBVIOUS
    <3> QED
      BY <3>1 DEF AddNames
  <2> HIDE DEF h, p, q, c, f
  <2> QED
    BY <1>1, <1>3, <2>1, UptoGrows DEF Grows
<1>5. ASSUME NEW k \in 1 .. q PROVE h[k] = f[p + k]
  <2> DEFINE i == p + k
  <2>1. i \in 1 .. p + q /\ c[i] = b[k] /\ k \in Nat
    BY <1>1
  <2>2. f[i] = IF \E j \in 1 .. i - 1 : c[j] = c[i] THEN << >> ELSE <<c[i]>>
    BY <1>1, <2>1 DEF Firsts
  <2>3. Contains(Distinct(a), b[k]) <=> \E j \in 1 .. p : a[j] = b[k]
    BY DistinctHas
  <2>4. (\E j \in 1 .. i - 1 : c[j] = b[k])
          <=> (\E j \in 1 .. p : a[j] = b[k]) \/ \E j \in 1 .. k - 1 : b[j] = b[k]
    <3>1. ASSUME NEW j \in 1 .. i - 1 PROVE j \in 1 .. p \/ (j - p \in 1 .. k - 1 /\ j = p + (j - p))
      BY <1>1, <2>1
    <3>2. \A j \in 1 .. p : j \in 1 .. i - 1
      BY <1>1, <2>1
    <3>3. \A j \in 1 .. k - 1 : p + j \in 1 .. i - 1 /\ j \in 1 .. q
      BY <1>1, <2>1
    <3> HIDE DEF i, p, q, c
    <3>4. ASSUME NEW j \in 1 .. i - 1, c[j] = b[k]
          PROVE  (\E l \in 1 .. p : a[l] = b[k]) \/ \E l \in 1 .. k - 1 : b[l] = b[k]
      <4>1. CASE j \in 1 .. p
        BY <1>1, <3>4, <4>1
      <4>2. CASE j - p \in 1 .. k - 1 /\ j = p + (j - p)
        <5> DEFINE l == j - p
        <5>1. l \in 1 .. k - 1 /\ j = p + l /\ l \in 1 .. q
          BY <3>3, <4>2
        <5> HIDE DEF l
        <5> QED
          BY <1>1, <3>4, <5>1
      <4> QED
        BY <3>1, <4>1, <4>2
    <3>5. ASSUME NEW l \in 1 .. p, a[l] = b[k] PROVE \E j \in 1 .. i - 1 : c[j] = b[k]
      BY <1>1, <3>2, <3>5
    <3>6. ASSUME NEW l \in 1 .. k - 1, b[l] = b[k] PROVE \E j \in 1 .. i - 1 : c[j] = b[k]
      BY <1>1, <3>3, <3>6
    <3> QED
      BY <3>4, <3>5, <3>6
  <2> QED
    BY <2>1, <2>2, <2>3, <2>4
<1>6. Upto(f, p) = Distinct(a)
  <2>1. ASSUME NEW k \in 1 .. p PROVE f[k] = Firsts(a)[k]
    <3>1. k \in 1 .. p + q /\ \A j \in 1 .. k - 1 : j \in 1 .. p
      BY <1>1
    <3>2. f[k] = IF \E j \in 1 .. k - 1 : c[j] = c[k] THEN << >> ELSE <<c[k]>>
      BY <1>1, <3>1 DEF Firsts
    <3>3. Firsts(a)[k] = IF \E j \in 1 .. k - 1 : a[j] = a[k] THEN << >> ELSE <<a[k]>>
      BY DEF Firsts
    <3> QED
      BY <1>1, <3>1, <3>2, <3>3
  <2>2. [j \in 1 .. p |-> f[j]] = [j \in 1 .. p |-> Firsts(a)[j]]
    BY <2>1
  <2>3. Upto(f, p) = Upto(Firsts(a), p)
    BY <2>2 DEF Upto
  <2> QED
    BY <2>3, DistinctIs
<1>7. Upto(f, p + q) = Upto(f, p) \o Upto(h, q)
  <2> DEFINE n == p + q
  <2>1. Behind(f, h, p, q)
    BY <1>5 DEF Behind
  <2>2. n \in Nat /\ p \in 0 .. n /\ q \in Nat /\ n = p + q
    BY <1>1
  <2>3. f \in ListsOf(S, n) /\ h \in ListsOf(S, q)
    BY <1>2, <1>3
  <2> HIDE DEF f, h, p, q, n
  <2>4. Upto(f, n) = Upto(f, p) \o Upto(h, q)
    BY <2>1, <2>2, <2>3, UptoSplits
  <2> QED
    BY <2>4 DEF n
<1> QED
  BY <1>2, <1>4, <1>6, <1>7

(* The tokens a statement is printed with.                                 *)
Texts == Labels \union Numerals \union DOMAIN Registers \union STRING \union {""}
TokenSet == {t \in [type : TokenTypes, str : Texts] : IsToken(t)}
OperandSet == Numerals \union DOMAIN Registers \union Words

LEMMA TokIs ==
  ASSUME NEW type \in TokenTypes, NEW str \in Texts
  PROVE  /\ Tok(type, str).type = type /\ Tok(type, str).str = str
         /\ IsToken(Tok(type, str)) => Tok(type, str) \in TokenSet
BY DEF Tok, TokenSet

LEMMA MarkIs ==
  ASSUME NEW type \in MarkTypes
  PROVE  Mark(type) \in TokenSet /\ Mark(type).type = type
<1>1. type \in TokenTypes /\ "" \in Texts
  BY DEF TokenTypes, Texts
<1>2. type \notin NumberTypes /\ type # "LABEL" /\ type # "INSTRUCTION" /\ type # "REGISTER"
  BY DEF MarkTypes, NumberTypes
<1>3. Tok(type, "").type = type
  BY <1>1, TokIs
<1>4. IsToken(Tok(type, ""))
  BY <1>1, <1>2, <1>3 DEF IsToken
<1> QED
  BY <1>1, <1>3, <1>4, TokIs DEF Mark

LEMMA SymbolIs ==
  ASSUME NEW n \in Labels
  PROVE  /\ Symbol(n) \in TokenSet /\ Symbol(n).type \in SymbolTypes /\ Symbol(n).str = n
         /\ n \in Mnemonics => Symbol(n).type = "INSTRUCTION"
<1> DEFINE type == IF n \in Mnemonics THEN "INSTRUCTION" ELSE "LABEL"
<1>1. type \in TokenTypes /\ n \in Texts /\ type \in SymbolTypes
  BY DEF TokenTypes, WordTypes, SymbolTypes, Texts
<1>2. Tok(type, n).type = type /\ Tok(type, n).str = n
  BY <1>1, TokIs
<1>3. IsToken(Tok(type, n))
  BY <1>1, <1>2 DEF IsToken, NumberTypes
<1> QED
  BY <1>1, <1>2, <1>3, TokIs DEF Symbol

LEMMA NumberIs ==
  ASSUME NEW n \in Numerals
  PROVE  /\ Number(n) \in TokenSet /\ Number(n).str = n
         /\ Number(n).type = IF Atoi[n] < 0 THEN "NEGATIVE_NUMBER" ELSE "NUMBER"
         /\ Number(n).type \in NumberTypes
<1> DEFINE type == IF Atoi[n] < 0 THEN "NEGATIVE_NUMBER" ELSE "NUMBER"
<1>1. type \in TokenTypes /\ n \in Texts /\ type \in NumberTypes
  BY DEF TokenTypes, WordTypes, NumberTypes, Texts
<1>2. Tok(type, n).type = type /\ Tok(type, n).str = n
  BY <1>1, TokIs
<1>3. IsToken(Tok(type, n))
  BY <1>1, <1>2 DEF IsToken, NumberTypes
<1> QED
  BY <1>1, <1>2, <1>3, TokIs DEF Number

LEMMA OperandIs ==
  ASSUME NEW n \in OperandSet
  PROVE  /\ Operand(n) \in TokenSet /\ Operand(n).str = n
         /\ n \in Numerals =>
              /\ n \notin DOMAIN Registers /\ n \notin Words
              /\ Operand(n).type \in NumberTypes
              /\ Operand(n).type = IF Atoi[n] < 0 THEN "NEGATIVE_NUMBER" ELSE "NUMBER"
         /\ n \in DOMAIN Registers =>
              n \notin Numerals /\ n \notin Words /\ Operand(n).type = "REGISTER"
         /\ n \in Words =>
              /\ n \notin Numerals /\ n \notin DOMAIN Registers /\ n \in Labels
              /\ Operand(n).type \in SymbolTypes
<1>1. Numerals \intersect DOMAIN Registers = {}
  BY FilesAssumption
<1>2. CASE n \in Numerals
  BY <1>1, <1>2, NumberIs DEF Operand, Words
<1>3. CASE n \in DOMAIN Registers
  <2>1. "REGISTER" \in TokenTypes /\ n \in Texts
    BY <1>3 DEF TokenTypes, Texts
  <2>2. Tok("REGISTER", n).type = "REGISTER" /\ Tok("REGISTER", n).str = n
    BY <2>1, TokIs
  <2>3. IsToken(Tok("REGISTER", n))
    BY <1>3, <2>1, <2>2 DEF IsToken, NumberTypes
  <2>4. Operand(n) = Tok("REGISTER", n) /\ n \notin Numerals /\ n \notin Words
    BY <1>1, <1>3 DEF Operand, Words
  <2> QED
    BY <1>3, <2>1, <2>2, <2>3, <2>4, TokIs
<1>4. CASE n \in Words
  <2>1. n \in Labels /\ n \notin Numerals /\ n \notin DOMAIN Registers
    BY <1>4 DEF Words
  <2>2. Operand(n) = Symbol(n)
    BY <2>1 DEF Operand
  <2> QED
    BY <1>4, <2>1, <2>2, SymbolIs
<1> QED
  BY <1>2, <1>3, <1>4 DEF OperandSet

LEMMA DotIs ==
  ASSUME NEW word \in Labels
  PROVE  /\ Dot(word) \in Seq(TokenSet) /\ Len(Dot(word)) = 2
         /\ Dot(word)[1].type = "PERIOD"
         /\ Dot(word)[2].type = "LABEL" /\ Dot(word)[2].str = word
<1>1. Mark("PERIOD") \in TokenSet /\ Mark("PERIOD").type = "PERIOD"
  BY MarkIs DEF MarkTypes
<1>2. "LABEL" \in TokenTypes /\ word \in Texts
  BY DEF TokenTypes, WordTypes, SymbolTypes, Texts
<1>3. Tok("LABEL", word).type = "LABEL" /\ Tok("LABEL", word).str = word
  BY <1>2, TokIs
<1>4. Tok("LABEL", word) \in TokenSet
  <2>1. IsToken(Tok("LABEL", word))
    BY <1>2, <1>3 DEF IsToken, NumberTypes
  <2> QED
    BY <1>2, <2>1, TokIs
<1> QED
  BY <1>1, <1>3, <1>4 DEF Dot

(* Commas between items.                                                   *)
LEMMA CommasAre ==
  ASSUME NEW S, NEW items \in Seq(S), Mark("COMMA") \in S
  PROVE  /\ Commas(items) \in Seq(S)
         /\ Len(items) \in Nat
         /\ Len(items) = 0 => Commas(items) = << >> /\ Len(Commas(items)) = 0
         /\ Len(items) # 0 => Len(Commas(items)) = 2 * Len(items) - 1
         /\ \A k \in 1 .. Len(items) : Commas(items)[2 * k - 1] = items[k]
         /\ \A k \in 1 .. Len(items) - 1 : Commas(items)[2 * k] = Mark("COMMA")
<1> DEFINE n == Len(items)
           m == 2 * n - 1
           f == [k \in 1 .. m |-> IF k % 2 = 1 THEN items[(k + 1) \div 2] ELSE Mark("COMMA")]
<1>1. n \in Nat /\ \A k \in 1 .. n : items[k] \in S
  OBVIOUS
<1>2. Commas(items) = f
  BY DEF Commas
<1>3. ASSUME NEW k \in 1 .. m PROVE f[k] \in S
  <2>1. CASE k % 2 = 1
    <3>1. (k + 1) \div 2 \in 1 .. n
      BY <1>1, <2>1
    <3> QED
      BY <1>1, <2>1, <3>1
  <2>2. CASE k % 2 # 1
    BY <2>2
  <2> QED
    BY <2>1, <2>2
<1>4. ASSUME NEW k \in 1 .. n PROVE f[2 * k - 1] = items[k]
  <2>1. 2 * k - 1 \in 1 .. m /\ (2 * k - 1) % 2 = 1 /\ ((2 * k - 1) + 1) \div 2 = k
    BY <1>1
  <2> QED
    BY <2>1
<1>5. ASSUME NEW k \in 1 .. n - 1 PROVE f[2 * k] = Mark("COMMA")
  <2>1. 2 * k \in 1 .. m /\ (2 * k) % 2 = 0
    BY <1>1
  <2> QED
    BY <2>1
<1>6. CASE n = 0
  <2>1. f = << >> /\ \A k \in 1 .. n - 1 : FALSE
    BY <1>6
  <2> QED
    BY <1>1, <1>2, <1>6, <2>1
<1>7. CASE n # 0
  <2>1. m \in Nat
    BY <1>1, <1>7
  <2>2. f \in [1 .. m -> S]
    BY <1>3
  <2> HIDE DEF f
  <2>3. f \in Seq(S) /\ Len(f) = m
    <3> HIDE DEF m
    <3> QED
      BY <2>1, <2>2
  <2> QED
    BY <1>1, <1>2, <1>4, <1>5, <1>7, <2>3
<1> QED
  BY <1>6, <1>7

---------------------------------------------------------------------------
(* A sequence stands in the token list, from p.                            *)
At(p, u) == \A k \in 1 .. Len(u) : p + k - 1 \in DOMAIN toks /\ toks[p + k - 1] = u[k]

LEMMA AtParts ==
  ASSUME NEW S, NEW u \in Seq(S), NEW v \in Seq(S), NEW p \in Int, At(p, u \o v),
         NEW n, n = p + Len(u)
  PROVE  At(p, u) /\ At(n, v) /\ n \in Int
<1> DEFINE w == u \o v
<1>1. /\ Len(u) \in Nat /\ Len(v) \in Nat /\ Len(w) = Len(u) + Len(v)
      /\ \A i \in 1 .. Len(u) : w[i] = u[i]
      /\ \A i \in 1 .. Len(v) : w[Len(u) + i] = v[i]
  BY ConcatFacts
<1>2. \A k \in 1 .. Len(w) : p + k - 1 \in DOMAIN toks /\ toks[p + k - 1] = w[k]
  BY DEF At
<1> HIDE DEF w
<1>3. At(p, u)
  <2>1. \A k \in 1 .. Len(u) : k \in 1 .. Len(w)
    BY <1>1
  <2> QED
    BY <1>1, <1>2, <2>1 DEF At
<1>4. At(n, v)
  <2> SUFFICES ASSUME NEW k \in 1 .. Len(v)
               PROVE  n + k - 1 \in DOMAIN toks /\ toks[n + k - 1] = v[k]
    BY DEF At
  <2> DEFINE j == Len(u) + k
  <2>1. j \in 1 .. Len(w) /\ p + j - 1 = n + k - 1
    BY <1>1
  <2>2. w[j] = v[k]
    BY <1>1
  <2> HIDE DEF j
  <2> QED
    BY <1>2, <2>1, <2>2
<1> QED
  BY <1>1, <1>3, <1>4

LEMMA AtOne ==
  ASSUME NEW p \in Int, NEW x, At(p, <<x>>)
  PROVE  p \in DOMAIN toks /\ Type(p) = x.type /\ Text(p) = x.str
<1>1. 1 \in 1 .. Len(<<x>>) /\ p + 1 - 1 = p
  OBVIOUS
<1>2. p \in DOMAIN toks /\ toks[p] = x
  BY <1>1 DEF At
<1> QED
  BY <1>2 DEF Type, Text

LEMMA AtTwo ==
  ASSUME NEW p \in Int, NEW x, NEW y, At(p, <<x, y>>)
  PROVE  /\ p \in DOMAIN toks /\ Type(p) = x.type /\ Text(p) = x.str
         /\ p + 1 \in DOMAIN toks /\ Type(p + 1) = y.type /\ Text(p + 1) = y.str
<1>1. 1 \in 1 .. Len(<<x, y>>) /\ 2 \in 1 .. Len(<<x, y>>) /\ p + 1 - 1 = p /\ p + 2 - 1 = p + 1
  OBVIOUS
<1>2. p \in DOMAIN toks /\ toks[p] = x /\ p + 1 \in DOMAIN toks /\ toks[p + 1] = y
  BY <1>1 DEF At
<1> QED
  BY <1>2 DEF Type, Text

(* A comma-separated list of tokens from p.                                *)
Listed(p, list) ==
  /\ \A k \in 1 .. Len(list) :
       Type(p + 2 * k - 2) = list[k].type /\ Text(p + 2 * k - 2) = list[k].str
  /\ \A k \in 1 .. Len(list) - 1 : Type(p + 2 * k - 1) = "COMMA"

LEMMA AtCommas ==
  ASSUME NEW p \in Int, NEW list \in Seq(TokenSet), At(p, Commas(list))
  PROVE  Listed(p, list)
<1> DEFINE n == Len(list)
           u == Commas(list)
<1>1. Mark("COMMA") \in TokenSet /\ Mark("COMMA").type = "COMMA"
  BY MarkIs DEF MarkTypes
<1>2. /\ n \in Nat /\ n # 0 => Len(u) = 2 * n - 1
      /\ \A k \in 1 .. n : u[2 * k - 1] = list[k]
      /\ \A k \in 1 .. n - 1 : u[2 * k] = Mark("COMMA")
  BY <1>1, CommasAre
<1>3. \A k \in 1 .. Len(u) : p + k - 1 \in DOMAIN toks /\ toks[p + k - 1] = u[k]
  BY DEF At
<1> HIDE DEF u
<1>4. ASSUME NEW k \in 1 .. n
      PROVE  Type(p + 2 * k - 2) = list[k].type /\ Text(p + 2 * k - 2) = list[k].str
  <2>1. 2 * k - 1 \in 1 .. Len(u) /\ p + (2 * k - 1) - 1 = p + 2 * k - 2
    BY <1>2
  <2>2. p + 2 * k - 2 \in DOMAIN toks /\ toks[p + 2 * k - 2] = list[k]
    BY <1>2, <1>3, <2>1
  <2> QED
    BY <2>2 DEF Type, Text
<1>5. ASSUME NEW k \in 1 .. n - 1 PROVE Type(p + 2 * k - 1) = "COMMA"
  <2>1. 2 * k \in 1 .. Len(u) /\ p + (2 * k) - 1 = p + 2 * k - 1
    BY <1>2
  <2>2. p + 2 * k - 1 \in DOMAIN toks /\ toks[p + 2 * k - 1] = Mark("COMMA")
    BY <1>2, <1>3, <2>1
  <2> QED
    BY <1>1, <2>2 DEF Type
<1> QED
  BY <1>4, <1>5 DEF Listed

(* What the parser counts is what is listed, when no comma follows.        *)
LEMMA ListedItems ==
  ASSUME TokenList, NEW p \in Nat \ {0}, NEW list \in Seq(TokenSet), Listed(p, list),
         NEW types, "NULL" \notin types, \A k \in 1 .. Len(list) : list[k].type \in types,
         IF list = << >> THEN Type(p) \notin types
                         ELSE Type(p + 2 * Len(list) - 1) # "COMMA"
  PROVE  /\ Items(p, types) = Len(list) /\ Len(list) \in Nat
         /\ AfterItems(p, types) = IF list = << >> THEN p ELSE p + 2 * Len(list) - 1
<1> DEFINE m == Len(list)
           n == Items(p, types)
<1>1. n \in 0 .. Len(toks) /\ ItemCount(p, types, n) /\ Len(toks) \in Nat
  BY ItemsExist, TokenFacts
<1>2. m \in Nat /\ (list = << >> <=> m = 0)
  OBVIOUS
<1>3. /\ \A k \in 1 .. m : Type(p + 2 * k - 2) \in types
      /\ \A k \in 1 .. m - 1 : Type(p + 2 * k - 1) = "COMMA"
  BY DEF Listed
<1>4. /\ \A k \in 0 .. n - 1 : Type(p + 2 * k) \in types
      /\ \A k \in 0 .. n - 2 : Type(p + 2 * k + 1) = "COMMA"
      /\ n = 0 \/ Type(p + 2 * n - 1) = "COMMA" => Type(p + 2 * n) \notin types
  BY <1>1 DEF ItemCount
<1>5. n \in Nat
  BY <1>1
<1> HIDE DEF n, m
<1>6. ASSUME n < m PROVE FALSE
  <2>1. n + 1 \in 1 .. m /\ p + 2 * (n + 1) - 2 = p + 2 * n
    BY <1>2, <1>5, <1>6
  <2>2. Type(p + 2 * n) \in types
    BY <1>3, <2>1
  <2>3. n # 0 => Type(p + 2 * n - 1) = "COMMA"
    <3>1. n # 0 => n \in 1 .. m - 1
      BY <1>2, <1>5, <1>6
    <3> QED
      BY <1>3, <3>1
  <2> QED
    BY <1>4, <2>2, <2>3
<1>7. ASSUME n > m PROVE FALSE
  <2>1. CASE m = 0
    <3>1. 0 \in 0 .. n - 1 /\ p + 2 * 0 = p
      BY <1>2, <1>5, <1>7, <2>1
    <3>2. Type(p) \in types
      BY <1>4, <3>1
    <3> QED
      BY <1>2, <2>1, <3>2
  <2>2. CASE m # 0
    <3>1. m - 1 \in 0 .. n - 2 /\ p + 2 * (m - 1) + 1 = p + 2 * m - 1
      BY <1>2, <1>5, <1>7, <2>2
    <3>2. Type(p + 2 * m - 1) = "COMMA"
      BY <1>4, <3>1
    <3> QED
      BY <1>2, <2>2, <3>2 DEF m
  <2> QED
    BY <2>1, <2>2
<1>8. n = m
  BY <1>2, <1>5, <1>6, <1>7
<1>9. AfterItems(p, types) = IF n = 0 THEN p
          ELSE IF Type(p + 2 * n - 1) = "COMMA" THEN p + 2 * n ELSE p + 2 * n - 1
  BY DEF AfterItems, n
<1>10. AfterItems(p, types) = IF list = << >> THEN p ELSE p + 2 * m - 1
  <2>1. CASE m = 0
    BY <1>2, <1>8, <1>9, <2>1
  <2>2. CASE m # 0
    BY <1>2, <1>8, <1>9, <2>2 DEF m
  <2> QED
    BY <2>1, <2>2
<1> QED
  BY <1>2, <1>8, <1>10 DEF n, m

(* The fields of each kind of statement.                                   *)
Kinds == {"import", "export", "section", "label", "data", "text", "blank", "instr", "byte", "word"}

StatementHas(s) ==
  /\ s.is \in Kinds
  /\ s.is \in {"import", "export"} => /\ s.names \in Seq(Labels) /\ s.names # << >>
                                      /\ s.braces \in BOOLEAN
  /\ s.is = "import" => s.from \in STRING
  /\ s.is \in {"section", "label"} => s.name \in Labels
  /\ s.is = "instr" => s.op \in Mnemonics /\ s.args \in Arguments
  /\ s.is = "byte" => s.items \in Seq(ByteNumbers)
  /\ s.is = "word" => s.items \in Seq(WordNumbers \union Words)

LEMMA StatementFacts ==
  ASSUME NEW s \in StatementSet
  PROVE  StatementHas(s)
<1>1. CASE s \in [is : {"import"}, names : Seq(Labels) \ {<< >>}, braces : BOOLEAN, from : STRING]
  BY <1>1 DEF StatementHas, Kinds
<1>2. CASE s \in [is : {"export"}, names : Seq(Labels) \ {<< >>}, braces : BOOLEAN]
  BY <1>2 DEF StatementHas, Kinds
<1>3. CASE s \in [is : {"section", "label"}, name : Labels]
  BY <1>3 DEF StatementHas, Kinds
<1>4. CASE s \in [is : {"data", "text", "blank"}]
  BY <1>4 DEF StatementHas, Kinds
<1>5. CASE s \in [is : {"instr"}, op : Mnemonics, args : Arguments]
  BY <1>5 DEF StatementHas, Kinds
<1>6. CASE s \in [is : {"byte"}, items : Seq(ByteNumbers)]
  BY <1>6 DEF StatementHas, Kinds
<1>7. CASE s \in [is : {"word"}, items : Seq(WordNumbers \union Words)]
  BY <1>7 DEF StatementHas, Kinds
<1> QED
  BY <1>1, <1>2, <1>3, <1>4, <1>5, <1>6, <1>7 DEF StatementSet

(* The operands of an instruction: none, one, or a register and one.       *)
LEMMA ArgumentFacts ==
  ASSUME NEW a \in Arguments
  PROVE  /\ a \in Seq(OperandSet) /\ Len(a) \in 0 .. 2
         /\ Len(a) = 0 => a = << >>
         /\ Len(a) = 1 => a[1] \in DOMAIN Registers \union Words \union NumbersFrom(0)
         /\ Len(a) = 2 =>
              /\ a[1] \in DOMAIN Registers
              /\ a[2] \in DOMAIN Registers \union Words \union NumbersFrom(-ImmSpan)
<1>1. \A low : NumbersFrom(low) \subseteq Numerals
  BY DEF NumbersFrom
<1>2. CASE a = << >>
  BY <1>2
<1>3. CASE a \in {<<x>> : x \in DOMAIN Registers \union Words \union NumbersFrom(0)}
  <2>1. PICK x \in DOMAIN Registers \union Words \union NumbersFrom(0) : a = <<x>>
    BY <1>3
  <2>2. x \in OperandSet
    BY <1>1, <2>1 DEF OperandSet
  <2> QED
    BY <2>1, <2>2
<1>4. CASE a \in {<<r, x>> : r \in DOMAIN Registers,
                    x \in DOMAIN Registers \union Words \union NumbersFrom(-ImmSpan)}
  <2>1. PICK r \in DOMAIN Registers,
             x \in DOMAIN Registers \union Words \union NumbersFrom(-ImmSpan) : a = <<r, x>>
    BY <1>4
  <2>2. x \in OperandSet /\ r \in OperandSet
    BY <1>1, <2>1 DEF OperandSet
  <2> QED
    BY <2>1, <2>2
<1> QED
  BY <1>2, <1>3, <1>4 DEF Arguments

(* The tokens of a list of names and of a list of operands.                *)
NameToks(names) == [k \in DOMAIN names |-> Symbol(names[k])]
OperandToks(items) == [k \in DOMAIN items |-> Operand(items[k])]

LEMMA NameToksAre ==
  ASSUME NEW names \in Seq(Labels)
  PROVE  /\ NameToks(names) \in Seq(TokenSet) /\ Len(NameToks(names)) = Len(names)
         /\ Len(names) \in Nat /\ (names = << >> <=> NameToks(names) = << >>)
         /\ \A k \in 1 .. Len(names) :
              NameToks(names)[k].type \in SymbolTypes /\ NameToks(names)[k].str = names[k]
<1> DEFINE n == Len(names)
<1>1. n \in Nat /\ DOMAIN names = 1 .. n /\ \A k \in 1 .. n : names[k] \in Labels
  OBVIOUS
<1>2. NameToks(names) = [k \in 1 .. n |-> Symbol(names[k])]
  BY <1>1 DEF NameToks
<1>3. \A k \in 1 .. n : /\ Symbol(names[k]) \in TokenSet
                        /\ Symbol(names[k]).type \in SymbolTypes
                        /\ Symbol(names[k]).str = names[k]
  BY <1>1, SymbolIs
<1>4. NameToks(names) \in [1 .. n -> TokenSet]
  BY <1>2, <1>3
<1>5. NameToks(names) \in Seq(TokenSet) /\ Len(NameToks(names)) = n
  <2> HIDE DEF n
  <2> QED
    BY <1>1, <1>4
<1>6. names = << >> <=> NameToks(names) = << >>
  <2>1. names = << >> <=> n = 0
    OBVIOUS
  <2>2. NameToks(names) = << >> <=> Len(NameToks(names)) = 0
    BY <1>5
  <2> QED
    BY <1>5, <2>1, <2>2
<1> QED
  BY <1>1, <1>2, <1>3, <1>5, <1>6

LEMMA OperandToksAre ==
  ASSUME NEW items \in Seq(OperandSet)
  PROVE  /\ OperandToks(items) \in Seq(TokenSet) /\ Len(OperandToks(items)) = Len(items)
         /\ Len(items) \in Nat /\ (items = << >> <=> OperandToks(items) = << >>)
         /\ \A k \in 1 .. Len(items) : OperandToks(items)[k] = Operand(items[k])
<1> DEFINE n == Len(items)
<1>1. n \in Nat /\ DOMAIN items = 1 .. n /\ \A k \in 1 .. n : items[k] \in OperandSet
  OBVIOUS
<1>2. OperandToks(items) = [k \in 1 .. n |-> Operand(items[k])]
  BY <1>1 DEF OperandToks
<1>3. \A k \in 1 .. n : Operand(items[k]) \in TokenSet
  BY <1>1, OperandIs
<1>4. OperandToks(items) \in [1 .. n -> TokenSet]
  BY <1>2, <1>3
<1>5. OperandToks(items) \in Seq(TokenSet) /\ Len(OperandToks(items)) = n
  <2> HIDE DEF n
  <2> QED
    BY <1>1, <1>4
<1>6. items = << >> <=> OperandToks(items) = << >>
  <2>1. items = << >> <=> n = 0
    OBVIOUS
  <2>2. OperandToks(items) = << >> <=> Len(OperandToks(items)) = 0
    BY <1>5
  <2> QED
    BY <1>5, <2>1, <2>2
<1> QED
  BY <1>1, <1>2, <1>5, <1>6

(* A statement is printed as tokens the lexer delivers.                    *)
LEMMA MarksAre ==
  /\ Mark("L_BRACE") \in TokenSet /\ Mark("R_BRACE") \in TokenSet /\ Mark("COMMA") \in TokenSet
  /\ Mark("IMPORT") \in TokenSet /\ Mark("EXPORT") \in TokenSet /\ Mark("FROM") \in TokenSet
  /\ Mark("COLON") \in TokenSet /\ Mark("HEAD") \in TokenSet /\ NewlineTok \in TokenSet
  /\ Mark("L_BRACE").type = "L_BRACE" /\ Mark("R_BRACE").type = "R_BRACE"
  /\ Mark("IMPORT").type = "IMPORT" /\ Mark("EXPORT").type = "EXPORT"
  /\ Mark("FROM").type = "FROM" /\ Mark("COLON").type = "COLON"
  /\ Mark("HEAD").type = "HEAD" /\ NewlineTok.type = "NEWLINE"
<1>1. {"L_BRACE", "R_BRACE", "COMMA", "IMPORT", "EXPORT", "FROM", "COLON", "HEAD", "NEWLINE"}
        \subseteq MarkTypes
  BY DEF MarkTypes
<1>2. \A t \in MarkTypes : Mark(t) \in TokenSet /\ Mark(t).type = t
  BY MarkIs
<1> QED
  BY <1>1, <1>2 DEF NewlineTok

LEMMA LiteralIs ==
  ASSUME NEW from \in STRING
  PROVE  /\ Tok("STRING_LITERAL", from) \in TokenSet
         /\ Tok("STRING_LITERAL", from).type = "STRING_LITERAL"
         /\ Tok("STRING_LITERAL", from).str = from
<1>1. "STRING_LITERAL" \in TokenTypes /\ from \in Texts
  BY DEF TokenTypes, MarkTypes, Texts
<1>2. IsToken(Tok("STRING_LITERAL", from))
  BY <1>1, TokIs DEF IsToken, NumberTypes
<1> QED
  BY <1>1, <1>2, TokIs

LEMMA NamesAre ==
  ASSUME NEW s, s.names \in Seq(Labels), s.braces \in BOOLEAN
  PROVE  /\ Names(s) \in Seq(TokenSet) /\ Commas(NameToks(s.names)) \in Seq(TokenSet)
         /\ Names(s) = IF s.braces
                       THEN <<Mark("L_BRACE")>> \o Commas(NameToks(s.names)) \o <<Mark("R_BRACE")>>
                       ELSE Commas(NameToks(s.names))
<1> DEFINE c == Commas(NameToks(s.names))
<1>1. c \in Seq(TokenSet)
  BY NameToksAre, CommasAre, MarksAre
<1>2. <<Mark("L_BRACE")>> \in Seq(TokenSet) /\ <<Mark("R_BRACE")>> \in Seq(TokenSet)
  BY MarksAre
<1>3. Names(s) = IF s.braces THEN <<Mark("L_BRACE")>> \o c \o <<Mark("R_BRACE")>> ELSE c
  BY DEF Names, NameToks
<1> HIDE DEF c
<1> QED
  BY <1>1, <1>2, <1>3 DEF c

LEMMA ItemFacts ==
  ASSUME NEW s, StatementHas(s), s.is \in {"byte", "word"}
  PROVE  s.items \in Seq(OperandSet)
<1>1. ByteNumbers \subseteq OperandSet /\ WordNumbers \union Words \subseteq OperandSet
  BY DEF ByteNumbers, WordNumbers, OperandSet
<1>2. Seq(ByteNumbers) \subseteq Seq(OperandSet)
      /\ Seq(WordNumbers \union Words) \subseteq Seq(OperandSet)
  BY <1>1
<1> QED
  BY <1>2 DEF StatementHas

(* What is printed, kind by kind.                                          *)
NL == <<NewlineTok>>
FromToks(s) == IF s.from = "" THEN << >> ELSE <<Mark("FROM"), Tok("STRING_LITERAL", s.from)>>

LEMMA PrintedForms ==
  ASSUME NEW s, StatementHas(s)
  PROVE  /\ s.is = "import" => Printed(s) = ((<<Mark("IMPORT")>> \o Names(s)) \o FromToks(s)) \o NL
         /\ s.is = "export" => Printed(s) = (<<Mark("EXPORT")>> \o Names(s)) \o NL
         /\ s.is = "section" => Printed(s) = (Dot("section") \o <<Symbol(s.name)>>) \o NL
         /\ s.is \in {"data", "text"} => Printed(s) = Dot(s.is) \o NL
         /\ s.is = "label" => Printed(s) = <<Symbol(s.name), Mark("COLON")>>
         /\ s.is = "blank" => Printed(s) = NL
         /\ s.is = "instr" => Printed(s) = (<<Symbol(s.op)>> \o Commas(OperandToks(s.args))) \o NL
         /\ s.is \in {"byte", "word"} => Printed(s) = (Dot(s.is) \o Commas(OperandToks(s.items))) \o NL
<1>1. /\ s.is = "import" => Line(s) = <<Mark("IMPORT")>> \o Names(s) \o FromToks(s)
      /\ s.is = "export" => Line(s) = <<Mark("EXPORT")>> \o Names(s)
      /\ s.is = "section" => Line(s) = Dot("section") \o <<Symbol(s.name)>>
      /\ s.is \in {"data", "text"} => Line(s) = Dot(s.is)
      /\ s.is = "label" => Line(s) = <<Symbol(s.name), Mark("COLON")>>
      /\ s.is = "blank" => Line(s) = << >>
      /\ s.is = "instr" => Line(s) = <<Symbol(s.op)>> \o Operands(s.args)
      /\ s.is \in {"byte", "word"} => Line(s) = Dot(s.is) \o Operands(s.items)
  <2>1. CASE s.is = "import"
    BY <2>1 DEF Line, FromToks
  <2>2. CASE s.is = "export"
    BY <2>2 DEF Line
  <2>3. CASE s.is = "section"
    BY <2>3 DEF Line
  <2>4. CASE s.is \in {"data", "text"}
    BY <2>4 DEF Line
  <2>5. CASE s.is = "label"
    BY <2>5 DEF Line
  <2>6. CASE s.is = "blank"
    BY <2>6 DEF Line
  <2>7. CASE s.is = "instr"
    BY <2>7 DEF Line
  <2>8. CASE s.is \in {"byte", "word"}
    BY <2>8 DEF Line
  <2> QED
    BY <2>1, <2>2, <2>3, <2>4, <2>5, <2>6, <2>7, <2>8 DEF StatementHas, Kinds
<1>2. /\ s.is = "label" => Printed(s) = Line(s) \o << >>
      /\ s.is # "label" => Printed(s) = Line(s) \o NL
  BY DEF Printed, NL
<1>3. \A items : Operands(items) = Commas(OperandToks(items))
  BY DEF Operands, OperandToks
<1>4. \A u \in Seq(TokenSet) : u \o << >> = u /\ << >> \o u = u
  OBVIOUS
<1>5. NL \in Seq(TokenSet)
  BY MarksAre DEF NL
<1>6. s.is = "label" => <<Symbol(s.name), Mark("COLON")>> \in Seq(TokenSet)
  BY MarksAre, SymbolIs DEF StatementHas
<1> QED
  BY <1>1, <1>2, <1>3, <1>4, <1>5, <1>6

LEMMA JoinIs ==
  ASSUME NEW S, NEW u \in Seq(S), NEW v \in Seq(S)
  PROVE  u \o v \in Seq(S)
OBVIOUS

LEMMA PrintedIs ==
  ASSUME NEW s, StatementHas(s)
  PROVE  Printed(s) \in Seq(TokenSet)
<1>1. NL \in Seq(TokenSet)
  BY MarksAre DEF NL
<1>2. CASE s.is \in {"import", "export"}
  <2>1. Names(s) \in Seq(TokenSet)
    BY <1>2, NamesAre DEF StatementHas
  <2>2. <<Mark("IMPORT")>> \in Seq(TokenSet) /\ <<Mark("EXPORT")>> \in Seq(TokenSet)
    BY MarksAre
  <2>3. s.is = "import" => FromToks(s) \in Seq(TokenSet)
    <3> SUFFICES ASSUME s.is = "import" PROVE FromToks(s) \in Seq(TokenSet)
      OBVIOUS
    <3>1. Tok("STRING_LITERAL", s.from) \in TokenSet /\ Mark("FROM") \in TokenSet
      BY LiteralIs, MarksAre DEF StatementHas
    <3>2. <<Mark("FROM"), Tok("STRING_LITERAL", s.from)>> \in Seq(TokenSet) /\ << >> \in Seq(TokenSet)
      BY <3>1
    <3> QED
      BY <3>2 DEF FromToks
  <2>4. CASE s.is = "import"
    <3> DEFINE a == <<Mark("IMPORT")>>
               b == Names(s)
               c == FromToks(s)
    <3>1. Printed(s) = ((a \o b) \o c) \o NL
      BY <2>4, PrintedForms
    <3> HIDE DEF a, b, c
    <3>2. a \o b \in Seq(TokenSet)
      BY <2>1, <2>2, JoinIs DEF a, b
    <3>3. (a \o b) \o c \in Seq(TokenSet)
      BY <2>3, <2>4, <3>2, JoinIs DEF c
    <3> QED
      BY <1>1, <3>1, <3>3, JoinIs
  <2>5. CASE s.is = "export"
    <3> DEFINE a == <<Mark("EXPORT")>>
               b == Names(s)
    <3>1. Printed(s) = (a \o b) \o NL
      BY <2>5, PrintedForms
    <3> HIDE DEF a, b
    <3>2. a \o b \in Seq(TokenSet)
      BY <2>1, <2>2, JoinIs DEF a, b
    <3> QED
      BY <1>1, <3>1, <3>2, JoinIs
  <2> QED
    BY <1>2, <2>4, <2>5
<1>3. CASE s.is \in {"section", "data", "text"}
  <2>1. s.is \in Labels /\ Dot(s.is) \in Seq(TokenSet)
    BY <1>3, DotIs, ParserAssumption
  <2>2. s.is = "section" => <<Symbol(s.name)>> \in Seq(TokenSet)
    BY SymbolIs DEF StatementHas
  <2> DEFINE a == Dot(s.is)
             b == <<Symbol(s.name)>>
  <2>3. s.is = "section" => Printed(s) = (a \o b) \o NL
    BY PrintedForms
  <2>4. s.is \in {"data", "text"} => Printed(s) = a \o NL
    BY PrintedForms
  <2> HIDE DEF a, b
  <2>5. s.is = "section" => a \o b \in Seq(TokenSet)
    BY <2>1, <2>2, JoinIs DEF a, b
  <2>6. a \in Seq(TokenSet)
    BY <2>1 DEF a
  <2> QED
    BY <1>1, <1>3, <2>3, <2>4, <2>5, <2>6, JoinIs
<1>4. CASE s.is = "label"
  <2>1. <<Symbol(s.name), Mark("COLON")>> \in Seq(TokenSet)
    BY <1>4, MarksAre, SymbolIs DEF StatementHas
  <2> QED
    BY <1>4, <2>1, PrintedForms
<1>5. CASE s.is = "blank"
  BY <1>1, <1>5, PrintedForms
<1>6. CASE s.is = "instr"
  <2>1. s.op \in Labels /\ s.args \in Seq(OperandSet)
    BY <1>6, ArgumentFacts, ParserAssumption DEF StatementHas
  <2>2. <<Symbol(s.op)>> \in Seq(TokenSet) /\ Commas(OperandToks(s.args)) \in Seq(TokenSet)
    BY <2>1, SymbolIs, OperandToksAre, CommasAre, MarksAre
  <2> DEFINE a == <<Symbol(s.op)>>
             b == Commas(OperandToks(s.args))
  <2>3. Printed(s) = (a \o b) \o NL
    BY <1>6, PrintedForms
  <2> HIDE DEF a, b
  <2>4. a \o b \in Seq(TokenSet)
    BY <2>2, JoinIs DEF a, b
  <2> QED
    BY <1>1, <2>3, <2>4, JoinIs
<1>7. CASE s.is \in {"byte", "word"}
  <2>1. s.items \in Seq(OperandSet) /\ s.is \in Labels
    BY <1>7, ItemFacts, ParserAssumption
  <2>2. Dot(s.is) \in Seq(TokenSet) /\ Commas(OperandToks(s.items)) \in Seq(TokenSet)
    BY <2>1, DotIs, OperandToksAre, CommasAre, MarksAre
  <2> DEFINE a == Dot(s.is)
             b == Commas(OperandToks(s.items))
  <2>3. Printed(s) = (a \o b) \o NL
    BY <1>7, PrintedForms
  <2> HIDE DEF a, b
  <2>4. a \o b \in Seq(TokenSet)
    BY <2>2, JoinIs DEF a, b
  <2> QED
    BY <1>1, <2>3, <2>4, JoinIs
<1> QED
  BY <1>2, <1>3, <1>4, <1>5, <1>6, <1>7 DEF StatementHas, Kinds

FileInv == stmts \in Files /\ toks = TokensOf(stmts)

(* The statements stand in the token list one behind the other, behind the *)
(* lexer's empty token.                                                    *)
Laid ==
  /\ TokenList
  /\ Len(stmts) \in Nat /\ DOMAIN stmts = 1 .. Len(stmts)
  /\ \A i \in 1 .. Len(stmts) : StatementHas(stmts[i])
  /\ Type(1) = "HEAD" /\ Start(1) = 2 /\ Start(Len(stmts) + 1) = Len(toks) + 1
  /\ \A i \in 1 .. Len(stmts) + 1 : Start(i) \in Nat /\ Start(i) >= 2
  /\ \A i \in 1 .. Len(stmts) :
       /\ Start(i + 1) = Start(i) + Len(Printed(stmts[i]))
       /\ At(Start(i), Printed(stmts[i]))

LEMMA FileIsLaid ==
  ASSUME FileInv
  PROVE  Laid
<1> DEFINE n == Len(stmts)
           f == [i \in 1 .. n |-> Printed(stmts[i])]
           g == [i \in 0 .. n |-> Upto(f, i)]
           h == <<Mark("HEAD")>>
<1>1. /\ stmts \in Seq(StatementSet) /\ n \in Nat /\ DOMAIN stmts = 1 .. n
      /\ \A i \in 1 .. n : stmts[i] \in StatementSet
  <2>1. stmts \in Seq(StatementSet)
    BY FilesAssumption DEF FileInv
  <2> QED
    BY <2>1
<1>2. \A i \in 1 .. n : StatementHas(stmts[i]) /\ Printed(stmts[i]) \in Seq(TokenSet)
  BY <1>1, StatementFacts, PrintedIs
<1>3. f \in ListsOf(TokenSet, n)
  BY <1>2 DEF ListsOf
<1>4. Grows(TokenSet, n, f)
  <2> HIDE DEF f, n
  <2> QED
    BY <1>1, <1>3, UptoGrows
<1>5. g \in Growths(TokenSet, n, f)
  <2>1. /\ \A i \in 0 .. n : Upto(f, i) \in Seq(TokenSet)
        /\ \A i \in 1 .. n : Upto(f, i) = Upto(f, i - 1) \o f[i]
        /\ Upto(f, 0) = << >>
    <3> HIDE DEF f, n
    <3> QED
      BY <1>4 DEF Grows
  <2> HIDE DEF f
  <2>2. g \in [0 .. n -> Seq(TokenSet)]
    BY <2>1
  <2>3. \A i \in 1 .. n : i \in 0 .. n /\ i - 1 \in 0 .. n
    BY <1>1
  <2>4. (\A i \in 0 .. n : g[i] = Upto(f, i)) /\ 0 \in 0 .. n
    BY <1>1
  <2> HIDE DEF g, n
  <2>5. g[0] = << >> /\ \A i \in 1 .. n : g[i] = g[i - 1] \o f[i]
    BY <2>1, <2>3, <2>4
  <2> QED
    BY <2>2, <2>5 DEF Growths
<1>6. Stand(TokenSet, n, f, g)
  <2> HIDE DEF f, g, n
  <2> QED
    BY <1>1, <1>3, <1>5, GrowthPlaces
<1>7. /\ \A k \in 0 .. n : g[k] \in Seq(TokenSet)
      /\ g[0] = << >>
      /\ \A k \in 1 .. n : Len(g[k]) = Len(g[k - 1]) + Len(f[k])
      /\ \A m \in 0 .. n : \A k \in 1 .. m :
          /\ Len(g[k]) <= Len(g[m])
          /\ \A j \in 1 .. Len(f[k]) : g[m][Len(g[k - 1]) + j] = f[k][j]
  <2> HIDE DEF f, g, n
  <2> QED
    BY <1>6 DEF Stand
<1>8. h \in Seq(TokenSet) /\ Len(h) = 1 /\ h[1].type = "HEAD"
  BY MarksAre
<1>9. toks = h \o g[n]
  <2>1. TokensOf(stmts) = h \o FlattenSeq(f)
    BY <1>1 DEF TokensOf
  <2>2. n \in 0 .. n
    BY <1>1
  <2>3. FlattenSeq(f) = Upto(f, n)
    <3> HIDE DEF f, n
    <3> QED
      BY <1>4 DEF Grows
  <2>4. g[n] = Upto(f, n)
    BY <2>2
  <2> HIDE DEF f, g, h, n
  <2> QED
    BY <2>1, <2>3, <2>4 DEF FileInv
<1>10. ASSUME NEW i \in 1 .. n + 1
       PROVE  TokensOf(SubSeq(stmts, 1, i - 1)) = h \o g[i - 1]
  <2> DEFINE t == SubSeq(stmts, 1, i - 1)
  <2>1. DOMAIN t = 1 .. i - 1 /\ \A j \in 1 .. i - 1 : t[j] = stmts[j] /\ j \in 1 .. n
    BY <1>1
  <2>2. [j \in DOMAIN t |-> Printed(t[j])] = [j \in 1 .. i - 1 |-> f[j]]
    <3> HIDE DEF t
    <3> QED
      BY <2>1
  <2>3. i - 1 \in 0 .. n
    BY <1>1
  <2>4. g[i - 1] = FlattenSeq([j \in 1 .. i - 1 |-> f[j]])
    <3>1. g[i - 1] = Upto(f, i - 1)
      BY <2>3
    <3> HIDE DEF f, g
    <3> QED
      BY <3>1 DEF Upto
  <2>5. TokensOf(t) = h \o FlattenSeq([j \in DOMAIN t |-> Printed(t[j])])
    BY DEF TokensOf
  <2> HIDE DEF t, f, g, h
  <2> QED
    BY <2>2, <2>4, <2>5 DEF t
<1> DEFINE at0(i) == Len(g[i - 1])
<1>11. ASSUME NEW i \in 1 .. n + 1
       PROVE  g[i - 1] \in Seq(TokenSet) /\ at0(i) \in Nat /\ Start(i) = at0(i) + 2
  <2>1. i - 1 \in 0 .. n
    BY <1>1
  <2>2. g[i - 1] \in Seq(TokenSet)
    BY <1>7, <2>1
  <2>3. Len(h \o g[i - 1]) = 1 + Len(g[i - 1]) /\ Len(g[i - 1]) \in Nat
    <3> DEFINE x == g[i - 1]
    <3> HIDE DEF g, h
    <3>1. x \in Seq(TokenSet)
      BY <2>2
    <3> HIDE DEF x
    <3>2. Len(h \o x) = Len(h) + Len(x) /\ Len(x) \in Nat
      BY <1>8, <3>1, ConcatFacts
    <3> QED
      BY <1>8, <3>2 DEF x
  <2>4. Start(i) = Len(h \o g[i - 1]) + 1
    BY <1>10 DEF Start
  <2> HIDE DEF g, h
  <2> QED
    BY <2>2, <2>3, <2>4
<1> HIDE DEF f, g, h
<1>12. /\ g[n] \in Seq(TokenSet) /\ Len(g[n]) \in Nat /\ toks \in Seq(TokenSet)
       /\ Len(toks) = 1 + Len(g[n]) /\ Len(toks) \in Nat
       /\ toks[1] = h[1] /\ \A k \in 1 .. Len(g[n]) : toks[1 + k] = g[n][k]
  <2>1. n \in 0 .. n
    BY <1>1
  <2>2. g[n] \in Seq(TokenSet)
    BY <1>7, <2>1
  <2> DEFINE x == g[n]
  <2>3. x \in Seq(TokenSet)
    BY <2>2
  <2> HIDE DEF x
  <2>4. /\ h \o x \in Seq(TokenSet) /\ Len(x) \in Nat /\ Len(h \o x) = Len(h) + Len(x)
        /\ \A i \in 1 .. Len(h) : (h \o x)[i] = h[i]
        /\ \A i \in 1 .. Len(x) : (h \o x)[Len(h) + i] = x[i]
    BY <1>8, <2>3, ConcatFacts
  <2>5. 1 \in 1 .. Len(h)
    BY <1>8
  <2>6. toks = h \o x
    BY <1>9 DEF x
  <2> QED
    BY <1>8, <2>3, <2>4, <2>5, <2>6 DEF x
<1>13. TokenList
  <2>1. DOMAIN toks = 1 .. Len(toks) /\ \A k \in 1 .. Len(toks) : toks[k] \in TokenSet
    BY <1>12
  <2> QED
    BY <1>12, <2>1 DEF TokenList, TokenSet
<1>14. Type(1) = "HEAD"
  <2>1. 1 \in DOMAIN toks
    BY <1>12
  <2> QED
    BY <1>8, <1>12, <2>1 DEF Type
<1>15. Start(1) = 2 /\ Start(n + 1) = Len(toks) + 1
  <2>1. 1 \in 1 .. n + 1 /\ n + 1 \in 1 .. n + 1 /\ 1 - 1 = 0 /\ (n + 1) - 1 = n
    BY <1>1
  <2>2. Start(1) = Len(g[0]) + 2 /\ Start(n + 1) = Len(g[n]) + 2
    BY <1>11, <2>1
  <2> QED
    BY <1>7, <1>12, <2>2
<1>16. ASSUME NEW i \in 1 .. n
       PROVE  /\ Start(i + 1) = Start(i) + Len(Printed(stmts[i]))
              /\ At(Start(i), Printed(stmts[i]))
  <2> DEFINE u == Printed(stmts[i])
             a == Len(g[i - 1])
             b == Len(g[i])
  <2>1. f[i] = u /\ u \in Seq(TokenSet) /\ Len(u) \in Nat
    BY <1>2 DEF f
  <2>2. i \in 1 .. n + 1 /\ i + 1 \in 1 .. n + 1 /\ (i + 1) - 1 = i /\ n \in 0 .. n /\ i \in 0 .. n
    BY <1>1
  <2>3. Start(i) = a + 2 /\ Start(i + 1) = b + 2 /\ a \in Nat /\ b \in Nat
    BY <1>11, <2>2
  <2>4. b = a + Len(u)
    BY <1>7, <2>1
  <2>5. b <= Len(g[n]) /\ \A j \in 1 .. Len(u) : g[n][a + j] = u[j]
    <3>1. \A k \in 1 .. n : /\ Len(g[k]) <= Len(g[n])
                            /\ \A j \in 1 .. Len(f[k]) : g[n][Len(g[k - 1]) + j] = f[k][j]
      BY <1>7, <2>2
    <3>2. /\ Len(g[i]) <= Len(g[n])
          /\ \A j \in 1 .. Len(f[i]) : g[n][Len(g[i - 1]) + j] = f[i][j]
      BY <3>1
    <3> QED
      BY <2>1, <3>2
  <2> HIDE DEF u, a, b
  <2>6. ASSUME NEW j \in 1 .. Len(u)
        PROVE  Start(i) + j - 1 \in DOMAIN toks /\ toks[Start(i) + j - 1] = u[j]
    <3>1. Start(i) + j - 1 = 1 + (a + j) /\ a + j \in 1 .. Len(g[n])
      BY <1>12, <2>1, <2>3, <2>4, <2>5
    <3>2. toks[1 + (a + j)] = u[j]
      BY <1>12, <2>5, <3>1
    <3>3. 1 + (a + j) \in DOMAIN toks
      BY <1>12, <3>1
    <3> QED
      BY <3>1, <3>2, <3>3
  <2>7. At(Start(i), u)
    BY <2>6 DEF At
  <2> QED
    BY <2>3, <2>4, <2>7 DEF u
<1>17. ASSUME NEW i \in 1 .. n + 1 PROVE Start(i) \in Nat /\ Start(i) >= 2
  <2>1. at0(i) \in Nat /\ Start(i) = at0(i) + 2
    BY <1>11
  <2> HIDE DEF at0
  <2> QED
    BY <2>1
<1> QED
  BY <1>1, <1>2, <1>13, <1>14, <1>15, <1>16, <1>17 DEF Laid

(* Each kind of statement in the token list: it stands from p to before e. *)
From(i, p, e) ==
  /\ i \in 1 .. Len(stmts) /\ p \in Nat \ {0} /\ e \in Nat
  /\ e = p + Len(Printed(stmts[i])) /\ At(p, Printed(stmts[i])) /\ StatementHas(stmts[i])
  /\ TokenList

LEMMA StandsFrom ==
  ASSUME Laid, NEW i \in 1 .. Len(stmts), NEW p, p = Start(i), NEW e, e = Start(i + 1)
  PROVE  From(i, p, e)
<1>1. i \in 1 .. Len(stmts) + 1 /\ i + 1 \in 1 .. Len(stmts) + 1
  BY DEF Laid
<1>2. p \in Nat \ {0} /\ e \in Nat
  BY <1>1 DEF Laid
<1> QED
  BY <1>2 DEF Laid, From

LEMMA JoinLen ==
  ASSUME NEW S, NEW u \in Seq(S), NEW v \in Seq(S)
  PROVE  Len(u \o v) = Len(u) + Len(v) /\ Len(u) \in Nat /\ Len(v) \in Nat /\ u \o v \in Seq(S)
OBVIOUS

(* The line's end.                                                         *)
LEMMA LineParts ==
  ASSUME NEW p \in Nat, NEW e \in Nat, NEW u \in Seq(TokenSet), At(p, u \o NL),
         e = p + Len(u \o NL)
  PROVE  /\ At(p, u) /\ Type(e - 1) = "NEWLINE" /\ e - 1 = p + Len(u) /\ Len(u) \in Nat
<1>1. NL \in Seq(TokenSet) /\ Len(NL) = 1
  BY MarksAre DEF NL
<1>2. Len(u \o NL) = Len(u) + 1 /\ Len(u) \in Nat
  BY <1>1, JoinLen
<1>3. e - 1 = p + Len(u) /\ e - 1 \in Int /\ p \in Int
  BY <1>2
<1>4. At(p, u) /\ At(e - 1, NL)
  BY <1>1, <1>3, AtParts
<1>5. Type(e - 1) = NewlineTok.type
  BY <1>3, <1>4, AtOne DEF NL
<1> QED
  BY <1>2, <1>3, <1>4, <1>5, MarksAre

LEMMA BlankShape ==
  ASSUME NEW i, NEW p, NEW e, From(i, p, e), stmts[i].is = "blank"
  PROVE  Type(p) = "NEWLINE" /\ e = p + 1
<1>1. Printed(stmts[i]) = NL /\ p \in Nat /\ e \in Nat
  BY PrintedForms DEF From
<1>2. At(p, NL) /\ e = p + Len(NL)
  BY <1>1 DEF From
<1>3. Type(p) = NewlineTok.type /\ Len(NL) = 1
  BY <1>1, <1>2, AtOne DEF NL
<1> QED
  BY <1>1, <1>2, <1>3, MarksAre

LEMMA DotAt ==
  ASSUME NEW p \in Nat, NEW word \in Labels, At(p, Dot(word))
  PROVE  Type(p) = "PERIOD" /\ Type(p + 1) = "LABEL" /\ Text(p + 1) = word
<1>1. Dot(word)[1].type = "PERIOD" /\ Dot(word)[2].type = "LABEL" /\ Dot(word)[2].str = word
  BY DotIs
<1>2. At(p, <<Dot(word)[1], Dot(word)[2]>>)
  BY DEF Dot
<1> QED
  BY <1>1, <1>2, AtTwo

LEMMA SettingShape ==
  ASSUME NEW i, NEW p, NEW e, From(i, p, e), stmts[i].is \in {"data", "text"}
  PROVE  /\ Type(p) = "PERIOD" /\ Type(p + 1) = "LABEL" /\ Text(p + 1) = stmts[i].is
         /\ Type(p + 2) = "NEWLINE" /\ e = p + 3
<1> DEFINE u == Dot(stmts[i].is)
<1>1. p \in Nat /\ e \in Nat /\ stmts[i].is \in Labels /\ Printed(stmts[i]) = u \o NL
  BY PrintedForms, ParserAssumption DEF From
<1>2. u \in Seq(TokenSet) /\ Len(u) = 2
  BY <1>1, DotIs
<1>3. At(p, u) /\ Type(e - 1) = "NEWLINE" /\ e - 1 = p + Len(u)
  <2>1. At(p, u \o NL) /\ e = p + Len(u \o NL)
    BY <1>1 DEF From
  <2> HIDE DEF u
  <2> QED
    BY <1>1, <1>2, <2>1, LineParts
<1>4. Type(p) = "PERIOD" /\ Type(p + 1) = "LABEL" /\ Text(p + 1) = stmts[i].is
  BY <1>1, <1>3, DotAt
<1>5. e - 1 = p + 2 /\ e = p + 3
  BY <1>1, <1>2, <1>3
<1> QED
  BY <1>3, <1>4, <1>5

LEMMA SectionShape ==
  ASSUME NEW i, NEW p, NEW e, From(i, p, e), stmts[i].is = "section"
  PROVE  /\ Type(p) = "PERIOD" /\ Type(p + 1) = "LABEL" /\ Text(p + 1) = "section"
         /\ IsSymbol(p + 2) /\ Text(p + 2) = stmts[i].name
         /\ Type(p + 3) = "NEWLINE" /\ e = p + 4
<1> DEFINE u == Dot("section")
           v == <<Symbol(stmts[i].name)>>
           w == u \o v
<1>1. /\ p \in Nat /\ e \in Nat /\ "section" \in Labels /\ Printed(stmts[i]) = w \o NL
      /\ stmts[i].name \in Labels
  BY PrintedForms, ParserAssumption DEF From, StatementHas
<1>2. u \in Seq(TokenSet) /\ Len(u) = 2
  BY <1>1, DotIs
<1>3. v \in Seq(TokenSet) /\ Len(v) = 1 /\ Symbol(stmts[i].name).type \in SymbolTypes
      /\ Symbol(stmts[i].name).str = stmts[i].name
  BY <1>1, SymbolIs
<1>4. w \in Seq(TokenSet) /\ Len(w) = 3
  <2>1. Len(w) = Len(u) + Len(v) /\ w \in Seq(TokenSet)
    <3> HIDE DEF u, v
    <3> QED
      BY <1>2, <1>3, JoinLen
  <2>2. Len(u) = 2 /\ Len(v) = 1
    BY <1>2, <1>3
  <2> HIDE DEF u, v, w
  <2> QED
    BY <2>1, <2>2
<1>5. At(p, w) /\ Type(e - 1) = "NEWLINE" /\ e - 1 = p + Len(w)
  <2>1. At(p, w \o NL) /\ e = p + Len(w \o NL)
    BY <1>1 DEF From
  <2> HIDE DEF w
  <2> QED
    BY <1>1, <1>4, <2>1, LineParts
<1>6. At(p, u) /\ At(p + 2, v)
  <2>1. p + 2 = p + Len(u) /\ p \in Int
    <3> HIDE DEF u, w
    <3> QED
      BY <1>1, <1>2
  <2> HIDE DEF u, v
  <2> QED
    BY <1>2, <1>3, <1>5, <2>1, AtParts
<1>7. Type(p) = "PERIOD" /\ Type(p + 1) = "LABEL" /\ Text(p + 1) = "section"
  BY <1>1, <1>6, DotAt
<1>8. Type(p + 2) = Symbol(stmts[i].name).type /\ Text(p + 2) = Symbol(stmts[i].name).str
  <2>1. p + 2 \in Int
    BY <1>1
  <2> QED
    BY <1>6, <2>1, AtOne
<1>9. e - 1 = p + 3 /\ e = p + 4
  BY <1>1, <1>4, <1>5
<1> QED
  BY <1>3, <1>5, <1>7, <1>8, <1>9 DEF IsSymbol

LEMMA LabelShape ==
  ASSUME NEW i, NEW p, NEW e, From(i, p, e), stmts[i].is = "label"
  PROVE  /\ IsSymbol(p) /\ Text(p) = stmts[i].name /\ Type(p + 1) = "COLON" /\ e = p + 2
         /\ IsLabelDeclaration(p)
<1> DEFINE x == Symbol(stmts[i].name)
<1>1. /\ p \in Nat /\ e \in Nat /\ stmts[i].name \in Labels
      /\ Printed(stmts[i]) = <<x, Mark("COLON")>>
  BY PrintedForms DEF From, StatementHas
<1>2. x.type \in SymbolTypes /\ x.str = stmts[i].name
  BY <1>1, SymbolIs
<1>3. At(p, <<x, Mark("COLON")>>) /\ e = p + Len(<<x, Mark("COLON")>>)
  BY <1>1 DEF From
<1>4. Len(<<x, Mark("COLON")>>) = 2
  OBVIOUS
<1>5. Type(p) = x.type /\ Text(p) = x.str /\ Type(p + 1) = Mark("COLON").type
  BY <1>1, <1>3, AtTwo
<1> QED
  BY <1>2, <1>3, <1>4, <1>5, MarksAre DEF IsSymbol, IsLabelDeclaration

(* The operand that stands at q.                                           *)
OperandAt(q, n) == Type(q) = Operand(n).type /\ Text(q) = n

LEMMA InstrShape ==
  ASSUME NEW i, NEW p, NEW e, From(i, p, e), stmts[i].is = "instr",
         NEW a, a = stmts[i].args
  PROVE  /\ a \in Arguments /\ Len(a) \in 0 .. 2
         /\ Type(p) = "INSTRUCTION" /\ Text(p) = stmts[i].op /\ stmts[i].op \in Mnemonics
         /\ Len(a) = 0 => Type(p + 1) = "NEWLINE" /\ e = p + 2
         /\ Len(a) = 1 => OperandAt(p + 1, a[1]) /\ Type(p + 2) = "NEWLINE" /\ e = p + 3
         /\ Len(a) = 2 => /\ OperandAt(p + 1, a[1]) /\ Type(p + 2) = "COMMA"
                          /\ OperandAt(p + 3, a[2]) /\ Type(p + 4) = "NEWLINE" /\ e = p + 5
<1> DEFINE x == Symbol(stmts[i].op)
           u == <<x>>
           l == OperandToks(a)
           v == Commas(l)
           w == u \o v
           n == Len(a)
<1>1. /\ p \in Nat /\ e \in Nat /\ stmts[i].op \in Mnemonics /\ stmts[i].op \in Labels
      /\ a \in Arguments /\ Printed(stmts[i]) = w \o NL
  BY PrintedForms, ParserAssumption DEF From, StatementHas
<1>2. a \in Seq(OperandSet) /\ n \in 0 .. 2
  BY <1>1, ArgumentFacts
<1>3. x \in TokenSet /\ x.type = "INSTRUCTION" /\ x.str = stmts[i].op
  BY <1>1, SymbolIs
<1>4. u \in Seq(TokenSet) /\ Len(u) = 1
  BY <1>3
<1>5. /\ l \in Seq(TokenSet) /\ Len(l) = n /\ \A k \in 1 .. n : l[k] = Operand(a[k])
  BY <1>2, OperandToksAre
<1>6. /\ v \in Seq(TokenSet)
      /\ n = 0 => Len(v) = 0
      /\ n # 0 => Len(v) = 2 * n - 1
  <2> HIDE DEF l, n
  <2> QED
    BY <1>5, CommasAre, MarksAre
<1>7. w \in Seq(TokenSet) /\ Len(w) = 1 + Len(v) /\ Len(v) \in Nat
  <2> HIDE DEF u, v
  <2> QED
    BY <1>4, <1>6, JoinLen
<1>8. At(p, w) /\ Type(e - 1) = "NEWLINE" /\ e - 1 = p + Len(w)
  <2>1. At(p, w \o NL) /\ e = p + Len(w \o NL)
    BY <1>1 DEF From
  <2> HIDE DEF w
  <2> QED
    BY <1>1, <1>7, <2>1, LineParts
<1>9. At(p, u) /\ At(p + 1, v)
  <2>1. p + 1 = p + Len(u) /\ p \in Int
    BY <1>1, <1>4
  <2> HIDE DEF u, v
  <2> QED
    BY <1>4, <1>6, <1>8, <2>1, AtParts
<1>10. Type(p) = "INSTRUCTION" /\ Text(p) = stmts[i].op
  <2>1. Type(p) = x.type /\ Text(p) = x.str
    BY <1>1, <1>9, AtOne
  <2> QED
    BY <1>3, <2>1
<1>11. Listed(p + 1, l)
  <2>1. p + 1 \in Int
    BY <1>1
  <2> HIDE DEF l
  <2> QED
    BY <1>5, <1>9, <2>1, AtCommas
<1>12. /\ \A k \in 1 .. n : Type((p + 1) + 2 * k - 2) = l[k].type
                            /\ Text((p + 1) + 2 * k - 2) = l[k].str
       /\ \A k \in 1 .. n - 1 : Type((p + 1) + 2 * k - 1) = "COMMA"
  BY <1>5, <1>11 DEF Listed
<1>13. ASSUME NEW k \in 1 .. n PROVE OperandAt((p + 1) + 2 * k - 2, a[k])
  <2>1. a[k] \in OperandSet /\ Operand(a[k]).str = a[k]
    BY <1>2, OperandIs
  <2> QED
    BY <1>5, <1>12, <2>1 DEF OperandAt
<1>14. CASE n = 0
  BY <1>1, <1>2, <1>6, <1>7, <1>8, <1>10, <1>14
<1>15. CASE n = 1
  <2>1. 1 \in 1 .. n /\ (p + 1) + 2 * 1 - 2 = p + 1
    BY <1>1, <1>15
  <2>2. OperandAt(p + 1, a[1])
    BY <1>13, <2>1
  <2>3. e - 1 = p + 2 /\ e = p + 3
    <3> DEFINE lv == Len(v)
               lw == Len(w)
    <3>1. lw = 1 + lv /\ lv = 2 * n - 1 /\ e - 1 = p + lw /\ p \in Nat /\ e \in Nat
      BY <1>1, <1>6, <1>7, <1>8, <1>15
    <3> HIDE DEF n, lv, lw
    <3> QED
      BY <1>15, <3>1
  <2> QED
    BY <1>1, <1>2, <1>8, <1>10, <1>15, <2>2, <2>3
<1>16. CASE n = 2
  <2>1. 1 \in 1 .. n /\ (p + 1) + 2 * 1 - 2 = p + 1 /\ 2 \in 1 .. n /\ 1 \in 1 .. n - 1
        /\ (p + 1) + 2 * 2 - 2 = p + 3 /\ (p + 1) + 2 * 1 - 1 = p + 2
    BY <1>1, <1>16
  <2>2. OperandAt(p + 1, a[1]) /\ OperandAt(p + 3, a[2])
    BY <1>13, <2>1
  <2>3. Type(p + 2) = "COMMA"
    BY <1>12, <2>1
  <2>4. e - 1 = p + 4 /\ e = p + 5
    <3> DEFINE lv == Len(v)
               lw == Len(w)
    <3>1. lw = 1 + lv /\ lv = 2 * n - 1 /\ e - 1 = p + lw /\ p \in Nat /\ e \in Nat
      BY <1>1, <1>6, <1>7, <1>8, <1>16
    <3> HIDE DEF n, lv, lw
    <3> QED
      BY <1>16, <3>1
  <2> QED
    BY <1>1, <1>2, <1>8, <1>10, <1>16, <2>2, <2>3, <2>4
<1> QED
  BY <1>2, <1>14, <1>15, <1>16

(* .byte and .word: the parser counts the items and ends behind the line.  *)
LEMMA ItemsShape ==
  ASSUME NEW i, NEW p, NEW e, From(i, p, e), stmts[i].is \in {"byte", "word"},
         NEW items, items = stmts[i].items, NEW types \in SUBSET WordTypes,
         \A k \in 1 .. Len(items) : Operand(items[k]).type \in types
  PROVE  /\ Type(p) = "PERIOD" /\ Type(p + 1) = "LABEL" /\ Text(p + 1) = stmts[i].is
         /\ items \in Seq(OperandSet) /\ Len(items) \in Nat
         /\ Items(p + 2, types) = Len(items)
         /\ SkipNewline(AfterItems(p + 2, types)) = e
         /\ \A k \in 1 .. Len(items) : OperandAt(p + 2 * k, items[k])
<1> DEFINE u == Dot(stmts[i].is)
           l == OperandToks(items)
           v == Commas(l)
           w == u \o v
           n == Len(items)
<1>1. /\ p \in Nat \ {0} /\ e \in Nat /\ stmts[i].is \in Labels /\ TokenList
      /\ Printed(stmts[i]) = w \o NL /\ items \in Seq(OperandSet)
  <2>1. p \in Nat \ {0} /\ e \in Nat /\ StatementHas(stmts[i]) /\ TokenList
    BY DEF From
  <2> QED
    BY <2>1, PrintedForms, ItemFacts, ParserAssumption
<1>2. u \in Seq(TokenSet) /\ Len(u) = 2
  BY <1>1, DotIs
<1>3. /\ l \in Seq(TokenSet) /\ Len(l) = n /\ n \in Nat
      /\ \A k \in 1 .. n : l[k] = Operand(items[k])
      /\ items = << >> <=> l = << >>
  BY <1>1, OperandToksAre
<1>4. /\ v \in Seq(TokenSet)
      /\ n = 0 => Len(v) = 0
      /\ n # 0 => Len(v) = 2 * n - 1
  <2> HIDE DEF l, n
  <2> QED
    BY <1>3, CommasAre, MarksAre
<1>5. w \in Seq(TokenSet) /\ Len(w) = 2 + Len(v) /\ Len(v) \in Nat
  <2> HIDE DEF u, v
  <2> QED
    BY <1>2, <1>4, JoinLen
<1>6. At(p, w) /\ Type(e - 1) = "NEWLINE" /\ e - 1 = p + Len(w)
  <2>1. At(p, w \o NL) /\ e = p + Len(w \o NL)
    BY <1>1 DEF From
  <2> HIDE DEF w
  <2> QED
    BY <1>1, <1>5, <2>1, LineParts
<1>7. At(p, u) /\ At(p + 2, v)
  <2>1. p + 2 = p + Len(u) /\ p \in Int
    <3> HIDE DEF u, w
    <3> QED
      BY <1>1, <1>2
  <2> HIDE DEF u, v
  <2> QED
    BY <1>2, <1>4, <1>6, <2>1, AtParts
<1>8. Type(p) = "PERIOD" /\ Type(p + 1) = "LABEL" /\ Text(p + 1) = stmts[i].is
  BY <1>1, <1>7, DotAt
<1>9. Listed(p + 2, l)
  <2>1. p + 2 \in Int
    BY <1>1
  <2> HIDE DEF l
  <2> QED
    BY <1>3, <1>7, <2>1, AtCommas
<1>10. ASSUME NEW k \in 1 .. n PROVE OperandAt(p + 2 * k, items[k])
  <2>1. items[k] \in OperandSet
    BY <1>1
  <2>2. Operand(items[k]).str = items[k]
    BY <2>1, OperandIs
  <2>3. Type((p + 2) + 2 * k - 2) = l[k].type /\ Text((p + 2) + 2 * k - 2) = l[k].str
    BY <1>3, <1>9 DEF Listed
  <2>4. (p + 2) + 2 * k - 2 = p + 2 * k
    BY <1>1, <1>3
  <2> QED
    BY <1>3, <2>2, <2>3, <2>4 DEF OperandAt
<1>11. "NULL" \notin types /\ "NEWLINE" \notin types
  BY DEF WordTypes, NumberTypes, SymbolTypes
<1>12. e - 1 = IF n = 0 THEN p + 2 ELSE (p + 2) + 2 * n - 1
  <2> DEFINE lv == Len(v)
             lw == Len(w)
  <2>1. /\ lw = 2 + lv /\ e - 1 = p + lw /\ p \in Nat /\ e \in Nat /\ n \in Nat
        /\ n = 0 => lv = 0
        /\ n # 0 => lv = 2 * n - 1
    BY <1>1, <1>3, <1>4, <1>5, <1>6
  <2> HIDE DEF n, lv, lw
  <2> QED
    BY <2>1
<1> HIDE DEF l, n
<1>13. l = << >> <=> n = 0
  BY <1>3
<1>14. Items(p + 2, types) = n /\ AfterItems(p + 2, types) = e - 1
  <2>1. p + 2 \in Nat \ {0}
    BY <1>1
  <2>2. \A k \in 1 .. Len(l) : l[k].type \in types
    BY <1>3 DEF n
  <2>3. IF l = << >> THEN Type(p + 2) \notin types ELSE Type((p + 2) + 2 * Len(l) - 1) # "COMMA"
    BY <1>3, <1>6, <1>11, <1>12, <1>13
  <2> QED
    BY <1>1, <1>3, <1>9, <1>11, <1>12, <1>13, <2>1, <2>2, <2>3, ListedItems
<1>15. SkipNewline(e - 1) = e
  BY <1>1, <1>6 DEF SkipNewline
<1> QED
  BY <1>1, <1>3, <1>8, <1>10, <1>14, <1>15 DEF n

(* A list of names, perhaps in braces, with no comma behind it, is what    *)
(* the parser reads.                                                       *)
LEMMA NamesAt ==
  ASSUME TokenList, NEW p \in Nat \ {0}, NEW kind \in {"IMPORT", "EXPORT"},
         NEW s, s.names \in Seq(Labels), s.names # << >>, s.braces \in BOOLEAN,
         At(p, <<Mark(kind)>> \o Names(s)), NEW f, f = p + Len(<<Mark(kind)>> \o Names(s)),
         Type(f) # "COMMA"
  PROVE  /\ Type(p) = kind /\ f \in Nat
         /\ ListClosed(p) /\ ListNames(p) = s.names /\ ListEnd(p) = f
<1> DEFINE l == NameToks(s.names)
           c == Commas(l)
           n == Len(s.names)
           h == <<Mark(kind)>>
           m == Names(s)
<1>1. /\ l \in Seq(TokenSet) /\ Len(l) = n /\ n \in Nat /\ l # << >>
      /\ \A k \in 1 .. n : l[k].type \in SymbolTypes /\ l[k].str = s.names[k]
  BY NameToksAre
<1>2. n # 0 /\ DOMAIN s.names = 1 .. n
  OBVIOUS
<1>3. c \in Seq(TokenSet) /\ Len(c) = 2 * n - 1
  <2> HIDE DEF l, n
  <2> QED
    BY <1>1, <1>2, CommasAre, MarksAre
<1>4. h \in Seq(TokenSet) /\ Len(h) = 1 /\ Mark(kind).type = kind
  BY MarksAre
<1>5. m = IF s.braces THEN <<Mark("L_BRACE")>> \o c \o <<Mark("R_BRACE")>> ELSE c
  BY NamesAre
<1>13. m \in Seq(TokenSet)
  BY NamesAre
<1> HIDE DEF l, c, n, h, m
<1>6. Len(h \o m) = 1 + Len(m) /\ Len(m) \in Nat
  <2>1. Len(h \o m) = Len(h) + Len(m) /\ Len(m) \in Nat
    BY <1>4, <1>13, JoinLen
  <2> QED
    BY <1>4, <2>1
<1>7. At(p, h) /\ At(p + 1, m)
  <2>1. p + 1 = p + Len(h) /\ p \in Int
    BY <1>4
  <2>2. At(p, h \o m)
    BY DEF h, m
  <2> QED
    BY <1>4, <1>13, <2>1, <2>2, AtParts
<1>8. Type(p) = kind
  <2>1. Type(p) = Mark(kind).type
    BY <1>7, AtOne DEF h
  <2> QED
    BY <1>4, <2>1
<1>9. f = p + 1 + Len(m)
  <2> DEFINE lm == Len(m)
             lw == Len(h \o m)
  <2>1. f = p + lw /\ lw = 1 + lm /\ lm \in Nat
    BY <1>6 DEF h, m
  <2> HIDE DEF lm, lw
  <2> QED
    BY <2>1 DEF lm
<1>10. ASSUME NEW b \in Nat \ {0}, At(b, c), b = ListStart(p),
              Type(b + 2 * n - 1) # "COMMA"
       PROVE  /\ AfterItems(b, SymbolTypes) = b + 2 * n - 1
              /\ ListNames(p) = s.names /\ IsSymbol(b)
  <2>1. Listed(b, l)
    BY <1>1, <1>10, AtCommas DEF c
  <2>2. /\ "NULL" \notin SymbolTypes
        /\ \A k \in 1 .. Len(l) : l[k].type \in SymbolTypes
        /\ Type(b + 2 * Len(l) - 1) # "COMMA"
    BY <1>1, <1>10 DEF SymbolTypes
  <2>3. Items(b, SymbolTypes) = Len(l)
        /\ AfterItems(b, SymbolTypes) = b + 2 * Len(l) - 1
    BY <1>1, <1>10, <2>1, <2>2, ListedItems
  <2>4. ASSUME NEW k \in 1 .. n
        PROVE  Text(b + 2 * (k - 1)) = s.names[k] /\ Type(b + 2 * (k - 1)) \in SymbolTypes
    <3>1. b + 2 * (k - 1) = b + 2 * k - 2
      BY <1>1
    <3>2. Type(b + 2 * k - 2) = l[k].type /\ Text(b + 2 * k - 2) = l[k].str
      BY <1>1, <2>1 DEF Listed
    <3> QED
      BY <1>1, <3>1, <3>2
  <2>5. ListNames(p) = [k \in 1 .. n |-> Text(b + 2 * (k - 1))]
    BY <1>1, <1>10, <2>3 DEF ListNames
  <2>6. [k \in 1 .. n |-> Text(b + 2 * (k - 1))] = [k \in 1 .. n |-> s.names[k]]
    BY <2>4
  <2>7. s.names = [k \in 1 .. n |-> s.names[k]]
    <3>1. \A t \in Seq(Labels) : t = [k \in 1 .. Len(t) |-> t[k]]
      OBVIOUS
    <3> QED
      BY <3>1 DEF n
  <2>8. IsSymbol(b)
    <3>1. 1 \in 1 .. n /\ b + 2 * (1 - 1) = b
      BY <1>1, <1>2
    <3> QED
      BY <2>4, <3>1 DEF IsSymbol
  <2> QED
    BY <1>1, <2>3, <2>5, <2>6, <2>7, <2>8
<1>11. CASE s.braces
  <2> DEFINE x == <<Mark("L_BRACE")>>
             y == <<Mark("R_BRACE")>>
             z == x \o c
             q == p + 1
             r == q + 2 * n
  <2>1. /\ x \in Seq(TokenSet) /\ Len(x) = 1 /\ Mark("L_BRACE").type = "L_BRACE"
        /\ y \in Seq(TokenSet) /\ Len(y) = 1 /\ Mark("R_BRACE").type = "R_BRACE"
    BY MarksAre
  <2> HIDE DEF x, y
  <2>2. z \in Seq(TokenSet) /\ Len(z) = 2 * n
    <3>1. z \in Seq(TokenSet) /\ Len(z) = Len(x) + Len(c)
      BY <1>3, <2>1, JoinLen
    <3>2. Len(x) = 1 /\ Len(c) = 2 * n - 1
      BY <1>3, <2>1
    <3> HIDE DEF z
    <3> QED
      BY <1>1, <3>1, <3>2
  <2> HIDE DEF z
  <2>3. m = z \o y
    BY <1>5, <1>11 DEF x, y, z
  <2>4. Len(m) = 2 * n + 1
    <3>1. Len(m) = Len(z) + Len(y)
      BY <2>1, <2>2, <2>3, JoinLen
    <3> QED
      BY <1>1, <2>1, <2>2, <3>1
  <2>5. q \in Int /\ r \in Int /\ p + 1 = q /\ r = q + Len(z) /\ f = r + 1
    <3> DEFINE lm == Len(m)
               lz == Len(z)
    <3>1. f = p + 1 + lm /\ lm = 2 * n + 1 /\ lz = 2 * n /\ n \in Nat /\ p \in Nat
      BY <1>1, <1>9, <2>2, <2>4
    <3> HIDE DEF lm, lz
    <3>2. r = q + lz /\ f = r + 1 /\ q \in Int /\ r \in Int
      BY <3>1
    <3> QED
      BY <3>2 DEF lz
  <2>6. At(q, z) /\ At(r, y)
    <3>1. At(q, z \o y)
      BY <1>7, <2>3
    <3> HIDE DEF q, r
    <3> QED
      BY <2>1, <2>2, <2>5, <3>1, AtParts
  <2>7. At(q, x) /\ At(q + 1, c)
    <3>1. At(q, x \o c) /\ q + 1 = q + Len(x)
      BY <2>1, <2>6 DEF z
    <3> HIDE DEF q, r
    <3> QED
      BY <1>3, <2>1, <2>5, <3>1, AtParts
  <2>8. Type(q) = "L_BRACE" /\ Type(r) = "R_BRACE"
    <3>1. Type(q) = Mark("L_BRACE").type
      BY <2>5, <2>7, AtOne DEF x
    <3>2. Type(r) = Mark("R_BRACE").type
      BY <2>5, <2>6, AtOne DEF y
    <3> QED
      BY <2>1, <3>1, <3>2
  <2>9. Braced(p) /\ ListStart(p) = q + 1 /\ q + 1 \in Nat \ {0}
        /\ (q + 1) + 2 * n - 1 = r
    <3>1. Braced(p)
      BY <2>8 DEF Braced
    <3> QED
      BY <1>1, <3>1 DEF ListStart
  <2>10. /\ AfterItems(q + 1, SymbolTypes) = r /\ ListNames(p) = s.names /\ IsSymbol(q + 1)
    <3> DEFINE b == q + 1
    <3>1. b \in Nat \ {0} /\ At(b, c) /\ b = ListStart(p) /\ b + 2 * n - 1 = r
      BY <2>7, <2>9
    <3> HIDE DEF b, r, q
    <3>2. Type(b + 2 * n - 1) # "COMMA"
      BY <2>8, <3>1
    <3> QED
      BY <1>10, <3>1, <3>2 DEF b
  <2> HIDE DEF q, r
  <2>11. ListClosed(p) /\ ListEnd(p) = r + 1
    BY <2>8, <2>9, <2>10 DEF ListClosed, ListEnd
  <2> QED
    BY <1>8, <2>5, <2>9, <2>10, <2>11 DEF q
<1>12. CASE ~s.braces
  <2> DEFINE q == p + 1
  <2>1. m = c /\ At(q, c) /\ f = q + 2 * n - 1 /\ q \in Nat \ {0}
    <3>1. m = c
      BY <1>5, <1>12
    <3>2. At(q, c)
      BY <1>7, <3>1
    <3>3. Len(m) = 2 * n - 1
      BY <1>3, <3>1
    <3> QED
      BY <1>1, <1>9, <3>1, <3>2, <3>3
  <2>2. Type(q) \in SymbolTypes
    <3>1. q \in Int
      BY <2>1
    <3> HIDE DEF q
    <3>2. Listed(q, l)
      BY <1>1, <2>1, <3>1, AtCommas DEF c
    <3>3. 1 \in 1 .. n /\ 1 \in 1 .. Len(l) /\ q + 2 * 1 - 2 = q
      BY <1>1, <1>2, <3>1
    <3>4. Type(q) = l[1].type
      BY <3>2, <3>3 DEF Listed
    <3> QED
      BY <1>1, <3>3, <3>4
  <2>3. ~Braced(p) /\ ListStart(p) = q
    BY <2>2 DEF Braced, ListStart, SymbolTypes
  <2> HIDE DEF q
  <2>4. AfterItems(q, SymbolTypes) = f /\ ListNames(p) = s.names /\ IsSymbol(q)
    BY <1>10, <2>1, <2>3
  <2>5. ListClosed(p) /\ ListEnd(p) = f + 0
    BY <2>3, <2>4 DEF ListClosed, ListEnd
  <2>6. f \in Nat
    BY <1>1, <1>2, <2>1
  <2> QED
    BY <1>8, <2>4, <2>5, <2>6
<1> QED
  BY <1>11, <1>12

LEMMA ExportShape ==
  ASSUME NEW i, NEW p, NEW e, From(i, p, e), stmts[i].is = "export"
  PROVE  /\ Type(p) = "EXPORT" /\ ListClosed(p) /\ ListNames(p) = stmts[i].names
         /\ SkipNewline(ListEnd(p)) = e
<1> DEFINE s == stmts[i]
           u == <<Mark("EXPORT")>> \o Names(s)
           f == e - 1
<1>1. /\ p \in Nat \ {0} /\ e \in Nat /\ TokenList
      /\ s.names \in Seq(Labels) /\ s.names # << >> /\ s.braces \in BOOLEAN
      /\ Printed(s) = u \o NL
  BY PrintedForms DEF From, StatementHas
<1>2. u \in Seq(TokenSet)
  <2>1. Names(s) \in Seq(TokenSet) /\ <<Mark("EXPORT")>> \in Seq(TokenSet)
    BY <1>1, NamesAre, MarksAre
  <2> QED
    BY <2>1, JoinIs
<1>3. At(p, u) /\ Type(f) = "NEWLINE" /\ f = p + Len(u)
  <2>1. At(p, u \o NL) /\ e = p + Len(u \o NL)
    BY <1>1 DEF From
  <2> HIDE DEF u
  <2> QED
    BY <1>1, <1>2, <2>1, LineParts
<1>4. Type(p) = "EXPORT" /\ ListClosed(p) /\ ListNames(p) = s.names /\ ListEnd(p) = f
  <2> HIDE DEF f, s
  <2> QED
    BY <1>1, <1>3, NamesAt DEF u
<1>5. SkipNewline(f) = f + 1 /\ f + 1 = e
  BY <1>1, <1>3 DEF SkipNewline
<1> QED
  BY <1>4, <1>5

LEMMA ImportShape ==
  ASSUME NEW i, NEW p, NEW e, From(i, p, e), stmts[i].is = "import"
  PROVE  /\ Type(p) = "IMPORT" /\ ListClosed(p) /\ ListNames(p) = stmts[i].names
         /\ stmts[i].from = "" => /\ ~HasFrom(p) /\ SkipNewline(ListEnd(p) + 0) = e
         /\ stmts[i].from # "" => /\ HasFrom(p) /\ Type(ListEnd(p) + 1) = "STRING_LITERAL"
                                  /\ Text(ListEnd(p) + 1) = stmts[i].from
                                  /\ SkipNewline(ListEnd(p) + 2) = e
<1> DEFINE s == stmts[i]
           u == <<Mark("IMPORT")>> \o Names(s)
           v == FromToks(s)
           w == u \o v
           f == p + Len(u)
<1>1. /\ p \in Nat \ {0} /\ e \in Nat /\ TokenList
      /\ s.names \in Seq(Labels) /\ s.names # << >> /\ s.braces \in BOOLEAN /\ s.from \in STRING
      /\ Printed(s) = w \o NL
  BY PrintedForms DEF From, StatementHas
<1>2. u \in Seq(TokenSet)
  <2>1. Names(s) \in Seq(TokenSet) /\ <<Mark("IMPORT")>> \in Seq(TokenSet)
    BY <1>1, NamesAre, MarksAre
  <2> QED
    BY <2>1, JoinIs
<1>3. /\ v \in Seq(TokenSet)
      /\ s.from = "" => v = << >> /\ Len(v) = 0
      /\ s.from # "" => v = <<Mark("FROM"), Tok("STRING_LITERAL", s.from)>> /\ Len(v) = 2
  <2>1. Tok("STRING_LITERAL", s.from) \in TokenSet /\ Mark("FROM") \in TokenSet
    BY <1>1, LiteralIs, MarksAre
  <2>2. <<Mark("FROM"), Tok("STRING_LITERAL", s.from)>> \in Seq(TokenSet) /\ << >> \in Seq(TokenSet)
    BY <2>1
  <2>3. Len(<<Mark("FROM"), Tok("STRING_LITERAL", s.from)>>) = 2 /\ Len(<< >>) = 0
    OBVIOUS
  <2> QED
    BY <2>2, <2>3 DEF FromToks
<1> HIDE DEF v
<1>4. w \in Seq(TokenSet) /\ Len(w) = Len(u) + Len(v) /\ Len(u) \in Nat /\ Len(v) \in Nat
  <2> HIDE DEF u
  <2> QED
    BY <1>2, <1>3, JoinLen
<1>5. At(p, w) /\ Type(e - 1) = "NEWLINE" /\ e - 1 = p + Len(w)
  <2>1. At(p, w \o NL) /\ e = p + Len(w \o NL)
    BY <1>1 DEF From
  <2> HIDE DEF w
  <2> QED
    BY <1>1, <1>4, <2>1, LineParts
<1>6. At(p, u) /\ At(f, v) /\ f \in Int
  <2>1. p \in Int
    BY <1>1
  <2> HIDE DEF u
  <2> QED
    BY <1>2, <1>3, <1>5, <2>1, AtParts
<1>7. ASSUME Type(f) # "COMMA"
      PROVE  Type(p) = "IMPORT" /\ ListClosed(p) /\ ListNames(p) = s.names /\ ListEnd(p) = f
  <2>1. f = p + Len(u)
    OBVIOUS
  <2> HIDE DEF f, s
  <2> QED
    BY <1>1, <1>6, <1>7, <2>1, NamesAt DEF u
<1>8. e - 1 = f + Len(v)
  <2> DEFINE lu == Len(u)
             lv == Len(v)
             lw == Len(w)
  <2>1. lw = lu + lv /\ e - 1 = p + lw /\ f = p + lu /\ lu \in Nat /\ p \in Nat /\ e \in Nat
    BY <1>1, <1>4, <1>5
  <2>2. lv \in Nat
    BY <1>4
  <2> HIDE DEF lu, lv, lw, f
  <2>3. e - 1 = f + lv
    BY <2>1, <2>2
  <2> QED
    BY <2>3 DEF lv
<1> HIDE DEF f
<1>9. CASE s.from = ""
  <2>1. e - 1 = f /\ f + 1 = e /\ f + 0 = f
    <3>1. Len(v) = 0
      BY <1>3, <1>9
    <3> QED
      BY <1>1, <1>6, <1>8, <3>1
  <2>2. Type(f) = "NEWLINE"
    BY <1>5, <2>1
  <2>3. Type(p) = "IMPORT" /\ ListClosed(p) /\ ListNames(p) = s.names /\ ListEnd(p) = f
    BY <1>7, <2>2
  <2>4. ~HasFrom(p) /\ SkipNewline(f) = e
    BY <2>1, <2>2, <2>3 DEF HasFrom, SkipNewline
  <2> QED
    BY <1>9, <2>1, <2>3, <2>4
<1>10. CASE s.from # ""
  <2>1. v = <<Mark("FROM"), Tok("STRING_LITERAL", s.from)>> /\ Len(v) = 2
    BY <1>3, <1>10
  <2>2. Type(f) = Mark("FROM").type /\ Type(f + 1) = Tok("STRING_LITERAL", s.from).type
        /\ Text(f + 1) = Tok("STRING_LITERAL", s.from).str
    BY <1>6, <2>1, AtTwo
  <2>3. Type(f) = "FROM" /\ Type(f + 1) = "STRING_LITERAL" /\ Text(f + 1) = s.from
    BY <1>1, <2>2, MarksAre, LiteralIs
  <2>4. Type(p) = "IMPORT" /\ ListClosed(p) /\ ListNames(p) = s.names /\ ListEnd(p) = f
    BY <1>7, <2>3
  <2>5. e - 1 = f + 2 /\ (f + 2) + 1 = e
    BY <1>1, <1>6, <1>8, <2>1
  <2>6. SkipNewline(f + 2) = e
    BY <1>5, <2>5 DEF SkipNewline
  <2> QED
    BY <1>10, <2>3, <2>4, <2>6 DEF HasFrom
<1> QED
  BY <1>9, <1>10

---------------------------------------------------------------------------
(* The block a statement is in, and the settings there, one statement      *)
(* after the other.                                                        *)

LEMMA LastIs ==
  ASSUME NEW S \in SUBSET Nat, NEW i \in S, \A j \in S : j <= i
  PROVE  LastOf(S) = i
<1> DEFINE Q(k) == \A j \in S : j <= k
<1>1. i \in S /\ Q(i)
  OBVIOUS
<1>2. \A k \in S : Q(k) => k = i
  <2> TAKE k \in S
  <2> SUFFICES ASSUME Q(k) PROVE k = i
    OBVIOUS
  <2>1. i <= k /\ k <= i /\ k \in Nat /\ i \in Nat
    OBVIOUS
  <2> QED
    BY <2>1
<1>3. LastOf(S) = CHOOSE k \in S : Q(k)
  BY DEF LastOf
<1> HIDE DEF Q
<1> QED
  BY <1>1, <1>2, <1>3

(* Either no statement before i is of these kinds, or there is a last one. *)
LEMMA LastOrNone ==
  ASSUME NEW i \in Nat \ {0}, NEW kinds
  PROVE  \/ \A k \in 1 .. i - 1 : ~Is(k, kinds)
         \/ \E j \in 1 .. i - 1 : Is(j, kinds) /\ \A k \in j + 1 .. i - 1 : ~Is(k, kinds)
<1> DEFINE S == {k \in 1 .. i - 1 : Is(k, kinds)}
<1>1. CASE S = {}
  BY <1>1
<1>2. CASE S # {}
  <2>1. i - 1 \in Nat /\ S \in SUBSET (0 .. i - 1)
    OBVIOUS
  <2>2. PICK x \in S : \A y \in S : x >= y
    <3> HIDE DEF S
    <3> QED
      BY <1>2, <2>1, GreatestOf
  <2>3. \A k \in x + 1 .. i - 1 : ~Is(k, kinds)
    <3> SUFFICES ASSUME NEW k \in x + 1 .. i - 1, Is(k, kinds) PROVE FALSE
      OBVIOUS
    <3>1. k \in S /\ ~(x >= k)
      OBVIOUS
    <3> QED
      BY <2>2, <3>1
  <2> QED
    BY <2>2, <2>3
<1> QED
  BY <1>1, <1>2

LEMMA OpenerNone ==
  ASSUME NEW i \in Nat \ {0}, \A k \in 1 .. i - 1 : ~Is(k, Enders)
  PROVE  Opener(i) = 0
BY DEF Opener

LEMMA OpenerIs ==
  ASSUME NEW i \in Nat \ {0}, NEW j \in 1 .. i - 1, Is(j, Enders),
         \A k \in j + 1 .. i - 1 : ~Is(k, Enders)
  PROVE  Opener(i) = IF Is(j, {"label"}) THEN j ELSE 0
<1> DEFINE S == {k \in 1 .. i - 1 : Is(k, Enders)}
<1>1. S \in SUBSET Nat /\ j \in S
  OBVIOUS
<1>2. \A k \in S : k <= j
  <2> SUFFICES ASSUME NEW k \in S, ~(k <= j) PROVE FALSE
    OBVIOUS
  <2>1. k \in j + 1 .. i - 1
    OBVIOUS
  <2> QED
    BY <2>1
<1>3. Opener(i) = IF S = {} THEN 0 ELSE IF Is(LastOf(S), {"label"}) THEN LastOf(S) ELSE 0
  BY DEF Opener, LastOf
<1> HIDE DEF S
<1>4. LastOf(S) = j
  BY <1>1, <1>2, LastIs
<1> QED
  BY <1>1, <1>3, <1>4

LEMMA LabelEnds == \A i : Is(i, {"label"}) => Is(i, Enders)
BY DEF Is, Enders

(* The opener is the last label, with no directive that ends it since.     *)
LEMMA OpenerFacts ==
  ASSUME NEW i \in Nat \ {0}, NEW o, o = Opener(i)
  PROVE  /\ o \in Nat
         /\ o # 0 => /\ o \in 1 .. i - 1 /\ Is(o, {"label"})
                     /\ \A k \in o + 1 .. i - 1 : ~Is(k, Enders)
<1>1. CASE \A k \in 1 .. i - 1 : ~Is(k, Enders)
  BY <1>1, OpenerNone
<1>2. ASSUME NEW j \in 1 .. i - 1, Is(j, Enders), \A k \in j + 1 .. i - 1 : ~Is(k, Enders)
      PROVE  o = IF Is(j, {"label"}) THEN j ELSE 0
  BY <1>2, OpenerIs
<1>3. CASE \E j \in 1 .. i - 1 : Is(j, Enders) /\ \A k \in j + 1 .. i - 1 : ~Is(k, Enders)
  <2>1. PICK j \in 1 .. i - 1 : Is(j, Enders) /\ \A k \in j + 1 .. i - 1 : ~Is(k, Enders)
    BY <1>3
  <2>2. o = IF Is(j, {"label"}) THEN j ELSE 0
    BY <1>2, <2>1
  <2> QED
    BY <2>1, <2>2
<1> QED
  BY <1>1, <1>3, LastOrNone

LEMMA OpenerNext ==
  ASSUME NEW i \in Nat \ {0}, NEW n, n = i + 1
  PROVE  Opener(n) = IF Is(i, {"label"}) THEN i ELSE IF Is(i, Enders) THEN 0 ELSE Opener(i)
<1>1. n \in Nat \ {0} /\ i \in 1 .. n - 1 /\ \A k \in i + 1 .. n - 1 : FALSE
  OBVIOUS
<1>2. \A k \in 1 .. n - 1 : k = i \/ k \in 1 .. i - 1
  OBVIOUS
<1>3. CASE Is(i, Enders)
  <2>1. Opener(n) = IF Is(i, {"label"}) THEN i ELSE 0
    BY <1>1, <1>3, OpenerIs
  <2> QED
    BY <1>3, <2>1
<1>4. CASE ~Is(i, Enders)
  <2>1. CASE \A k \in 1 .. i - 1 : ~Is(k, Enders)
    <3>1. Opener(i) = 0
      BY <2>1, OpenerNone
    <3>2. \A k \in 1 .. n - 1 : ~Is(k, Enders)
      BY <1>2, <1>4, <2>1
    <3>3. Opener(n) = 0
      BY <1>1, <3>2, OpenerNone
    <3> QED
      BY <1>4, <3>1, <3>3, LabelEnds
  <2>2. CASE \E j \in 1 .. i - 1 : Is(j, Enders) /\ \A k \in j + 1 .. i - 1 : ~Is(k, Enders)
    <3>1. PICK j \in 1 .. i - 1 : Is(j, Enders) /\ \A k \in j + 1 .. i - 1 : ~Is(k, Enders)
      BY <2>2
    <3>2. Opener(i) = IF Is(j, {"label"}) THEN j ELSE 0
      BY <3>1, OpenerIs
    <3>3. j \in 1 .. n - 1 /\ \A k \in j + 1 .. n - 1 : k = i \/ k \in j + 1 .. i - 1
      OBVIOUS
    <3>4. \A k \in j + 1 .. n - 1 : ~Is(k, Enders)
      BY <1>4, <3>1, <3>3
    <3>5. Opener(n) = IF Is(j, {"label"}) THEN j ELSE 0
      BY <1>1, <3>1, <3>3, <3>4, OpenerIs
    <3> QED
      BY <1>4, <3>2, <3>5, LabelEnds
  <2> QED
    BY <2>1, <2>2, LastOrNone
<1> QED
  BY <1>3, <1>4

(* Behind a statement that ends a block, no statement is in it.            *)
LEMMA OpenerMovesOn ==
  ASSUME NEW o \in Nat, NEW i \in Nat, o < i, Is(i, Enders), NEW j \in Nat, i < j
  PROVE  Opener(j) # o \/ o = 0
<1> SUFFICES ASSUME Opener(j) = o, o # 0 PROVE FALSE
  OBVIOUS
<1>1. j \in Nat \ {0}
  OBVIOUS
<1>2. \A k \in o + 1 .. j - 1 : ~Is(k, Enders)
  BY <1>1, OpenerFacts
<1>3. i \in o + 1 .. j - 1
  OBVIOUS
<1> QED
  BY <1>2, <1>3

(* What .section leaves: for the next label, and gone behind it.           *)
LEMMA SectionNext ==
  ASSUME NEW i \in Nat \ {0}, NEW n, n = i + 1
  PROVE  SectionAt(n) = IF Is(i, {"section"}) THEN stmts[i].name
                        ELSE IF Is(i, {"label"}) THEN NoSection ELSE SectionAt(i)
<1> DEFINE S(m) == {j \in 1 .. m - 1 : /\ Is(j, {"section"})
                                       /\ \A k \in 1 .. m - 1 : Is(k, {"label"}) => k < j}
<1>1. \A m : SectionAt(m) = IF S(m) = {} THEN NoSection ELSE stmts[LastOf(S(m))].name
  BY DEF SectionAt
<1>2. \A k \in 1 .. n - 1 : k = i \/ k \in 1 .. i - 1
  OBVIOUS
<1>3. i \in 1 .. n - 1 /\ \A k \in 1 .. i - 1 : k \in 1 .. n - 1 /\ k < i
  OBVIOUS
<1>4. CASE Is(i, {"section"})
  <2>1. ~Is(i, {"label"})
    BY <1>4 DEF Is
  <2>2. i \in S(n)
    BY <1>2, <1>3, <1>4, <2>1
  <2>3. S(n) \in SUBSET Nat /\ \A k \in S(n) : k <= i
    OBVIOUS
  <2> HIDE DEF S
  <2>4. LastOf(S(n)) = i
    BY <2>2, <2>3, LastIs
  <2> QED
    BY <1>1, <1>4, <2>2, <2>4
<1>5. CASE Is(i, {"label"})
  <2>1. ~Is(i, {"section"})
    BY <1>5 DEF Is
  <2>2. S(n) = {}
    <3> SUFFICES ASSUME NEW j \in S(n) PROVE FALSE
      OBVIOUS
    <3>1. i < j /\ j \in 1 .. n - 1
      BY <1>3, <1>5
    <3> QED
      BY <3>1
  <2> HIDE DEF S
  <2> QED
    BY <1>1, <1>5, <2>1, <2>2
<1>6. CASE ~Is(i, {"section"}) /\ ~Is(i, {"label"})
  <2>1. \A j \in S(n) : j \in S(i)
    BY <1>2, <1>3, <1>6
  <2>2. \A j \in S(i) : j \in S(n)
    BY <1>2, <1>3, <1>6
  <2>3. S(n) = S(i)
    BY <2>1, <2>2
  <2> HIDE DEF S
  <2> QED
    BY <1>1, <1>6, <2>3
<1> QED
  BY <1>4, <1>5, <1>6

LEMMA DataNext ==
  ASSUME NEW i \in Nat \ {0}, NEW n, n = i + 1
  PROVE  DataAt(n) = IF Is(i, {"data", "text"}) THEN Is(i, {"data"}) ELSE DataAt(i)
<1> DEFINE S(m) == {j \in 1 .. m - 1 : Is(j, {"data", "text"})}
<1>1. \A m : DataAt(m) = (S(m) # {} /\ Is(LastOf(S(m)), {"data"}))
  BY DEF DataAt
<1>2. \A k \in 1 .. n - 1 : k = i \/ k \in 1 .. i - 1
  OBVIOUS
<1>3. i \in 1 .. n - 1 /\ \A k \in 1 .. i - 1 : k \in 1 .. n - 1 /\ k < i
  OBVIOUS
<1>4. CASE Is(i, {"data", "text"})
  <2>1. i \in S(n)
    BY <1>3, <1>4
  <2>2. S(n) \in SUBSET Nat /\ \A k \in S(n) : k <= i
    OBVIOUS
  <2> HIDE DEF S
  <2>3. LastOf(S(n)) = i
    BY <2>1, <2>2, LastIs
  <2>4. S(n) # {} /\ DataAt(n) = (S(n) # {} /\ Is(LastOf(S(n)), {"data"}))
    BY <1>1, <2>1
  <2>5. DataAt(n) = Is(i, {"data"})
    BY <2>3, <2>4 DEF Is
  <2> QED
    BY <1>4, <2>5
<1>5. CASE ~Is(i, {"data", "text"})
  <2>1. S(n) = S(i)
    BY <1>2, <1>3, <1>5
  <2> HIDE DEF S
  <2> QED
    BY <1>1, <1>5, <2>1
<1> QED
  BY <1>4, <1>5

(* Nothing is pending in a block, and .data holds on.                      *)
LEMMA SettingsInBlock ==
  ASSUME NEW i \in Nat \ {0}, NEW o, o = Opener(i), o # 0
  PROVE  SectionAt(i) = NoSection /\ DataAt(i) = DataAt(o)
<1>1. /\ o \in 1 .. i - 1 /\ Is(o, {"label"})
      /\ \A k \in o + 1 .. i - 1 : ~Is(k, Enders)
  BY OpenerFacts
<1>2. /\ \A k : Is(k, {"section"}) => Is(k, Enders)
      /\ \A k : Is(k, {"data", "text"}) => Is(k, Enders)
      /\ ~Is(o, {"data", "text"})
  BY <1>1 DEF Is, Enders
<1>3. \A k \in 1 .. i - 1 : k \in 1 .. o - 1 \/ k = o \/ k \in o + 1 .. i - 1
  BY <1>1
<1>4. {j \in 1 .. i - 1 : /\ Is(j, {"section"})
                          /\ \A k \in 1 .. i - 1 : Is(k, {"label"}) => k < j} = {}
  <2> SUFFICES ASSUME NEW j \in 1 .. i - 1, Is(j, {"section"}), o < j PROVE FALSE
    BY <1>1
  <2>1. j \in o + 1 .. i - 1
    BY <1>1
  <2> QED
    BY <1>1, <1>2, <2>1
<1>5. SectionAt(i) = NoSection
  BY <1>4 DEF SectionAt
<1>6. {j \in 1 .. i - 1 : Is(j, {"data", "text"})} = {j \in 1 .. o - 1 : Is(j, {"data", "text"})}
  <2>1. \A k \in 1 .. o - 1 : k \in 1 .. i - 1
    BY <1>1
  <2> QED
    BY <1>1, <1>2, <1>3, <2>1
<1>7. DataAt(i) = DataAt(o)
  BY <1>6 DEF DataAt
<1> QED
  BY <1>5, <1>7

LEMMA AtFirst ==
  Opener(1) = 0 /\ SectionAt(1) = NoSection /\ DataAt(1) = FALSE
<1>1. \A k \in 1 .. 1 - 1 : FALSE
  OBVIOUS
<1>2. Opener(1) = 0
  BY <1>1, OpenerNone
<1>3. SectionAt(1) = NoSection
  BY <1>1 DEF SectionAt
<1>4. DataAt(1) = FALSE
  BY <1>1 DEF DataAt
<1> QED
  BY <1>2, <1>3, <1>4

---------------------------------------------------------------------------
(* What one more statement adds to what has been read.                     *)

(* A family of sequences that grows by one of them at each statement.      *)
LEMMA FamilyGrows ==
  ASSUME Laid, NEW S, NEW f, f = [j \in DOMAIN stmts |-> f[j]],
         \A j \in 1 .. Len(stmts) : f[j] \in Seq(S)
  PROVE  Grows(S, Len(stmts), f) /\ f \in ListsOf(S, Len(stmts))
<1>1. Len(stmts) \in Nat /\ DOMAIN stmts = 1 .. Len(stmts)
  BY DEF Laid
<1>2. f \in ListsOf(S, Len(stmts))
  BY <1>1 DEF ListsOf
<1> QED
  BY <1>1, <1>2, UptoGrows

Adds(S, f, i, m) ==
  /\ Upto(f, m - 1) = Upto(f, i - 1) \o f[i]
  /\ f[i] = << >> => Upto(f, m - 1) = Upto(f, i - 1)
  /\ Upto(f, i - 1) \in Seq(S) /\ f[i] \in Seq(S) /\ Upto(f, m - 1) \in Seq(S)

LEMMA FamilyAdds ==
  ASSUME Len(stmts) \in Nat, NEW S, NEW f, Grows(S, Len(stmts), f),
         NEW i \in 1 .. Len(stmts), NEW m, m = i + 1
  PROVE  Adds(S, f, i, m)
<1> DEFINE n == Len(stmts)
<1>1. m - 1 = i /\ i \in 0 .. n /\ i - 1 \in 0 .. n /\ i \in 1 .. n
  OBVIOUS
<1>2. /\ \A k \in 0 .. n : Upto(f, k) \in Seq(S)
      /\ \A k \in 1 .. n : f[k] \in Seq(S) /\ Upto(f, k) = Upto(f, k - 1) \o f[k]
  BY DEF Grows
<1> HIDE DEF n
<1>3. Upto(f, i) = Upto(f, i - 1) \o f[i] /\ Upto(f, i - 1) \in Seq(S) /\ Upto(f, i) \in Seq(S)
      /\ f[i] \in Seq(S)
  BY <1>1, <1>2
<1>4. \A s \in Seq(S) : s \o << >> = s
  OBVIOUS
<1>5. f[i] = << >> => Upto(f, i) = Upto(f, i - 1)
  BY <1>3, <1>4
<1> QED
  BY <1>1, <1>3, <1>5 DEF Adds

LEMMA NamesGrow ==
  ASSUME Laid, NEW kind \in {"import", "export"}
  PROVE  /\ Grows(Labels, Len(stmts), NamesOf(kind))
         /\ \A j \in 1 .. Len(stmts) :
              NamesOf(kind)[j] = IF Is(j, {kind}) THEN stmts[j].names ELSE << >>
<1> DEFINE f == NamesOf(kind)
<1>1. /\ DOMAIN stmts = 1 .. Len(stmts)
      /\ \A j \in 1 .. Len(stmts) : StatementHas(stmts[j])
  BY DEF Laid
<1>2. \A j \in 1 .. Len(stmts) : f[j] = IF Is(j, {kind}) THEN stmts[j].names ELSE << >>
  BY <1>1 DEF NamesOf
<1>3. ASSUME NEW j \in 1 .. Len(stmts) PROVE f[j] \in Seq(Labels)
  <2>1. << >> \in Seq(Labels)
    OBVIOUS
  <2>2. Is(j, {kind}) => stmts[j].names \in Seq(Labels)
    BY <1>1 DEF Is, StatementHas
  <2> QED
    BY <1>2, <2>1, <2>2
<1>4. f = [j \in DOMAIN stmts |-> f[j]]
  BY DEF NamesOf
<1> HIDE DEF f
<1>5. Grows(Labels, Len(stmts), f)
  BY <1>3, <1>4, FamilyGrows
<1> QED
  BY <1>2, <1>5 DEF f

LEMMA PathsGrow ==
  ASSUME Laid
  PROVE  /\ Grows(STRING, Len(stmts), PathsOf)
         /\ \A j \in 1 .. Len(stmts) :
              PathsOf[j] = IF Is(j, {"import"}) /\ stmts[j].from # "" THEN <<stmts[j].from>>
                                                                     ELSE << >>
<1> DEFINE f == PathsOf
<1>1. /\ DOMAIN stmts = 1 .. Len(stmts)
      /\ \A j \in 1 .. Len(stmts) : StatementHas(stmts[j])
  BY DEF Laid
<1>2. \A j \in 1 .. Len(stmts) :
        f[j] = IF Is(j, {"import"}) /\ stmts[j].from # "" THEN <<stmts[j].from>> ELSE << >>
  BY <1>1 DEF PathsOf
<1>3. ASSUME NEW j \in 1 .. Len(stmts) PROVE f[j] \in Seq(STRING)
  <2>1. << >> \in Seq(STRING)
    OBVIOUS
  <2>2. Is(j, {"import"}) => <<stmts[j].from>> \in Seq(STRING)
    <3> SUFFICES ASSUME Is(j, {"import"}) PROVE <<stmts[j].from>> \in Seq(STRING)
      OBVIOUS
    <3>1. stmts[j].from \in STRING
      BY <1>1 DEF Is, StatementHas
    <3> QED
      BY <3>1
  <2> QED
    BY <1>2, <2>1, <2>2
<1>4. f = [j \in DOMAIN stmts |-> f[j]]
  BY DEF PathsOf
<1> HIDE DEF f
<1>5. Grows(STRING, Len(stmts), f)
  BY <1>3, <1>4, FamilyGrows
<1> QED
  BY <1>2, <1>5 DEF f

LEMMA BlocksGrow ==
  ASSUME Laid
  PROVE  \E S : /\ Grows(S, Len(stmts), BlocksOf) /\ BlocksOf \in ListsOf(S, Len(stmts))
                /\ \A j \in 1 .. Len(stmts) :
                     BlocksOf[j] = IF Is(j, {"label"}) THEN <<BlockMeant(j)>> ELSE << >>
<1> DEFINE f == BlocksOf
           S == {BlockMeant(j) : j \in 1 .. Len(stmts)}
<1>1. DOMAIN stmts = 1 .. Len(stmts)
  BY DEF Laid
<1>2. \A j \in 1 .. Len(stmts) : f[j] = IF Is(j, {"label"}) THEN <<BlockMeant(j)>> ELSE << >>
  BY <1>1 DEF BlocksOf
<1>3. ASSUME NEW j \in 1 .. Len(stmts) PROVE f[j] \in Seq(S)
  <2>1. BlockMeant(j) \in S
    OBVIOUS
  <2> HIDE DEF S
  <2>2. << >> \in Seq(S) /\ <<BlockMeant(j)>> \in Seq(S)
    BY <2>1
  <2> QED
    BY <1>2, <2>2
<1>4. f = [j \in DOMAIN stmts |-> f[j]]
  BY DEF BlocksOf
<1> HIDE DEF f, S
<1>5. Grows(S, Len(stmts), f) /\ f \in ListsOf(S, Len(stmts))
  BY <1>3, <1>4, FamilyGrows
<1> QED
  BY <1>2, <1>5 DEF f

LEMMA InstrsGrow ==
  ASSUME Laid, NEW o
  PROVE  \E S : /\ Grows(S, Len(stmts), InstrsOf(o)) /\ InstrsOf(o) \in ListsOf(S, Len(stmts))
                /\ \A j \in 1 .. Len(stmts) :
                     InstrsOf(o)[j] = IF Is(j, {"instr"}) /\ Opener(j) = o
                                      THEN <<InstrMeant(stmts[j])>> ELSE << >>
<1> DEFINE f == InstrsOf(o)
           S == {InstrMeant(stmts[j]) : j \in 1 .. Len(stmts)}
<1>1. DOMAIN stmts = 1 .. Len(stmts)
  BY DEF Laid
<1>2. \A j \in 1 .. Len(stmts) :
        f[j] = IF Is(j, {"instr"}) /\ Opener(j) = o THEN <<InstrMeant(stmts[j])>> ELSE << >>
  BY <1>1 DEF InstrsOf
<1>3. ASSUME NEW j \in 1 .. Len(stmts) PROVE f[j] \in Seq(S)
  <2>1. InstrMeant(stmts[j]) \in S
    OBVIOUS
  <2> HIDE DEF S
  <2>2. << >> \in Seq(S) /\ <<InstrMeant(stmts[j])>> \in Seq(S)
    BY <2>1
  <2> QED
    BY <1>2, <2>2
<1>4. f = [j \in DOMAIN stmts |-> f[j]]
  BY DEF InstrsOf
<1> HIDE DEF f, S
<1>5. Grows(S, Len(stmts), f) /\ f \in ListsOf(S, Len(stmts))
  BY <1>3, <1>4, FamilyGrows
<1> QED
  BY <1>2, <1>5 DEF f

(* The bytes and the words of a statement.                                 *)
BytesMeant(s) == [k \in DOMAIN s.items |-> ByteMeant(s.items[k])]
WordsMeant(s) == [k \in DOMAIN s.items |-> WordMeant(s.items[k])]

LEMMA BytesGrow ==
  ASSUME Laid, NEW o
  PROVE  \E S : /\ Grows(S, Len(stmts), BytesOf(o)) /\ BytesOf(o) \in ListsOf(S, Len(stmts))
                /\ \A j \in 1 .. Len(stmts) :
                     BytesOf(o)[j] = IF Is(j, {"byte"}) /\ Opener(j) = o
                                     THEN BytesMeant(stmts[j]) ELSE << >>
<1> DEFINE f == BytesOf(o)
           S == {ByteMeant(x) : x \in OperandSet}
<1>1. DOMAIN stmts = 1 .. Len(stmts) /\ \A j \in 1 .. Len(stmts) : StatementHas(stmts[j])
  BY DEF Laid
<1>2. \A j \in 1 .. Len(stmts) :
        f[j] = IF Is(j, {"byte"}) /\ Opener(j) = o THEN BytesMeant(stmts[j]) ELSE << >>
  BY <1>1 DEF BytesOf, BytesMeant
<1>3. ASSUME NEW j \in 1 .. Len(stmts) PROVE f[j] \in Seq(S)
  <2>1. ASSUME Is(j, {"byte"}) PROVE BytesMeant(stmts[j]) \in Seq(S)
    <3> DEFINE t == stmts[j].items
               n == Len(t)
    <3>1. t \in Seq(OperandSet)
      BY <1>1, <2>1, ItemFacts DEF Is
    <3> HIDE DEF t
    <3>2. n \in Nat /\ DOMAIN t = 1 .. n /\ \A k \in 1 .. n : t[k] \in OperandSet
      BY <3>1
    <3>3. \A k \in 1 .. n : ByteMeant(t[k]) \in S
      BY <3>2
    <3> HIDE DEF S, n
    <3>4. [k \in 1 .. n |-> ByteMeant(t[k])] \in [1 .. n -> S]
      BY <3>3
    <3>5. BytesMeant(stmts[j]) = [k \in 1 .. n |-> ByteMeant(t[k])]
      BY <3>2 DEF BytesMeant, t
    <3> QED
      BY <3>2, <3>4, <3>5
  <2>2. << >> \in Seq(S)
    OBVIOUS
  <2> QED
    BY <1>2, <2>1, <2>2
<1>4. f = [j \in DOMAIN stmts |-> f[j]]
  BY DEF BytesOf
<1> HIDE DEF f, S
<1>5. Grows(S, Len(stmts), f) /\ f \in ListsOf(S, Len(stmts))
  BY <1>3, <1>4, FamilyGrows
<1> QED
  BY <1>2, <1>5 DEF f

LEMMA WordsGrow ==
  ASSUME Laid, NEW o
  PROVE  \E S : /\ Grows(S, Len(stmts), WordsOf(o)) /\ WordsOf(o) \in ListsOf(S, Len(stmts))
                /\ \A j \in 1 .. Len(stmts) :
                     WordsOf(o)[j] = IF Is(j, {"word"}) /\ Opener(j) = o
                                     THEN WordsMeant(stmts[j]) ELSE << >>
<1> DEFINE f == WordsOf(o)
           S == {WordMeant(x) : x \in OperandSet}
<1>1. DOMAIN stmts = 1 .. Len(stmts) /\ \A j \in 1 .. Len(stmts) : StatementHas(stmts[j])
  BY DEF Laid
<1>2. \A j \in 1 .. Len(stmts) :
        f[j] = IF Is(j, {"word"}) /\ Opener(j) = o THEN WordsMeant(stmts[j]) ELSE << >>
  BY <1>1 DEF WordsOf, WordsMeant
<1>3. ASSUME NEW j \in 1 .. Len(stmts) PROVE f[j] \in Seq(S)
  <2>1. ASSUME Is(j, {"word"}) PROVE WordsMeant(stmts[j]) \in Seq(S)
    <3> DEFINE t == stmts[j].items
               n == Len(t)
    <3>1. t \in Seq(OperandSet)
      BY <1>1, <2>1, ItemFacts DEF Is
    <3> HIDE DEF t
    <3>2. n \in Nat /\ DOMAIN t = 1 .. n /\ \A k \in 1 .. n : t[k] \in OperandSet
      BY <3>1
    <3>3. \A k \in 1 .. n : WordMeant(t[k]) \in S
      BY <3>2
    <3> HIDE DEF S, n
    <3>4. [k \in 1 .. n |-> WordMeant(t[k])] \in [1 .. n -> S]
      BY <3>3
    <3>5. WordsMeant(stmts[j]) = [k \in 1 .. n |-> WordMeant(t[k])]
      BY <3>2 DEF WordsMeant, t
    <3> QED
      BY <3>2, <3>4, <3>5
  <2>2. << >> \in Seq(S)
    OBVIOUS
  <2> QED
    BY <1>2, <2>1, <2>2
<1>4. f = [j \in DOMAIN stmts |-> f[j]]
  BY DEF WordsOf
<1> HIDE DEF f, S
<1>5. Grows(S, Len(stmts), f) /\ f \in ListsOf(S, Len(stmts))
  BY <1>3, <1>4, FamilyGrows
<1> QED
  BY <1>2, <1>5 DEF f

---------------------------------------------------------------------------
(* The lists of names, read on.                                            *)
LEMMA LegalOn ==
  ASSUME NEW i \in Nat \ {0}, NEW m, m = i + 1, \A j \in 1 .. i - 1 : LegalAt(j), LegalAt(i)
  PROVE  \A j \in 1 .. m - 1 : LegalAt(j)
<1>1. \A j \in 1 .. m - 1 : j = i \/ j \in 1 .. i - 1
  OBVIOUS
<1> QED
  BY <1>1

LEMMA ReadOn ==
  ASSUME Laid, NEW i \in 1 .. Len(stmts), NEW m, m = i + 1, NEW im, NEW ex, NEW pa,
         Read(i, im, ex, pa), LegalAt(i), ~Is(i, {"import", "export"})
  PROVE  Read(m, im, ex, pa)
<1>1. Len(stmts) \in Nat /\ i \in Nat \ {0} /\ ~Is(i, {"import"}) /\ ~Is(i, {"export"})
  BY DEF Laid, Is
<1>2. Upto(NamesOf("import"), m - 1) = Upto(NamesOf("import"), i - 1)
  <2> DEFINE f == NamesOf("import")
  <2>1. Grows(Labels, Len(stmts), f) /\ f[i] = << >>
    BY <1>1, NamesGrow
  <2> HIDE DEF f
  <2>2. Upto(f, m - 1) = Upto(f, i - 1)
    BY <1>1, <2>1, FamilyAdds DEF Adds
  <2> QED
    BY <2>2 DEF f
<1>3. Upto(NamesOf("export"), m - 1) = Upto(NamesOf("export"), i - 1)
  <2> DEFINE f == NamesOf("export")
  <2>1. Grows(Labels, Len(stmts), f) /\ f[i] = << >>
    BY <1>1, NamesGrow
  <2> HIDE DEF f
  <2>2. Upto(f, m - 1) = Upto(f, i - 1)
    BY <1>1, <2>1, FamilyAdds DEF Adds
  <2> QED
    BY <2>2 DEF f
<1>4. Upto(PathsOf, m - 1) = Upto(PathsOf, i - 1)
  <2> DEFINE f == PathsOf
  <2>1. Grows(STRING, Len(stmts), f) /\ f[i] = << >>
    BY <1>1, PathsGrow
  <2> HIDE DEF f
  <2>2. Upto(f, m - 1) = Upto(f, i - 1)
    BY <1>1, <2>1, FamilyAdds DEF Adds
  <2> QED
    BY <2>2 DEF f
<1>5. \A j \in 1 .. m - 1 : LegalAt(j)
  BY <1>1, LegalOn DEF Read
<1> QED
  BY <1>2, <1>3, <1>4, <1>5 DEF Read

LEMMA ReadImport ==
  ASSUME Laid, NEW i \in 1 .. Len(stmts), NEW m, m = i + 1, NEW im, NEW ex, NEW pa,
         Read(i, im, ex, pa), LegalAt(i), stmts[i].is = "import"
  PROVE  Read(m, AddNames(im, stmts[i].names), ex,
              IF stmts[i].from = "" THEN pa ELSE AddNames(pa, <<stmts[i].from>>))
<1>1. Len(stmts) \in Nat /\ i \in Nat \ {0} /\ Is(i, {"import"}) /\ ~Is(i, {"export"})
  BY DEF Laid, Is
<1>2. Distinct(Upto(NamesOf("import"), m - 1)) = AddNames(im, stmts[i].names)
  <2> DEFINE f == NamesOf("import")
  <2>1. Grows(Labels, Len(stmts), f) /\ f[i] = stmts[i].names
    BY <1>1, NamesGrow
  <2>2. im = Distinct(Upto(f, i - 1))
    BY DEF Read
  <2> HIDE DEF f
  <2>3. Upto(f, m - 1) = Upto(f, i - 1) \o f[i] /\ Upto(f, i - 1) \in Seq(Labels)
        /\ f[i] \in Seq(Labels)
    <3>1. Grows(Labels, Len(stmts), f)
      BY <2>1
    <3>2. Adds(Labels, f, i, m)
      BY <1>1, <3>1, FamilyAdds
    <3> QED
      BY <3>2 DEF Adds
  <2>4. AddNames(Distinct(Upto(f, i - 1)), f[i]) = Distinct(Upto(f, i - 1) \o f[i])
    BY <2>3, AddNamesMeans
  <2>5. Distinct(Upto(f, m - 1)) = AddNames(im, stmts[i].names)
    BY <2>1, <2>2, <2>3, <2>4
  <2> QED
    BY <2>5 DEF f
<1>3. Upto(NamesOf("export"), m - 1) = Upto(NamesOf("export"), i - 1)
  <2> DEFINE f == NamesOf("export")
  <2>1. Grows(Labels, Len(stmts), f) /\ f[i] = << >>
    BY <1>1, NamesGrow
  <2> HIDE DEF f
  <2>2. Upto(f, m - 1) = Upto(f, i - 1)
    BY <1>1, <2>1, FamilyAdds DEF Adds
  <2> QED
    BY <2>2 DEF f
<1>4. Distinct(Upto(PathsOf, m - 1))
        = IF stmts[i].from = "" THEN pa ELSE AddNames(pa, <<stmts[i].from>>)
  <2> DEFINE f == PathsOf
  <2>1. Grows(STRING, Len(stmts), f)
        /\ f[i] = IF stmts[i].from # "" THEN <<stmts[i].from>> ELSE << >>
    BY <1>1, PathsGrow
  <2>2. pa = Distinct(Upto(f, i - 1))
    BY DEF Read
  <2> HIDE DEF f
  <2>3. Upto(f, m - 1) = Upto(f, i - 1) \o f[i] /\ Upto(f, i - 1) \in Seq(STRING)
        /\ f[i] \in Seq(STRING) /\ (f[i] = << >> => Upto(f, m - 1) = Upto(f, i - 1))
    <3>1. Grows(STRING, Len(stmts), f)
      BY <2>1
    <3>2. Adds(STRING, f, i, m)
      BY <1>1, <3>1, FamilyAdds
    <3> QED
      BY <3>2 DEF Adds
  <2>4. CASE stmts[i].from = ""
    <3>1. Upto(f, m - 1) = Upto(f, i - 1)
      BY <2>1, <2>3, <2>4
    <3> QED
      BY <2>2, <2>4, <3>1 DEF f
  <2>5. CASE stmts[i].from # ""
    <3>1. AddNames(Distinct(Upto(f, i - 1)), f[i]) = Distinct(Upto(f, i - 1) \o f[i])
      BY <2>3, AddNamesMeans
    <3>2. Distinct(Upto(f, m - 1)) = AddNames(pa, <<stmts[i].from>>)
      BY <2>1, <2>2, <2>3, <2>5, <3>1
    <3> QED
      BY <2>5, <3>2 DEF f
  <2> QED
    BY <2>4, <2>5
<1>5. \A j \in 1 .. m - 1 : LegalAt(j)
  BY <1>1, LegalOn DEF Read
<1> QED
  BY <1>2, <1>3, <1>4, <1>5 DEF Read

LEMMA ReadExport ==
  ASSUME Laid, NEW i \in 1 .. Len(stmts), NEW m, m = i + 1, NEW im, NEW ex, NEW pa,
         Read(i, im, ex, pa), LegalAt(i), stmts[i].is = "export"
  PROVE  Read(m, im, AddNames(ex, stmts[i].names), pa)
<1>1. Len(stmts) \in Nat /\ i \in Nat \ {0} /\ Is(i, {"export"}) /\ ~Is(i, {"import"})
  BY DEF Laid, Is
<1>2. Distinct(Upto(NamesOf("export"), m - 1)) = AddNames(ex, stmts[i].names)
  <2> DEFINE f == NamesOf("export")
  <2>1. Grows(Labels, Len(stmts), f) /\ f[i] = stmts[i].names
    BY <1>1, NamesGrow
  <2>2. ex = Distinct(Upto(f, i - 1))
    BY DEF Read
  <2> HIDE DEF f
  <2>3. Upto(f, m - 1) = Upto(f, i - 1) \o f[i] /\ Upto(f, i - 1) \in Seq(Labels)
        /\ f[i] \in Seq(Labels)
    <3>1. Grows(Labels, Len(stmts), f)
      BY <2>1
    <3>2. Adds(Labels, f, i, m)
      BY <1>1, <3>1, FamilyAdds
    <3> QED
      BY <3>2 DEF Adds
  <2>4. AddNames(Distinct(Upto(f, i - 1)), f[i]) = Distinct(Upto(f, i - 1) \o f[i])
    BY <2>3, AddNamesMeans
  <2>5. Distinct(Upto(f, m - 1)) = AddNames(ex, stmts[i].names)
    BY <2>1, <2>2, <2>3, <2>4
  <2> QED
    BY <2>5 DEF f
<1>3. Upto(NamesOf("import"), m - 1) = Upto(NamesOf("import"), i - 1)
  <2> DEFINE f == NamesOf("import")
  <2>1. Grows(Labels, Len(stmts), f) /\ f[i] = << >>
    BY <1>1, NamesGrow
  <2> HIDE DEF f
  <2>2. Upto(f, m - 1) = Upto(f, i - 1)
    BY <1>1, <2>1, FamilyAdds DEF Adds
  <2> QED
    BY <2>2 DEF f
<1>4. Upto(PathsOf, m - 1) = Upto(PathsOf, i - 1)
  <2> DEFINE f == PathsOf
  <2>1. Grows(STRING, Len(stmts), f) /\ f[i] = << >>
    BY <1>1, PathsGrow
  <2> HIDE DEF f
  <2>2. Upto(f, m - 1) = Upto(f, i - 1)
    BY <1>1, <2>1, FamilyAdds DEF Adds
  <2> QED
    BY <2>2 DEF f
<1>5. \A j \in 1 .. m - 1 : LegalAt(j)
  BY <1>1, LegalOn DEF Read
<1> QED
  BY <1>2, <1>3, <1>4, <1>5 DEF Read

---------------------------------------------------------------------------
(* The blocks, statement by statement.                                     *)

LEMMA SingleIs ==
  ASSUME NEW S, NEW x, <<x>> \in Seq(S)
  PROVE  x \in S
<1>1. ASSUME NEW t \in Seq(S), Len(t) = 1
      PROVE  t[1] \in S
  <2>1. t \in [1 .. Len(t) -> S]
    OBVIOUS
  <2> QED
    BY <1>1, <2>1
<1>2. Len(<<x>>) = 1 /\ <<x>>[1] = x
  OBVIOUS
<1> QED
  BY <1>1, <1>2

(* Outside a block, all but a label leave the blocks as they are.          *)
LEMMA TopOn ==
  ASSUME Laid, NEW i \in 1 .. Len(stmts), NEW m, m = i + 1, NEW c, NEW d,
         NEW bs, NEW name, NEW data, AtTop(i, c, bs, name, data),
         ~(c > Len(toks)), ~Is(i, {"label"})
  PROVE  AtTop(m, d, bs, IF Is(i, {"section"}) THEN stmts[i].name ELSE name,
               IF Is(i, {"data", "text"}) THEN Is(i, {"data"}) ELSE data)
<1>1. Len(stmts) \in Nat /\ i \in Nat \ {0}
  BY DEF Laid
<1>2. /\ Opener(i) = 0 \/ Is(i, Enders)
      /\ bs = Upto(BlocksOf, i - 1) /\ name = SectionAt(i) /\ data = DataAt(i)
  BY DEF AtTop
<1>3. Opener(m) = 0
  BY <1>1, <1>2, OpenerNext
<1>4. Upto(BlocksOf, m - 1) = Upto(BlocksOf, i - 1)
  <2> DEFINE f == BlocksOf
  <2>1. PICK S : Grows(S, Len(stmts), f) /\ f[i] = << >>
    BY BlocksGrow
  <2> HIDE DEF f
  <2>2. Upto(f, m - 1) = Upto(f, i - 1)
    BY <1>1, <2>1, FamilyAdds DEF Adds
  <2> QED
    BY <2>2 DEF f
<1>5. SectionAt(m) = IF Is(i, {"section"}) THEN stmts[i].name ELSE SectionAt(i)
  BY <1>1, SectionNext
<1>6. DataAt(m) = IF Is(i, {"data", "text"}) THEN Is(i, {"data"}) ELSE DataAt(i)
  BY <1>1, DataNext
<1>7. bs = Upto(BlocksOf, m - 1)
  BY <1>2, <1>4
<1>8. (IF Is(i, {"section"}) THEN stmts[i].name ELSE name) = SectionAt(m)
  BY <1>2, <1>5
<1>9. (IF Is(i, {"data", "text"}) THEN Is(i, {"data"}) ELSE data) = DataAt(m)
  BY <1>2, <1>6
<1> QED
  BY <1>3, <1>7, <1>8, <1>9 DEF AtTop

(* A family that has nothing before a block's label.                       *)
LEMMA NothingBefore ==
  ASSUME Len(stmts) \in Nat, NEW S, NEW f \in ListsOf(S, Len(stmts)), NEW i \in 1 .. Len(stmts),
         \A j \in 1 .. i : f[j] = << >>
  PROVE  Upto(f, i) = << >>
<1> DEFINE n == Len(stmts)
<1>1. n \in Nat /\ 0 \in 0 .. n /\ i \in 0 .. n /\ i \in 0 + 1 .. n /\ \A j \in 0 + 1 .. i : j \in 1 .. i
  OBVIOUS
<1>2. Upto(f, 0) = << >>
  <2> HIDE DEF n
  <2>1. Grows(S, n, f)
    BY <1>1, UptoGrows DEF n
  <2> QED
    BY <2>1 DEF Grows
<1>3. Upto(f, i) = Upto(f, 0)
  <2>1. \A j \in 0 + 1 .. i : f[j] = << >>
    BY <1>1
  <2>2. f \in ListsOf(S, n)
    OBVIOUS
  <2> HIDE DEF n
  <2> QED
    BY <1>1, <2>1, <2>2, UptoStays
<1> QED
  BY <1>2, <1>3

LEMMA BlockBegins ==
  ASSUME Laid, NEW i \in 1 .. Len(stmts), NEW m, m = i + 1, NEW c,
         NEW bs, NEW name, NEW data, AtTop(i, c, bs, name, data), Is(i, {"label"})
  PROVE  AtBlock(m, bs, NewBlock(stmts[i].name), name, data)
<1>1. Len(stmts) \in Nat /\ i \in Nat \ {0} /\ m - 1 = i
  BY DEF Laid
<1>2. bs = Upto(BlocksOf, i - 1) /\ name = SectionAt(i) /\ data = DataAt(i)
  BY DEF AtTop
<1>3. Opener(m) = i
  BY <1>1, OpenerNext
<1>4. \A j \in 1 .. i : Opener(j) # i /\ j \in 1 .. Len(stmts)
  <2> TAKE j \in 1 .. i
  <2>1. j \in Nat \ {0} /\ j \in 1 .. Len(stmts)
    BY <1>1
  <2>2. Opener(j) \in Nat /\ (Opener(j) # 0 => Opener(j) \in 1 .. j - 1)
    BY <2>1, OpenerFacts
  <2>3. i \notin 1 .. j - 1 /\ i # 0
    BY <1>1
  <2> QED
    BY <2>1, <2>2, <2>3
<1>5. Upto(InstrsOf(i), m - 1) = << >>
  <2> DEFINE f == InstrsOf(i)
  <2>1. PICK S : f \in ListsOf(S, Len(stmts)) /\ \A j \in 1 .. i : f[j] = << >>
    BY <1>4, InstrsGrow
  <2>2. f \in ListsOf(S, Len(stmts))
    BY <2>1
  <2> HIDE DEF f
  <2>3. Upto(f, i) = << >>
    BY <1>1, <2>1, <2>2, NothingBefore
  <2> QED
    BY <1>1, <2>3 DEF f
<1>6. Upto(BytesOf(i), m - 1) = << >>
  <2> DEFINE f == BytesOf(i)
  <2>1. PICK S : f \in ListsOf(S, Len(stmts)) /\ \A j \in 1 .. i : f[j] = << >>
    BY <1>4, BytesGrow
  <2>2. f \in ListsOf(S, Len(stmts))
    BY <2>1
  <2> HIDE DEF f
  <2>3. Upto(f, i) = << >>
    BY <1>1, <2>1, <2>2, NothingBefore
  <2> QED
    BY <1>1, <2>3 DEF f
<1>7. Upto(WordsOf(i), m - 1) = << >>
  <2> DEFINE f == WordsOf(i)
  <2>1. PICK S : f \in ListsOf(S, Len(stmts)) /\ \A j \in 1 .. i : f[j] = << >>
    BY <1>4, WordsGrow
  <2>2. f \in ListsOf(S, Len(stmts))
    BY <2>1
  <2> HIDE DEF f
  <2>3. Upto(f, i) = << >>
    BY <1>1, <2>1, <2>2, NothingBefore
  <2> QED
    BY <1>1, <2>3 DEF f
<1>8. ContentsOf(i, m) = NewBlock(stmts[i].name)
  BY <1>5, <1>6, <1>7 DEF ContentsOf, NewBlock
<1>9. i # 0
  BY <1>1
<1> QED
  BY <1>2, <1>3, <1>8, <1>9 DEF AtBlock

(* In a block, a statement adds its contents.                              *)
ContentsGrow(o, i, m) ==
  /\ Upto(InstrsOf(o), m - 1)
       = IF Is(i, {"instr"}) THEN Append(Upto(InstrsOf(o), i - 1), InstrMeant(stmts[i]))
         ELSE Upto(InstrsOf(o), i - 1)
  /\ Upto(BytesOf(o), m - 1)
       = IF Is(i, {"byte"}) THEN Upto(BytesOf(o), i - 1) \o BytesMeant(stmts[i])
         ELSE Upto(BytesOf(o), i - 1)
  /\ Upto(WordsOf(o), m - 1)
       = IF Is(i, {"word"}) THEN Upto(WordsOf(o), i - 1) \o WordsMeant(stmts[i])
         ELSE Upto(WordsOf(o), i - 1)
  /\ Upto(BytesOf(o), i - 1) \o << >> = Upto(BytesOf(o), i - 1)
  /\ Upto(WordsOf(o), i - 1) \o << >> = Upto(WordsOf(o), i - 1)

LEMMA ContentsOn ==
  ASSUME Laid, NEW i \in 1 .. Len(stmts), NEW m, m = i + 1, NEW o, o = Opener(i)
  PROVE  ContentsGrow(o, i, m)
<1>1. Len(stmts) \in Nat
  BY DEF Laid
<1>2. Upto(InstrsOf(o), m - 1)
        = IF Is(i, {"instr"}) THEN Append(Upto(InstrsOf(o), i - 1), InstrMeant(stmts[i]))
          ELSE Upto(InstrsOf(o), i - 1)
  <2> DEFINE f == InstrsOf(o)
  <2>1. PICK S : /\ Grows(S, Len(stmts), f)
                 /\ f[i] = IF Is(i, {"instr"}) THEN <<InstrMeant(stmts[i])>> ELSE << >>
    BY InstrsGrow
  <2>2. Grows(S, Len(stmts), f)
    BY <2>1
  <2> HIDE DEF f
  <2>3. Adds(S, f, i, m)
    BY <1>1, <2>2, FamilyAdds
  <2>4. CASE Is(i, {"instr"})
    <3> DEFINE x == InstrMeant(stmts[i])
               s == Upto(f, i - 1)
    <3>1. f[i] = <<x>> /\ <<x>> \in Seq(S) /\ s \in Seq(S) /\ Upto(f, m - 1) = s \o <<x>>
      BY <2>1, <2>3, <2>4 DEF Adds
    <3> HIDE DEF x, s
    <3>2. x \in S
      BY <3>1, SingleIs
    <3>3. s \o <<x>> = Append(s, x)
      BY <3>1, <3>2
    <3> QED
      BY <2>4, <3>1, <3>3 DEF f, s, x
  <2>5. CASE ~Is(i, {"instr"})
    <3>1. Upto(f, m - 1) = Upto(f, i - 1)
      BY <2>1, <2>3, <2>5 DEF Adds
    <3> QED
      BY <2>5, <3>1 DEF f
  <2> QED
    BY <2>4, <2>5
<1>3. /\ Upto(BytesOf(o), m - 1)
           = IF Is(i, {"byte"}) THEN Upto(BytesOf(o), i - 1) \o BytesMeant(stmts[i])
             ELSE Upto(BytesOf(o), i - 1)
      /\ Upto(BytesOf(o), i - 1) \o << >> = Upto(BytesOf(o), i - 1)
  <2> DEFINE f == BytesOf(o)
  <2>1. PICK S : /\ Grows(S, Len(stmts), f)
                 /\ f[i] = IF Is(i, {"byte"}) THEN BytesMeant(stmts[i]) ELSE << >>
    BY BytesGrow
  <2>2. Grows(S, Len(stmts), f)
    BY <2>1
  <2> HIDE DEF f
  <2>3. Adds(S, f, i, m)
    BY <1>1, <2>2, FamilyAdds
  <2>4. Upto(f, m - 1) = IF Is(i, {"byte"}) THEN Upto(f, i - 1) \o BytesMeant(stmts[i])
                         ELSE Upto(f, i - 1)
    BY <2>1, <2>3 DEF Adds
  <2>5. Upto(f, i - 1) \in Seq(S)
    BY <2>3 DEF Adds
  <2>6. Upto(f, i - 1) \o << >> = Upto(f, i - 1)
    <3> DEFINE s == Upto(f, i - 1)
    <3>1. s \in Seq(S)
      BY <2>5
    <3> HIDE DEF s
    <3>2. s \o << >> = s
      BY <3>1
    <3> QED
      BY <3>2 DEF s
  <2> QED
    BY <2>4, <2>6 DEF f
<1>4. /\ Upto(WordsOf(o), m - 1)
           = IF Is(i, {"word"}) THEN Upto(WordsOf(o), i - 1) \o WordsMeant(stmts[i])
             ELSE Upto(WordsOf(o), i - 1)
      /\ Upto(WordsOf(o), i - 1) \o << >> = Upto(WordsOf(o), i - 1)
  <2> DEFINE f == WordsOf(o)
  <2>1. PICK S : /\ Grows(S, Len(stmts), f)
                 /\ f[i] = IF Is(i, {"word"}) THEN WordsMeant(stmts[i]) ELSE << >>
    BY WordsGrow
  <2>2. Grows(S, Len(stmts), f)
    BY <2>1
  <2> HIDE DEF f
  <2>3. Adds(S, f, i, m)
    BY <1>1, <2>2, FamilyAdds
  <2>4. Upto(f, m - 1) = IF Is(i, {"word"}) THEN Upto(f, i - 1) \o WordsMeant(stmts[i])
                         ELSE Upto(f, i - 1)
    BY <2>1, <2>3 DEF Adds
  <2>5. Upto(f, i - 1) \in Seq(S)
    BY <2>3 DEF Adds
  <2>6. Upto(f, i - 1) \o << >> = Upto(f, i - 1)
    <3> DEFINE s == Upto(f, i - 1)
    <3>1. s \in Seq(S)
      BY <2>5
    <3> HIDE DEF s
    <3>2. s \o << >> = s
      BY <3>1
    <3> QED
      BY <3>2 DEF s
  <2> QED
    BY <2>4, <2>6 DEF f
<1> QED
  BY <1>2, <1>3, <1>4 DEF ContentsGrow

(* What a statement in a block makes of it.                                *)
BlockAfter(i, b) ==
  CASE stmts[i].is = "instr" -> [b EXCEPT !.instrs = Append(@, InstrMeant(stmts[i]))]
    [] stmts[i].is = "byte" ->
         [b EXCEPT !.data = @ \o BytesMeant(stmts[i]), !.words = @ \o << >>]
    [] stmts[i].is = "word" ->
         [b EXCEPT !.data = @ \o << >>, !.words = @ \o WordsMeant(stmts[i])]
    [] OTHER -> b

LEMMA BlockOn ==
  ASSUME Laid, NEW i \in 1 .. Len(stmts), NEW m, m = i + 1,
         NEW bs, NEW b, NEW name, NEW data, AtBlock(i, bs, b, name, data), ~Is(i, Enders)
  PROVE  AtBlock(m, bs, BlockAfter(i, b), name, data)
<1> DEFINE o == Opener(i)
           x == Upto(InstrsOf(o), i - 1)
           y == Upto(BytesOf(o), i - 1)
           z == Upto(WordsOf(o), i - 1)
<1>1. Len(stmts) \in Nat /\ i \in Nat \ {0}
  BY DEF Laid
<1>2. /\ o # 0 /\ bs = Upto(BlocksOf, o - 1) /\ b = ContentsOf(o, i)
      /\ name = SectionAt(o) /\ data = DataAt(o)
  BY DEF AtBlock
<1>3. Opener(m) = o
  BY <1>1, OpenerNext, LabelEnds
<1>4. /\ Upto(InstrsOf(o), m - 1) = IF Is(i, {"instr"}) THEN Append(x, InstrMeant(stmts[i])) ELSE x
      /\ Upto(BytesOf(o), m - 1) = IF Is(i, {"byte"}) THEN y \o BytesMeant(stmts[i]) ELSE y
      /\ Upto(WordsOf(o), m - 1) = IF Is(i, {"word"}) THEN z \o WordsMeant(stmts[i]) ELSE z
      /\ y \o << >> = y /\ z \o << >> = z
  <2>1. PICK p : p = Opener(i)
    OBVIOUS
  <2>2. ContentsGrow(p, i, m)
    BY <2>1, ContentsOn
  <2> QED
    BY <2>1, <2>2 DEF ContentsGrow
<1>5. b = [label |-> stmts[o].name, instrs |-> x, data |-> y, words |-> z,
           section |-> NoSection, in_data |-> FALSE]
  BY <1>2 DEF ContentsOf
<1>6. ContentsOf(o, m) =
        [label |-> stmts[o].name, instrs |-> Upto(InstrsOf(o), m - 1),
         data |-> Upto(BytesOf(o), m - 1), words |-> Upto(WordsOf(o), m - 1),
         section |-> NoSection, in_data |-> FALSE]
  BY DEF ContentsOf
<1> HIDE DEF x, y, z, o
<1>7. ContentsOf(o, m) = BlockAfter(i, b)
  <2>1. CASE stmts[i].is = "instr"
    <3>1. Is(i, {"instr"}) /\ ~Is(i, {"byte"}) /\ ~Is(i, {"word"})
      BY <2>1 DEF Is
    <3> QED
      BY <1>4, <1>5, <1>6, <2>1, <3>1 DEF BlockAfter
  <2>2. CASE stmts[i].is = "byte"
    <3>1. ~Is(i, {"instr"}) /\ Is(i, {"byte"}) /\ ~Is(i, {"word"})
      BY <2>2 DEF Is
    <3> QED
      BY <1>4, <1>5, <1>6, <2>2, <3>1 DEF BlockAfter
  <2>3. CASE stmts[i].is = "word"
    <3>1. ~Is(i, {"instr"}) /\ ~Is(i, {"byte"}) /\ Is(i, {"word"})
      BY <2>3 DEF Is
    <3> QED
      BY <1>4, <1>5, <1>6, <2>3, <3>1 DEF BlockAfter
  <2>4. CASE stmts[i].is \notin {"instr", "byte", "word"}
    <3>1. ~Is(i, {"instr"}) /\ ~Is(i, {"byte"}) /\ ~Is(i, {"word"})
      BY <2>4 DEF Is
    <3> QED
      BY <1>4, <1>5, <1>6, <2>4, <3>1 DEF BlockAfter
  <2> QED
    BY <2>1, <2>2, <2>3, <2>4
<1> QED
  BY <1>2, <1>3, <1>7 DEF AtBlock

(* A family that has nothing behind a block's last statement.              *)
LEMMA NothingBehind ==
  ASSUME Len(stmts) \in Nat, NEW S, NEW f \in ListsOf(S, Len(stmts)),
         NEW i \in 1 .. Len(stmts) + 1, \A j \in i .. Len(stmts) : f[j] = << >>
  PROVE  FlattenSeq(f) = Upto(f, i - 1)
<1> DEFINE n == Len(stmts)
           a == i - 1
<1>1. n \in Nat /\ a \in 0 .. n /\ n \in a .. n /\ \A j \in a + 1 .. n : j \in i .. n
  OBVIOUS
<1>2. f \in ListsOf(S, n) /\ \A j \in a + 1 .. n : f[j] = << >>
  BY <1>1
<1> HIDE DEF n, a
<1>3. Upto(f, n) = Upto(f, a)
  BY <1>1, <1>2, UptoStays
<1>4. FlattenSeq(f) = Upto(f, n)
  BY <1>1, <1>2, UptoGrows DEF Grows
<1> QED
  BY <1>3, <1>4 DEF a

LEMMA SettingsSet ==
  ASSUME NEW l, NEW x, NEW y, NEW z, NEW s, NEW u, NEW name, NEW w,
         NEW b, b = [label |-> l, instrs |-> x, data |-> y, words |-> z,
                     section |-> s, in_data |-> u],
         NEW c, c = [b EXCEPT !.section = name, !.in_data = w]
  PROVE  c = [label |-> l, instrs |-> x, data |-> y, words |-> z,
              section |-> name, in_data |-> w]
<1>1. DOMAIN c = {"label", "instrs", "data", "words", "section", "in_data"}
  OBVIOUS
<1>2. c.label = l /\ c.instrs = x /\ c.data = y /\ c.words = z
  OBVIOUS
<1>3. c.section = name
  OBVIOUS
<1>4. c.in_data = w
  OBVIOUS
<1>5. c = [f \in DOMAIN c |-> c[f]]
  OBVIOUS
<1> QED
  BY <1>1, <1>2, <1>3, <1>4, <1>5

LEMMA BlockCloses ==
  ASSUME Laid, NEW i \in 1 .. Len(stmts) + 1, NEW c,
         NEW bs, NEW b, NEW name, NEW data, AtBlock(i, bs, b, name, data),
         \/ i \in 1 .. Len(stmts) /\ Is(i, Enders)
         \/ i = Len(stmts) + 1 /\ c > Len(toks)
  PROVE  AtTop(i, c, Append(bs, [b EXCEPT !.section = name, !.in_data = name = NoSection /\ data]),
               NoSection, data)
<1> DEFINE o == Opener(i)
<1>1. Len(stmts) \in Nat /\ i \in Nat \ {0} /\ DOMAIN stmts = 1 .. Len(stmts)
  BY DEF Laid
<1>2. /\ o # 0 /\ bs = Upto(BlocksOf, o - 1) /\ b = ContentsOf(o, i)
      /\ name = SectionAt(o) /\ data = DataAt(o)
  BY DEF AtBlock
<1>3. /\ o \in 1 .. i - 1 /\ Is(o, {"label"}) /\ \A k \in o + 1 .. i - 1 : ~Is(k, Enders)
  BY <1>1, <1>2, OpenerFacts
<1>4. SectionAt(i) = NoSection /\ DataAt(i) = DataAt(o)
  BY <1>1, <1>2, SettingsInBlock
<1>5. ASSUME NEW j \in i .. Len(stmts)
      PROVE  /\ j \in 1 .. Len(stmts)
             /\ Is(j, {"instr", "byte", "word"}) => Opener(j) # o
  <2>1. j \in 1 .. Len(stmts) /\ i \in 1 .. Len(stmts) /\ Is(i, Enders)
    BY <1>1
  <2>2. CASE j = i
    BY <2>1, <2>2 DEF Is, Enders
  <2>3. CASE j # i
    <3>1. o \in Nat /\ i \in Nat /\ o < i /\ j \in Nat /\ i < j
      BY <1>1, <1>3, <2>1, <2>3
    <3> HIDE DEF o
    <3>2. Opener(j) # o
      BY <1>2, <2>1, <3>1, OpenerMovesOn
    <3> QED
      BY <2>1, <3>2
  <2> QED
    BY <2>2, <2>3
<1> HIDE DEF o
<1>6. FlattenSeq(InstrsOf(o)) = Upto(InstrsOf(o), i - 1)
  <2> DEFINE f == InstrsOf(o)
  <2>1. PICK S : f \in ListsOf(S, Len(stmts)) /\ \A j \in i .. Len(stmts) : f[j] = << >>
    BY <1>5, InstrsGrow DEF Is
  <2>2. f \in ListsOf(S, Len(stmts))
    BY <2>1
  <2> HIDE DEF f
  <2>3. FlattenSeq(f) = Upto(f, i - 1)
    BY <1>1, <2>1, <2>2, NothingBehind
  <2> QED
    BY <2>3 DEF f
<1>7. FlattenSeq(BytesOf(o)) = Upto(BytesOf(o), i - 1)
  <2> DEFINE f == BytesOf(o)
  <2>1. PICK S : f \in ListsOf(S, Len(stmts)) /\ \A j \in i .. Len(stmts) : f[j] = << >>
    BY <1>5, BytesGrow DEF Is
  <2>2. f \in ListsOf(S, Len(stmts))
    BY <2>1
  <2> HIDE DEF f
  <2>3. FlattenSeq(f) = Upto(f, i - 1)
    BY <1>1, <2>1, <2>2, NothingBehind
  <2> QED
    BY <2>3 DEF f
<1>8. FlattenSeq(WordsOf(o)) = Upto(WordsOf(o), i - 1)
  <2> DEFINE f == WordsOf(o)
  <2>1. PICK S : f \in ListsOf(S, Len(stmts)) /\ \A j \in i .. Len(stmts) : f[j] = << >>
    BY <1>5, WordsGrow DEF Is
  <2>2. f \in ListsOf(S, Len(stmts))
    BY <2>1
  <2> HIDE DEF f
  <2>3. FlattenSeq(f) = Upto(f, i - 1)
    BY <1>1, <2>1, <2>2, NothingBehind
  <2> QED
    BY <2>3 DEF f
<1>9. [b EXCEPT !.section = name, !.in_data = name = NoSection /\ data] = BlockMeant(o)
  <2> DEFINE l == stmts[o].name
             x == Upto(InstrsOf(o), i - 1)
             y == Upto(BytesOf(o), i - 1)
             z == Upto(WordsOf(o), i - 1)
             w == name = NoSection /\ data
  <2>1. BlockMeant(o) = [label |-> l, instrs |-> x, data |-> y, words |-> z,
                         section |-> name, in_data |-> w]
    BY <1>2, <1>6, <1>7, <1>8 DEF BlockMeant
  <2>2. b = [label |-> l, instrs |-> x, data |-> y, words |-> z,
             section |-> NoSection, in_data |-> FALSE]
    BY <1>2 DEF ContentsOf
  <2> DEFINE c1 == [b EXCEPT !.section = name, !.in_data = w]
  <2>3. c1 = [b EXCEPT !.section = name, !.in_data = w]
    OBVIOUS
  <2> HIDE DEF l, x, y, z, w, c1
  <2>4. c1 = [label |-> l, instrs |-> x, data |-> y, words |-> z,
              section |-> name, in_data |-> w]
    BY <2>2, <2>3, SettingsSet
  <2> QED
    BY <2>1, <2>4 DEF w, c1
<1>10. Append(bs, BlockMeant(o)) = Upto(BlocksOf, i - 1)
  <2> DEFINE f == BlocksOf
             n == Len(stmts)
             a == i - 1
  <2>1. PICK S : /\ Grows(S, n, f) /\ f \in ListsOf(S, n)
                 /\ \A j \in 1 .. n : f[j] = IF Is(j, {"label"}) THEN <<BlockMeant(j)>> ELSE << >>
    BY BlocksGrow
  <2>2. f \in ListsOf(S, n) /\ Grows(S, n, f)
    BY <2>1
  <2>3. /\ n \in Nat /\ o \in 1 .. n /\ o \in 0 .. n /\ a \in o .. n
        /\ \A j \in o + 1 .. a : j \in 1 .. n /\ ~Is(j, {"label"})
    BY <1>1, <1>3, LabelEnds
  <2> HIDE DEF f, n, a
  <2>4. \A j \in o + 1 .. a : f[j] = << >>
    BY <2>1, <2>3
  <2>5. Upto(f, a) = Upto(f, o)
    BY <2>2, <2>3, <2>4, UptoStays
  <2>6. f[o] = <<BlockMeant(o)>>
    BY <1>3, <2>1, <2>3
  <2>7. Upto(f, o) = Upto(f, o - 1) \o f[o] /\ f[o] \in Seq(S)
    BY <2>2, <2>3 DEF Grows
  <2>8. Upto(f, o - 1) \in Seq(S)
    <3>1. o - 1 \in 0 .. n
      BY <2>3
    <3> QED
      BY <2>2, <3>1 DEF Grows
  <2> DEFINE x == BlockMeant(o)
             s == Upto(f, o - 1)
  <2>9. s \in Seq(S) /\ <<x>> \in Seq(S)
    BY <2>6, <2>7, <2>8
  <2> HIDE DEF x, s
  <2>10. x \in S
    BY <2>9, SingleIs
  <2>11. s \o <<x>> = Append(s, x)
    BY <2>9, <2>10
  <2>12. Upto(f, a) = Append(s, x)
    BY <2>5, <2>6, <2>7, <2>11 DEF s, x
  <2>13. bs = s
    BY <1>2 DEF s, f
  <2> QED
    BY <2>12, <2>13 DEF f, a, x
<1>11. (i \in DOMAIN stmts /\ Is(i, Enders)) \/ c > Len(toks)
  BY <1>1
<1> QED
  BY <1>2, <1>4, <1>9, <1>10, <1>11 DEF AtTop

---------------------------------------------------------------------------
(* What the parser finds where a statement begins.                         *)
Begins(s, p) ==
  /\ s.is \in Kinds
  /\ s.is = "import" => Type(p) = "IMPORT"
  /\ s.is = "export" => Type(p) = "EXPORT"
  /\ s.is \in {"section", "data", "text", "byte", "word"} =>
       Type(p) = "PERIOD" /\ Type(p + 1) = "LABEL" /\ Text(p + 1) = s.is
  /\ s.is = "section" => IsSymbol(p + 2)
  /\ s.is = "label" => Type(p) \in SymbolTypes /\ Type(p + 1) = "COLON"
  /\ s.is = "instr" => Type(p) = "INSTRUCTION" /\ Type(p + 1) # "COLON"
  /\ s.is = "blank" => Type(p) = "NEWLINE"

LEMMA OperandNoColon ==
  ASSUME NEW q, NEW n \in OperandSet, OperandAt(q, n)
  PROVE  Type(q) # "COLON"
<1>1. Operand(n).type \in {"NUMBER", "NEGATIVE_NUMBER", "REGISTER", "LABEL", "INSTRUCTION"}
  BY OperandIs DEF NumberTypes, SymbolTypes, OperandSet
<1> QED
  BY <1>1 DEF OperandAt

LEMMA ArgumentSets ==
  ASSUME NEW a \in Arguments
  PROVE  /\ Len(a) = 1 => a[1] \in OperandSet
         /\ Len(a) = 2 => a[1] \in OperandSet /\ a[2] \in OperandSet
<1>1. a \in Seq(OperandSet)
  BY ArgumentFacts
<1> QED
  BY <1>1

(* What .byte and .word find.                                              *)
ItemsRead(i, p, e, types) ==
  /\ Type(p) = "PERIOD" /\ Type(p + 1) = "LABEL" /\ Text(p + 1) = stmts[i].is
  /\ stmts[i].items \in Seq(OperandSet) /\ Len(stmts[i].items) \in Nat
  /\ Items(p + 2, types) = Len(stmts[i].items)
  /\ SkipNewline(AfterItems(p + 2, types)) = e
  /\ \A k \in 1 .. Len(stmts[i].items) : OperandAt(p + 2 * k, stmts[i].items[k])

LEMMA ByteShape ==
  ASSUME NEW i, NEW p, NEW e, From(i, p, e), stmts[i].is = "byte"
  PROVE  /\ Type(p) = "PERIOD" /\ Type(p + 1) = "LABEL" /\ Text(p + 1) = stmts[i].is
         /\ ItemsRead(i, p, e, NumberTypes)
         /\ \A k \in 1 .. Len(stmts[i].items) : stmts[i].items[k] \in ByteNumbers
<1>1. PICK items : items = stmts[i].items
  OBVIOUS
<1>2. items \in Seq(ByteNumbers)
  BY <1>1 DEF From, StatementHas
<1>3. ASSUME NEW k \in 1 .. Len(items)
      PROVE  items[k] \in ByteNumbers /\ Operand(items[k]).type \in NumberTypes
  <2>1. items[k] \in ByteNumbers
    BY <1>2
  <2>2. items[k] \in Numerals /\ items[k] \in OperandSet
    BY <2>1 DEF ByteNumbers, OperandSet
  <2> QED
    BY <2>1, <2>2, OperandIs
<1>4. NumberTypes \in SUBSET WordTypes
  BY DEF WordTypes
<1>5. ItemsRead(i, p, e, NumberTypes)
  BY <1>1, <1>3, <1>4, ItemsShape DEF ItemsRead
<1> QED
  BY <1>1, <1>3, <1>5 DEF ItemsRead

LEMMA WordShape ==
  ASSUME NEW i, NEW p, NEW e, From(i, p, e), stmts[i].is = "word"
  PROVE  /\ Type(p) = "PERIOD" /\ Type(p + 1) = "LABEL" /\ Text(p + 1) = stmts[i].is
         /\ ItemsRead(i, p, e, WordTypes)
         /\ \A k \in 1 .. Len(stmts[i].items) : stmts[i].items[k] \in WordNumbers \union Words
<1>1. PICK items : items = stmts[i].items
  OBVIOUS
<1>2. items \in Seq(WordNumbers \union Words)
  BY <1>1 DEF From, StatementHas
<1>3. ASSUME NEW k \in 1 .. Len(items)
      PROVE  items[k] \in WordNumbers \union Words /\ Operand(items[k]).type \in WordTypes
  <2>1. items[k] \in WordNumbers \union Words
    BY <1>2
  <2>2. (items[k] \in Numerals \/ items[k] \in Words) /\ items[k] \in OperandSet
    BY <2>1 DEF WordNumbers, OperandSet
  <2> QED
    BY <2>1, <2>2, OperandIs DEF WordTypes
<1>4. WordTypes \in SUBSET WordTypes
  OBVIOUS
<1>5. ItemsRead(i, p, e, WordTypes)
  BY <1>1, <1>3, <1>4, ItemsShape DEF ItemsRead
<1> QED
  BY <1>1, <1>3, <1>5 DEF ItemsRead

LEMMA BeginsThere ==
  ASSUME NEW i, NEW p, NEW e, From(i, p, e)
  PROVE  Begins(stmts[i], p)
<1> DEFINE s == stmts[i]
<1>1. s.is \in Kinds /\ StatementHas(s)
  BY DEF From, StatementHas
<1>2. CASE s.is = "import"
  BY <1>1, <1>2, ImportShape DEF Begins
<1>3. CASE s.is = "export"
  BY <1>1, <1>3, ExportShape DEF Begins
<1>4. CASE s.is = "section"
  BY <1>1, <1>4, SectionShape DEF Begins
<1>5. CASE s.is \in {"data", "text"}
  BY <1>1, <1>5, SettingShape DEF Begins
<1>6. CASE s.is = "label"
  BY <1>1, <1>6, LabelShape DEF Begins, IsSymbol
<1>7. CASE s.is = "blank"
  BY <1>1, <1>7, BlankShape DEF Begins
<1>8. CASE s.is = "instr"
  <2>1. PICK a : a = s.args
    OBVIOUS
  <2>2. /\ a \in Arguments /\ Len(a) \in 0 .. 2
        /\ Type(p) = "INSTRUCTION"
        /\ Len(a) = 0 => Type(p + 1) = "NEWLINE"
        /\ Len(a) = 1 => OperandAt(p + 1, a[1])
        /\ Len(a) = 2 => OperandAt(p + 1, a[1])
    BY <1>8, <2>1, InstrShape
  <2>3. Type(p + 1) # "COLON"
    <3>1. CASE Len(a) = 0
      BY <2>2, <3>1
    <3>2. CASE Len(a) \in {1, 2}
      <4>1. OperandAt(p + 1, a[1]) /\ a[1] \in OperandSet
        BY <2>2, <3>2, ArgumentSets
      <4> QED
        BY <4>1, OperandNoColon
    <3> QED
      BY <2>2, <3>1, <3>2
  <2> QED
    BY <1>1, <1>8, <2>2, <2>3 DEF Begins
<1>9. CASE s.is \in {"byte", "word"}
  <2>1. Type(p) = "PERIOD" /\ Type(p + 1) = "LABEL" /\ Text(p + 1) = s.is
    <3>1. CASE s.is = "byte"
      BY <3>1, ByteShape
    <3>2. CASE s.is = "word"
      BY <3>2, WordShape
    <3> QED
      BY <1>9, <3>1, <3>2
  <2> QED
    BY <1>1, <1>9, <2>1 DEF Begins
<1> QED
  BY <1>1, <1>2, <1>3, <1>4, <1>5, <1>6, <1>7, <1>8, <1>9 DEF Kinds

---------------------------------------------------------------------------
(* What the parser makes of the values.                                    *)
LEMMA ByteValue ==
  ASSUME NEW n \in ByteNumbers
  PROVE  Atoi[n] % 256 = ByteMeant(n)
<1>1. Atoi[n] \in Int /\ Atoi[n] >= -256
  BY ParserAssumption DEF ByteNumbers
<1>2. CASE Atoi[n] < 0
  <2> DEFINE y == 256 + Atoi[n]
  <2>1. y \in 0 .. 256 - 1 /\ 256 \in Nat \ {0} /\ y - 256 = Atoi[n]
    BY <1>1, <1>2
  <2>2. ByteMeant(n) = y
    BY <1>1, <1>2 DEF ByteMeant
  <2> HIDE DEF y
  <2>3. (y - 256) % 256 = y
    BY <2>1, ModNear
  <2> QED
    BY <2>1, <2>2, <2>3
<1> QED
  BY <1>1, <1>2 DEF ByteMeant

LEMMA WordValue ==
  ASSUME NEW q, NEW n \in WordNumbers \union Words, OperandAt(q, n)
  PROVE  WordAt(q) = WordMeant(n)
<1>1. n \in OperandSet
  BY DEF OperandSet, WordNumbers
<1>2. CASE n \in Words
  BY <1>1, <1>2, OperandIs DEF OperandAt, WordAt, WordMeant, IsSymbol
<1>3. CASE n \in WordNumbers
  <2> DEFINE x == Strtol[n]
             y == IF x >= 0 THEN x ELSE WordSpan + x
  <2>1. n \in Numerals /\ x \in -WordSpan .. WordSpan - 1 /\ WordSpan \in Nat \ {0}
    BY <1>3, ParserAssumption DEF WordNumbers
  <2>2. Type(q) \in NumberTypes /\ Text(q) = n
    BY <1>1, <2>1, OperandIs DEF OperandAt
  <2>3. ~IsSymbol(q)
    BY <2>2 DEF IsSymbol, SymbolTypes, NumberTypes
  <2>4. WordAt(q) = [value |-> x % WordSpan, symbol |-> NoLabel]
    BY <2>2, <2>3 DEF WordAt
  <2>5. WordMeant(n) = [value |-> y, symbol |-> NoLabel]
    BY <2>1 DEF WordMeant
  <2> HIDE DEF x
  <2>6. x % WordSpan = y
    <3>1. y \in 0 .. WordSpan - 1 /\ (x = y \/ x = y - WordSpan)
      BY <2>1
    <3> HIDE DEF y
    <3> QED
      BY <2>1, <3>1, ModNear
  <2> QED
    BY <2>4, <2>5, <2>6
<1> QED
  BY <1>2, <1>3

(* Every byte and every word of a line is what is meant.                   *)
LEMMA BytesRead ==
  ASSUME NEW i, NEW p, NEW e, From(i, p, e), stmts[i].is = "byte"
  PROVE  /\ [k \in 1 .. Items(p + 2, NumberTypes) |-> Atoi[Text(p + 2 * k)] % 256]
              = BytesMeant(stmts[i])
         /\ SkipNewline(AfterItems(p + 2, NumberTypes)) = e
<1> DEFINE t == stmts[i].items
           n == Len(t)
<1>1. /\ t \in Seq(OperandSet) /\ n \in Nat /\ Items(p + 2, NumberTypes) = n
      /\ \A k \in 1 .. n : OperandAt(p + 2 * k, t[k]) /\ t[k] \in ByteNumbers
      /\ SkipNewline(AfterItems(p + 2, NumberTypes)) = e
  BY ByteShape DEF ItemsRead
<1>2. DOMAIN t = 1 .. n
  BY <1>1
<1>3. BytesMeant(stmts[i]) = [k \in 1 .. n |-> ByteMeant(t[k])]
  BY <1>2 DEF BytesMeant
<1> HIDE DEF t, n
<1>4. \A k \in 1 .. n : Atoi[Text(p + 2 * k)] % 256 = ByteMeant(t[k])
  BY <1>1, ByteValue DEF OperandAt
<1> QED
  BY <1>1, <1>3, <1>4

LEMMA WordsRead ==
  ASSUME NEW i, NEW p, NEW e, From(i, p, e), stmts[i].is = "word"
  PROVE  /\ [k \in 1 .. Items(p + 2, WordTypes) |-> WordAt(p + 2 * k)] = WordsMeant(stmts[i])
         /\ SkipNewline(AfterItems(p + 2, WordTypes)) = e
<1> DEFINE t == stmts[i].items
           n == Len(t)
<1>1. /\ t \in Seq(OperandSet) /\ n \in Nat /\ Items(p + 2, WordTypes) = n
      /\ \A k \in 1 .. n : OperandAt(p + 2 * k, t[k]) /\ t[k] \in WordNumbers \union Words
      /\ SkipNewline(AfterItems(p + 2, WordTypes)) = e
  BY WordShape DEF ItemsRead
<1>2. DOMAIN t = 1 .. n
  BY <1>1
<1>3. WordsMeant(stmts[i]) = [k \in 1 .. n |-> WordMeant(t[k])]
  BY <1>2 DEF WordsMeant
<1> HIDE DEF t, n
<1>4. \A k \in 1 .. n : WordAt(p + 2 * k) = WordMeant(t[k])
  BY <1>1, WordValue
<1> QED
  BY <1>1, <1>3, <1>4

(* What a line with an instruction shows.                                  *)
OperandShows(q, n) ==
  /\ Text(q) = n
  /\ \/ /\ n \in Numerals /\ n \notin DOMAIN Registers
        /\ Type(q) = IF Atoi[n] < 0 THEN "NEGATIVE_NUMBER" ELSE "NUMBER"
     \/ n \in DOMAIN Registers /\ n \notin Numerals /\ Type(q) = "REGISTER"
     \/ /\ n \notin Numerals /\ n \notin DOMAIN Registers
        /\ Type(q) \in {"LABEL", "INSTRUCTION"}

LEMMA OperandShown ==
  ASSUME NEW q, NEW n \in OperandSet, OperandAt(q, n)
  PROVE  OperandShows(q, n)
BY OperandIs DEF OperandSet, OperandAt, OperandShows, SymbolTypes

InstrShows(p, e, op, a) ==
  /\ Text(p) = op
  /\ \/ a = << >> /\ Len(a) = 0 /\ Type(p + 1) = "NEWLINE" /\ e - 1 = p + 1
     \/ /\ Len(a) = 1 /\ OperandShows(p + 1, a[1])
        /\ a[1] \in Numerals => Atoi[a[1]] \in 0 .. WordSpan - 1
        /\ Type(p + 2) = "NEWLINE" /\ e - 1 = p + 2
     \/ /\ Len(a) = 2 /\ OperandShows(p + 1, a[1]) /\ a[1] \in DOMAIN Registers
        /\ Type(p + 2) = "COMMA" /\ OperandShows(p + 3, a[2])
        /\ a[2] \in Numerals => Atoi[a[2]] \in -ImmSpan .. WordSpan - 1
        /\ Type(p + 4) = "NEWLINE" /\ e - 1 = p + 4

LEMMA InstrShown ==
  ASSUME NEW i, NEW p, NEW e, From(i, p, e), stmts[i].is = "instr",
         NEW a, a = stmts[i].args, NEW op, op = stmts[i].op
  PROVE  InstrShows(p, e, op, a)
<1>1. p \in Nat /\ a \in Arguments
  BY InstrShape DEF From
<1>2. CASE Len(a) = 0
  <2>1. a = << >>
    BY <1>1, <1>2, ArgumentFacts
  <2>2. Text(p) = op /\ Type(p + 1) = "NEWLINE" /\ e = p + 2
    BY <1>2, InstrShape
  <2>3. e - 1 = p + 1
    BY <1>1, <2>2
  <2> QED
    BY <1>2, <2>1, <2>2, <2>3 DEF InstrShows
<1>3. CASE Len(a) = 1
  <2>1. Text(p) = op /\ OperandAt(p + 1, a[1]) /\ Type(p + 2) = "NEWLINE" /\ e = p + 3
    BY <1>3, InstrShape
  <2>2. OperandShows(p + 1, a[1])
    BY <1>1, <1>3, <2>1, ArgumentSets, OperandShown
  <2>3. a[1] \in Numerals => Atoi[a[1]] \in 0 .. WordSpan - 1
    BY <1>1, <1>3, ArgumentFacts, FilesAssumption DEF NumbersFrom, Words
  <2>4. e - 1 = p + 2
    BY <1>1, <2>1
  <2> QED
    BY <1>3, <2>1, <2>2, <2>3, <2>4 DEF InstrShows
<1>4. CASE Len(a) = 2
  <2>1. /\ Text(p) = op /\ OperandAt(p + 1, a[1]) /\ Type(p + 2) = "COMMA"
        /\ OperandAt(p + 3, a[2]) /\ Type(p + 4) = "NEWLINE" /\ e = p + 5
    BY <1>4, InstrShape
  <2>2. OperandShows(p + 1, a[1]) /\ OperandShows(p + 3, a[2])
    BY <1>1, <1>4, <2>1, ArgumentSets, OperandShown
  <2>3. a[1] \in DOMAIN Registers
    BY <1>1, <1>4, ArgumentFacts
  <2>4. a[2] \in Numerals => Atoi[a[2]] \in -ImmSpan .. WordSpan - 1
    BY <1>1, <1>4, ArgumentFacts, FilesAssumption DEF NumbersFrom, Words
  <2>5. e - 1 = p + 4
    BY <1>1, <2>1
  <2> QED
    BY <1>4, <2>1, <2>2, <2>3, <2>4, <2>5 DEF InstrShows
<1>5. Len(a) \in 0 .. 2
  BY InstrShape
<1> QED
  BY <1>2, <1>3, <1>4, <1>5

---------------------------------------------------------------------------
(* An instruction of the file is read as what it means.                    *)
InstrRecord(kind, opcode, reg1, reg2, imm, l) ==
  [kind |-> kind, opcode |-> opcode, reg1 |-> reg1, reg2 |-> reg2, imm |-> imm, label |-> l]

LEMMA MeantNone ==
  ASSUME NEW s, Len(s.args) = 0
  PROVE  InstrMeant(s) = InstrRecord("NO_OPERAND", Opcode[s.op], 0, 0, 0, NoLabel)
BY DEF InstrMeant, InstrRecord

LEMMA MeantImm ==
  ASSUME NEW s, Len(s.args) = 1, NEW n, n = s.args[1], n \in Numerals, n \notin DOMAIN Registers,
         NEW y, y = IF Atoi[n] >= 0 THEN Atoi[n] ELSE ImmSpan + Atoi[n]
  PROVE  InstrMeant(s) = InstrRecord("IMM26", Opcode[s.op], 0, 0, y, NoLabel)
BY DEF InstrMeant, InstrRecord, Registered

LEMMA MeantReg ==
  ASSUME NEW s, Len(s.args) = 1, NEW n, n = s.args[1], n \in DOMAIN Registers
  PROVE  InstrMeant(s) = InstrRecord("REG", Opcode[s.op], Registers[n], 0, 0, NoLabel)
BY DEF InstrMeant, InstrRecord, Registered

LEMMA MeantLabel ==
  ASSUME NEW s, Len(s.args) = 1, NEW n, n = s.args[1], n \notin DOMAIN Registers, n \notin Numerals
  PROVE  InstrMeant(s) = InstrRecord("LABEL", Opcode[s.op], 0, 0, 0, n)
BY DEF InstrMeant, InstrRecord, Registered

LEMMA MeantRegReg ==
  ASSUME NEW s, Len(s.args) = 2, NEW r, r = s.args[1], r \in DOMAIN Registers,
         NEW n, n = s.args[2], n \in DOMAIN Registers
  PROVE  InstrMeant(s) = InstrRecord("REGREG", Opcode[s.op], Registers[r], Registers[n], 0, NoLabel)
BY DEF InstrMeant, InstrRecord, Registered

LEMMA MeantRegImm ==
  ASSUME NEW s, Len(s.args) = 2, NEW r, r = s.args[1], r \in DOMAIN Registers,
         NEW n, n = s.args[2], n \notin DOMAIN Registers, n \in Numerals,
         NEW y, y = IF Atoi[n] >= 0 THEN Atoi[n] ELSE ImmSpan + Atoi[n]
  PROVE  InstrMeant(s) = InstrRecord("REGIMM21", Opcode[s.op], Registers[r], 0, y, NoLabel)
BY DEF InstrMeant, InstrRecord, Registered

LEMMA MeantRegLabel ==
  ASSUME NEW s, Len(s.args) = 2, NEW r, r = s.args[1], r \in DOMAIN Registers,
         NEW n, n = s.args[2], n \notin DOMAIN Registers, n \notin Numerals,
         NEW y, y = IF s.op = Mov THEN Opcode[Movi] ELSE Opcode[s.op]
  PROVE  InstrMeant(s) = InstrRecord("REGLABEL", y, Registers[r], 0, 0, n)
BY DEF InstrMeant, InstrRecord, Registered

(* The immediate of a number.                                              *)
LEMMA ImmediateIs ==
  ASSUME NEW x \in -ImmSpan .. WordSpan - 1,
         NEW span, span = IF x < 0 THEN ImmSpan ELSE WordSpan
  PROVE  x % span = IF x >= 0 THEN x ELSE ImmSpan + x
<1>1. ImmSpan \in Nat \ {0} /\ WordSpan \in Nat \ {0} /\ x \in Int
  <2>1. ImmSpan \in Nat \ {0} /\ WordSpan \in Nat \ {0}
    BY WidthAssumption, ParserAssumption
  <2> QED
    BY <2>1
<1>2. CASE x >= 0
  BY <1>1, <1>2, ModNear
<1>3. CASE x < 0
  <2> DEFINE y == ImmSpan + x
  <2>1. y \in 0 .. ImmSpan - 1 /\ y - ImmSpan = x /\ span = ImmSpan
    BY <1>1, <1>3
  <2> HIDE DEF y
  <2>2. (y - ImmSpan) % ImmSpan = y
    BY <1>1, <2>1, ModNear
  <2> QED
    BY <1>1, <1>3, <2>1, <2>2 DEF y
<1> QED
  BY <1>1, <1>2, <1>3

(* What one step of parsing an instruction leaves.                         *)
AddsInstr(x, d) ==
  /\ block' = [block EXCEPT !.instrs = Append(@, x)] /\ cur' = d
  /\ UNCHANGED <<toks, at, blocks, pending_section, in_data, globals>>

LEMMA InstrLess ==
  ASSUME NEW p, cur = p, NEW e, NEW s, NEW op, op = s.op, s.args = << >>,
         Text(p) = op, Type(p + 1) = "NEWLINE", e - 1 = p + 1, ParseInstruction
  PROVE  AddsInstr(InstrMeant(s), e - 1)
<1>1. /\ ~IsOperand(p + 1) /\ Type(p + 1) \notin {"REGISTER", "NUMBER"}
      /\ ~AtSecondOperand
  BY DEF IsOperand, IsSymbol, SymbolTypes, AtSecondOperand
<1>2. InstrNoOperand
  BY <1>1 DEF ParseInstruction, InstrImm26, InstrLabel, InstrReg, InstrRegReg, InstrRegImm21,
              InstrRegLabel, CommaAtEnd, RejectOperand
<1>3. InstrMeant(s) = InstrRecord("NO_OPERAND", Opcode[op], 0, 0, 0, NoLabel)
  <2>1. Len(s.args) = 0
    OBVIOUS
  <2> QED
    BY <2>1, MeantNone
<1> QED
  BY <1>2, <1>3 DEF InstrNoOperand, AddInstr, Op, InstrRecord, AddsInstr

LEMMA InstrOne ==
  ASSUME NEW p \in Nat, cur = p, NEW e, NEW s, NEW op, op = s.op, NEW a, a = s.args, Len(a) = 1,
         Text(p) = op, OperandShows(p + 1, a[1]),
         a[1] \in Numerals => Atoi[a[1]] \in 0 .. WordSpan - 1,
         Type(p + 2) = "NEWLINE", e - 1 = p + 2, ParseInstruction
  PROVE  AddsInstr(InstrMeant(s), e - 1)
<1>1. PICK n : n = a[1]
  OBVIOUS
<1>2. Text(p + 1) = n /\ ~AtSecondOperand
  BY <1>1 DEF OperandShows, AtSecondOperand
<1>3. CASE n \in Numerals
  <2>1. /\ n \notin DOMAIN Registers /\ Type(p + 1) = "NUMBER" /\ Atoi[n] \in 0 .. WordSpan - 1
        /\ WordSpan \in Nat \ {0}
    BY <1>1, <1>3, ParserAssumption DEF OperandShows
  <2>2. InstrImm26
    BY <1>2, <2>1 DEF ParseInstruction, InstrNoOperand, InstrLabel, InstrReg, InstrRegReg,
              InstrRegImm21, InstrRegLabel, CommaAtEnd, RejectOperand, IsOperand, IsSymbol,
              SymbolTypes
  <2>4. InstrMeant(s) = InstrRecord("IMM26", Opcode[op], 0, 0, Atoi[n], NoLabel)
    <3>1. Atoi[n] = IF Atoi[n] >= 0 THEN Atoi[n] ELSE ImmSpan + Atoi[n]
      BY <2>1
    <3> QED
      BY <1>1, <1>3, <2>1, <3>1, MeantImm
  <2>5. Atoi[n] % WordSpan = Atoi[n]
    BY <2>1, ModNear
  <2> QED
    BY <1>2, <2>2, <2>4, <2>5 DEF InstrImm26, AddInstr, Op, InstrRecord, AddsInstr
<1>4. CASE n \in DOMAIN Registers
  <2>1. n \notin Numerals /\ Type(p + 1) = "REGISTER"
    BY <1>1, <1>4 DEF OperandShows
  <2>2. InstrReg
    BY <1>2, <2>1 DEF ParseInstruction, InstrNoOperand, InstrLabel, InstrImm26, InstrRegReg,
              InstrRegImm21, InstrRegLabel, CommaAtEnd, RejectOperand, IsOperand, IsSymbol,
              SymbolTypes
  <2>4. InstrMeant(s) = InstrRecord("REG", Opcode[op], Registers[n], 0, 0, NoLabel)
    BY <1>1, <1>4, MeantReg
  <2> QED
    BY <1>2, <2>2, <2>4 DEF InstrReg, AddInstr, Op, Reg, InstrRecord, AddsInstr
<1>5. CASE n \notin Numerals /\ n \notin DOMAIN Registers
  <2>1. Type(p + 1) \in {"LABEL", "INSTRUCTION"}
    BY <1>1, <1>5 DEF OperandShows
  <2>2. InstrLabel
    <3>1. IsOperand(p + 1)
      <4>1. Type((p + 1) + 1) = "NEWLINE"
        <5>1. (p + 1) + 1 = p + 2
          OBVIOUS
        <5> QED
          BY <5>1
      <4> QED
        BY <2>1, <4>1 DEF IsOperand, IsSymbol, SymbolTypes
    <3> QED
      BY <1>2, <2>1, <3>1 DEF ParseInstruction, InstrNoOperand, InstrReg, InstrImm26, InstrRegReg,
              InstrRegImm21, InstrRegLabel, CommaAtEnd, RejectOperand
  <2>4. InstrMeant(s) = InstrRecord("LABEL", Opcode[op], 0, 0, 0, n)
    BY <1>1, <1>5, MeantLabel
  <2> QED
    BY <1>2, <2>2, <2>4 DEF InstrLabel, AddInstr, Op, InstrRecord, AddsInstr
<1> QED
  BY <1>3, <1>4, <1>5

LEMMA InstrTwo ==
  ASSUME NEW p \in Nat, cur = p, NEW e, NEW s, NEW op, op = s.op, NEW a, a = s.args, Len(a) = 2,
         Text(p) = op, OperandShows(p + 1, a[1]), a[1] \in DOMAIN Registers,
         Type(p + 2) = "COMMA", OperandShows(p + 3, a[2]),
         a[2] \in Numerals => Atoi[a[2]] \in -ImmSpan .. WordSpan - 1,
         Type(p + 4) = "NEWLINE", e - 1 = p + 4, ParseInstruction
  PROVE  AddsInstr(InstrMeant(s), e - 1)
<1>1. PICK r, n : r = a[1] /\ n = a[2]
  OBVIOUS
<1>2. /\ Text(p + 1) = r /\ Text(p + 3) = n /\ Type(p + 1) = "REGISTER"
      /\ r \in DOMAIN Registers /\ Registered(r)
  BY <1>1 DEF OperandShows, Registered
<1>3. ~IsOperand(p + 1)
  BY <1>2 DEF IsOperand, IsSymbol, SymbolTypes
<1>4. CASE n \in Numerals
  <2>1. /\ n \notin DOMAIN Registers /\ Atoi[n] \in -ImmSpan .. WordSpan - 1
        /\ Type(p + 3) = IF Atoi[n] < 0 THEN "NEGATIVE_NUMBER" ELSE "NUMBER"
    BY <1>1, <1>4 DEF OperandShows
  <2>2. InstrRegImm21
    BY <1>2, <1>3, <2>1 DEF ParseInstruction, InstrNoOperand, InstrLabel, InstrReg, InstrRegReg,
              InstrImm26, InstrRegLabel, CommaAtEnd, RejectOperand, IsOperand, IsSymbol,
              SymbolTypes, NumberTypes
  <2> DEFINE x == Atoi[n]
             y == IF x >= 0 THEN x ELSE ImmSpan + x
             span == IF Type(p + 3) = "NUMBER" THEN WordSpan ELSE ImmSpan
  <2>4. InstrMeant(s) = InstrRecord("REGIMM21", Opcode[op], Registers[r], 0, y, NoLabel)
    BY <1>1, <1>2, <1>4, <2>1, MeantRegImm
  <2>5. x \in -ImmSpan .. WordSpan - 1 /\ span = IF x < 0 THEN ImmSpan ELSE WordSpan
    BY <2>1
  <2>6. AddInstr("REGIMM21", Op, Reg(p + 1), 0, x % span, NoLabel, p + 4)
    BY <1>2, <2>2 DEF InstrRegImm21
  <2> HIDE DEF x, span
  <2>7. x % span = y
    BY <2>5, ImmediateIs
  <2> HIDE DEF y
  <2>8. AddInstr("REGIMM21", Op, Reg(p + 1), 0, y, NoLabel, p + 4)
    BY <2>6, <2>7
  <2> QED
    BY <1>2, <2>4, <2>8 DEF AddInstr, Op, Reg, InstrRecord, AddsInstr
<1>5. CASE n \in DOMAIN Registers
  <2>1. n \notin Numerals /\ Type(p + 3) = "REGISTER"
    BY <1>1, <1>5 DEF OperandShows
  <2>2. InstrRegReg
    BY <1>2, <1>3, <2>1 DEF ParseInstruction, InstrNoOperand, InstrLabel, InstrReg, InstrImm26,
              InstrRegImm21, InstrRegLabel, CommaAtEnd, RejectOperand, IsOperand, IsSymbol,
              SymbolTypes, IsNumber, NumberTypes
  <2>4. InstrMeant(s) = InstrRecord("REGREG", Opcode[op], Registers[r], Registers[n], 0, NoLabel)
    BY <1>1, <1>2, <1>5, MeantRegReg
  <2> QED
    BY <1>2, <2>2, <2>4 DEF InstrRegReg, AddInstr, Op, Reg, InstrRecord, AddsInstr
<1>6. CASE n \notin Numerals /\ n \notin DOMAIN Registers
  <2>1. Type(p + 3) \in {"LABEL", "INSTRUCTION"}
    BY <1>1, <1>6 DEF OperandShows
  <2>2. IsOperand(p + 3)
    <3>1. (p + 3) + 1 = p + 4
      OBVIOUS
    <3>2. Type((p + 3) + 1) = "NEWLINE"
      BY <3>1
    <3> QED
      BY <2>1, <3>2 DEF IsOperand, IsSymbol, SymbolTypes
  <2>3. InstrRegLabel
    BY <1>2, <1>3, <2>1, <2>2 DEF ParseInstruction, InstrNoOperand, InstrReg, InstrImm26,
              InstrRegReg, InstrRegImm21, InstrLabel, CommaAtEnd, RejectOperand, IsNumber,
              NumberTypes
  <2>5. InstrMeant(s) = InstrRecord("REGLABEL", IF op = Mov THEN Opcode[Movi] ELSE Opcode[op],
                                    Registers[r], 0, 0, n)
    BY <1>1, <1>2, <1>6, MeantRegLabel
  <2> QED
    BY <1>2, <2>3, <2>5 DEF InstrRegLabel, AddInstr, Op, Reg, InstrRecord, AddsInstr
<1> QED
  BY <1>4, <1>5, <1>6

LEMMA InstrReadIs ==
  ASSUME NEW i, NEW p, NEW e, From(i, p, e), stmts[i].is = "instr", cur = p, ParseInstruction
  PROVE  AddsInstr(InstrMeant(stmts[i]), e - 1) /\ Type(e - 1) = "NEWLINE"
<1>1. PICK s, a, op : s = stmts[i] /\ a = s.args /\ op = s.op
  OBVIOUS
<1>2. InstrShows(p, e, op, a) /\ p \in Nat
  BY <1>1, InstrShown DEF From
<1>3. CASE a = << >> /\ Type(p + 1) = "NEWLINE" /\ e - 1 = p + 1
  BY <1>1, <1>2, <1>3, InstrLess DEF InstrShows
<1>4. CASE /\ Len(a) = 1 /\ OperandShows(p + 1, a[1])
           /\ a[1] \in Numerals => Atoi[a[1]] \in 0 .. WordSpan - 1
           /\ Type(p + 2) = "NEWLINE" /\ e - 1 = p + 2
  BY <1>1, <1>2, <1>4, InstrOne DEF InstrShows
<1>5. CASE /\ Len(a) = 2 /\ OperandShows(p + 1, a[1]) /\ a[1] \in DOMAIN Registers
           /\ Type(p + 2) = "COMMA" /\ OperandShows(p + 3, a[2])
           /\ a[2] \in Numerals => Atoi[a[2]] \in -ImmSpan .. WordSpan - 1
           /\ Type(p + 4) = "NEWLINE" /\ e - 1 = p + 4
  BY <1>1, <1>2, <1>5, InstrTwo DEF InstrShows
<1> QED
  BY <1>2, <1>3, <1>4, <1>5 DEF InstrShows

---------------------------------------------------------------------------
(* The parser's state against the file, in the terms of ReadsStatements.   *)
TopState(i, c, bs, name, data, im, ex, pa) ==
  Reached(i, c) /\ Read(i, im, ex, pa) /\ AtTop(i, c, bs, name, data)
BlockState(i, c, bs, b, name, data, im, ex, pa) ==
  Reached(i, c) /\ Read(i, im, ex, pa) /\ AtBlock(i, bs, b, name, data)
Parsed(bs, im, ex, pa) ==
  /\ LegalFile
  /\ bs = BlocksMeant
  /\ im = NamesMeant("import") /\ ex = NamesMeant("export") /\ pa = PathsMeant

(* A step that leaves the file alone leaves what it says.                  *)
LEMMA FileUnchanged ==
  ASSUME stmts' = stmts, toks' = toks
  PROVE  /\ LegalFile' <=> LegalFile
         /\ \A i, kinds : Is(i, kinds)' <=> Is(i, kinds)
         /\ \A i : Opener(i)' = Opener(i)
         /\ \A i, c : Reached(i, c)' <=> Reached(i, c)
         /\ \A i, im, ex, pa : Read(i, im, ex, pa)' <=> Read(i, im, ex, pa)
         /\ \A i, c, bs, name, data : AtTop(i, c, bs, name, data)' <=> AtTop(i, c, bs, name, data)
         /\ \A i, bs, b, name, data :
              AtBlock(i, bs, b, name, data)' <=> AtBlock(i, bs, b, name, data)
         /\ \A bs, im, ex, pa : Parsed(bs, im, ex, pa)' <=> Parsed(bs, im, ex, pa)
<1>1. ASSUME NEW i, NEW kinds PROVE Is(i, kinds)' <=> Is(i, kinds)
  BY DEF Is
<1>2. ASSUME NEW i PROVE Opener(i)' = Opener(i)
  BY DEF Opener, Is, Enders
<1>3. ASSUME NEW i PROVE LegalAt(i)' <=> LegalAt(i)
  BY <1>1, <1>2 DEF LegalAt
<1>4. ASSUME NEW p PROVE Type(p)' = Type(p)
  BY DEF Type
<1>5. ASSUME NEW i PROVE Start(i)' = Start(i)
  BY DEF Start
<1>6. ASSUME NEW i, NEW c PROVE Reached(i, c)' <=> Reached(i, c)
  BY <1>4, <1>5 DEF Reached
<1>7. ASSUME NEW kind PROVE NamesOf(kind)' = NamesOf(kind)
  BY <1>1 DEF NamesOf
<1>8. PathsOf' = PathsOf
  BY <1>1 DEF PathsOf
<1>9. ASSUME NEW i PROVE SectionAt(i)' = SectionAt(i)
  BY <1>1 DEF SectionAt
<1>10. ASSUME NEW i PROVE DataAt(i)' = DataAt(i)
  BY <1>1 DEF DataAt
<1>11. ASSUME NEW o PROVE /\ InstrsOf(o)' = InstrsOf(o)
                          /\ BytesOf(o)' = BytesOf(o)
                          /\ WordsOf(o)' = WordsOf(o)
  BY <1>1, <1>2 DEF InstrsOf, BytesOf, WordsOf
<1>12. ASSUME NEW o PROVE BlockMeant(o)' = BlockMeant(o)
  BY <1>9, <1>10, <1>11 DEF BlockMeant
<1>13. BlocksOf' = BlocksOf
  BY <1>1, <1>12 DEF BlocksOf
<1>14. LegalFile' <=> LegalFile
  BY <1>3 DEF LegalFile
<1>15. ASSUME NEW i, NEW im, NEW ex, NEW pa
       PROVE  Read(i, im, ex, pa)' <=> Read(i, im, ex, pa)
  BY <1>3, <1>7, <1>8 DEF Read
<1>16. ASSUME NEW i, NEW c, NEW bs, NEW name, NEW data
       PROVE  AtTop(i, c, bs, name, data)' <=> AtTop(i, c, bs, name, data)
  BY <1>1, <1>2, <1>9, <1>10, <1>13 DEF AtTop
<1>17. ASSUME NEW o, NEW i PROVE ContentsOf(o, i)' = ContentsOf(o, i)
  BY <1>11 DEF ContentsOf
<1>18. ASSUME NEW i, NEW bs, NEW b, NEW name, NEW data
       PROVE  AtBlock(i, bs, b, name, data)' <=> AtBlock(i, bs, b, name, data)
  BY <1>2, <1>9, <1>10, <1>13, <1>17 DEF AtBlock
<1>19. ASSUME NEW bs, NEW im, NEW ex, NEW pa
       PROVE  Parsed(bs, im, ex, pa)' <=> Parsed(bs, im, ex, pa)
  BY <1>7, <1>8, <1>13, <1>14 DEF Parsed, BlocksMeant, NamesMeant, PathsMeant
<1> QED
  BY <1>1, <1>2, <1>6, <1>14, <1>15, <1>16, <1>18, <1>19

(* How a step may end: again between statements, again in a block, or with *)
(* the parser's answer.                                                    *)
LEMMA TopAgain ==
  ASSUME stmts' = stmts, toks' = toks, at' = "top", NEW i,
         NEW c, c = cur', NEW bs, bs = blocks', NEW name, name = pending_section',
         NEW data, data = in_data', NEW im, im = g_imports', NEW ex, ex = g_exports',
         NEW pa, pa = g_import_paths', TopState(i, c, bs, name, data, im, ex, pa)
  PROVE  ReadsStatements'
<1>1. Reached(i, c)' /\ Read(i, im, ex, pa)' /\ AtTop(i, c, bs, name, data)'
  BY FileUnchanged DEF TopState
<1>2. i \in 1 .. Len(stmts') + 1
  BY DEF TopState, Reached
<1>3. /\ Reached(i, cur)' /\ Read(i, g_imports, g_exports, g_import_paths)'
      /\ AtTop(i, cur, blocks, pending_section, in_data)'
  BY <1>1
<1>4. (ParsesAsWritten /\ EndsWellInABlock)'
  BY DEF ParsesAsWritten, EndsWellInABlock
<1> QED
  BY <1>2, <1>3, <1>4 DEF ReadsStatements

LEMMA BlockAgain ==
  ASSUME stmts' = stmts, toks' = toks, at' = "block", NEW i,
         NEW c, c = cur', NEW bs, bs = blocks', NEW b, b = block',
         NEW name, name = pending_section',
         NEW data, data = in_data', NEW im, im = g_imports', NEW ex, ex = g_exports',
         NEW pa, pa = g_import_paths', BlockState(i, c, bs, b, name, data, im, ex, pa)
  PROVE  ReadsStatements'
<1>1. Reached(i, c)' /\ Read(i, im, ex, pa)' /\ AtBlock(i, bs, b, name, data)'
  BY FileUnchanged DEF BlockState
<1>2. i \in 1 .. Len(stmts') + 1
  BY DEF BlockState, Reached
<1>3. /\ Reached(i, cur)' /\ Read(i, g_imports, g_exports, g_import_paths)'
      /\ AtBlock(i, blocks, block, pending_section, in_data)'
  BY <1>1
<1>4. (ParsesAsWritten /\ EndsWellInABlock)'
  BY DEF ParsesAsWritten, EndsWellInABlock
<1> QED
  BY <1>2, <1>3, <1>4 DEF ReadsStatements

LEMMA DoneWell ==
  ASSUME stmts' = stmts, toks' = toks, at' = "done",
         NEW bs, bs = blocks', NEW im, im = g_imports', NEW ex, ex = g_exports',
         NEW pa, pa = g_import_paths', Parsed(bs, im, ex, pa)
  PROVE  ReadsStatements'
<1>1. Parsed(bs, im, ex, pa)'
  BY FileUnchanged
<1>2. Parsed(blocks, g_imports, g_exports, g_import_paths)'
  BY <1>1
<1> QED
  BY <1>2 DEF Parsed, ReadsStatements, ParsesAsWritten, EndsWellInABlock

LEMMA RefusedWell ==
  ASSUME stmts' = stmts, toks' = toks, at' = "error", ~LegalFile
  PROVE  ReadsStatements'
<1>1. ~LegalFile'
  BY FileUnchanged
<1> QED
  BY <1>1 DEF ReadsStatements, ParsesAsWritten, EndsWellInABlock

LEMMA CrashedWell ==
  ASSUME stmts' = stmts, toks' = toks, at' = "crash", NEW n, n = Len(stmts), NEW m, m = n + 1,
         Is(n, {"label"}) \/ Opener(m) = 0
  PROVE  ReadsStatements'
<1>1. Is(n, {"label"})' \/ Opener(m)' = 0
  BY FileUnchanged
<1>2. Len(stmts)' = n
  OBVIOUS
<1>3. Is(Len(stmts), {"label"})' \/ Opener(Len(stmts) + 1)' = 0
  BY <1>1, <1>2
<1> QED
  BY <1>3 DEF ReadsStatements, ParsesAsWritten, EndsWellInABlock

LEMMA StaysWell ==
  ASSUME ReadsStatements, UNCHANGED <<vars, stmts>>
  PROVE  ReadsStatements'
<1>1. stmts' = stmts /\ toks' = toks
  BY DEF vars
<1>2. CASE at = "top" /\ Called
  <2>1. at' = "top" /\ Called'
    BY <1>2 DEF vars, globals, Called
  <2> QED
    BY <2>1 DEF ReadsStatements, ParsesAsWritten, EndsWellInABlock
<1>3. CASE at = "top" /\ ~Called
  <2>1. PICK i \in 1 .. Len(stmts) + 1 :
          /\ Reached(i, cur) /\ Read(i, g_imports, g_exports, g_import_paths)
          /\ AtTop(i, cur, blocks, pending_section, in_data)
    BY <1>3 DEF ReadsStatements
  <2>2. PICK c, bs, name, data, im, ex, pa :
          /\ c = cur /\ bs = blocks /\ name = pending_section /\ data = in_data
          /\ im = g_imports /\ ex = g_exports /\ pa = g_import_paths
    OBVIOUS
  <2>3. TopState(i, c, bs, name, data, im, ex, pa)
    BY <2>1, <2>2 DEF TopState
  <2>4. /\ c = cur' /\ bs = blocks' /\ name = pending_section' /\ data = in_data'
        /\ im = g_imports' /\ ex = g_exports' /\ pa = g_import_paths' /\ at' = "top"
    BY <1>3, <2>2 DEF vars, globals
  <2> QED
    BY <1>1, <2>3, <2>4, TopAgain
<1>4. CASE at = "block"
  <2>1. PICK i \in 1 .. Len(stmts) + 1 :
          /\ Reached(i, cur) /\ Read(i, g_imports, g_exports, g_import_paths)
          /\ AtBlock(i, blocks, block, pending_section, in_data)
    BY <1>4 DEF ReadsStatements
  <2>2. PICK c, bs, b, name, data, im, ex, pa :
          /\ c = cur /\ bs = blocks /\ b = block /\ name = pending_section /\ data = in_data
          /\ im = g_imports /\ ex = g_exports /\ pa = g_import_paths
    OBVIOUS
  <2>3. BlockState(i, c, bs, b, name, data, im, ex, pa)
    BY <2>1, <2>2 DEF BlockState
  <2>4. /\ c = cur' /\ bs = blocks' /\ b = block' /\ name = pending_section' /\ data = in_data'
        /\ im = g_imports' /\ ex = g_exports' /\ pa = g_import_paths' /\ at' = "block"
    BY <1>4, <2>2 DEF vars, globals
  <2> QED
    BY <1>1, <2>3, <2>4, BlockAgain
<1>5. CASE at = "done"
  <2>1. PICK bs, im, ex, pa : /\ bs = blocks /\ im = g_imports /\ ex = g_exports
                              /\ pa = g_import_paths
    OBVIOUS
  <2>2. Parsed(bs, im, ex, pa)
    BY <1>5, <2>1 DEF ReadsStatements, ParsesAsWritten, Parsed
  <2>3. at' = "done" /\ bs = blocks' /\ im = g_imports' /\ ex = g_exports' /\ pa = g_import_paths'
    BY <1>5, <2>1 DEF vars, globals
  <2> QED
    BY <1>1, <2>2, <2>3, DoneWell
<1>6. CASE at = "error"
  <2>1. ~LegalFile /\ at' = "error"
    BY <1>6 DEF ReadsStatements, ParsesAsWritten, vars
  <2> QED
    BY <1>1, <2>1, RefusedWell
<1>7. CASE at = "crash"
  <2>1. PICK n, m : n = Len(stmts) /\ m = n + 1
    OBVIOUS
  <2>2. (Is(n, {"label"}) \/ Opener(m) = 0) /\ at' = "crash"
    BY <1>7, <2>1 DEF ReadsStatements, EndsWellInABlock, vars
  <2> QED
    BY <1>1, <2>1, <2>2, CrashedWell
<1>8. CASE at \notin {"top", "block", "done", "error", "crash"}
  <2>1. at' = at
    BY DEF vars
  <2> QED
    BY <1>8, <2>1 DEF ReadsStatements, ParsesAsWritten, EndsWellInABlock
<1> QED
  BY <1>2, <1>3, <1>4, <1>5, <1>6, <1>7, <1>8

---------------------------------------------------------------------------
(* Where the next statement is.                                            *)
LEMMA FrontOf ==
  ASSUME Laid, NEW i \in 1 .. Len(stmts), NEW p, p = Start(i)
  PROVE  /\ p \in 1 .. Len(toks) /\ Begins(stmts[i], p) /\ Type(p) # "NULL"
         /\ Type(p) = "NEWLINE" => stmts[i].is = "blank"
<1>1. PICK e : e = Start(i + 1)
  OBVIOUS
<1>2. From(i, p, e)
  BY <1>1, StandsFrom
<1>3. Begins(stmts[i], p)
  BY <1>2, BeginsThere
<1>4. Type(p) # "NULL" /\ (Type(p) = "NEWLINE" => stmts[i].is = "blank")
  BY <1>3 DEF Begins, Kinds, SymbolTypes
<1>5. p \in 1 .. Len(toks)
  BY <1>2, <1>4, TokenFacts DEF From
<1> QED
  BY <1>3, <1>4, <1>5

LEMMA BackOf ==
  ASSUME Laid, NEW p, p = Start(Len(stmts) + 1)
  PROVE  p = Len(toks) + 1 /\ Type(p) = "NULL"
<1>1. p = Len(toks) + 1 /\ TokenList
  BY DEF Laid
<1>2. Len(toks) \in Nat
  BY <1>1, TokenFacts
<1>3. p \in Int /\ p \notin 1 .. Len(toks)
  BY <1>1, <1>2
<1> QED
  BY <1>1, <1>3, TokenFacts

(* Behind a statement, the next one is reached.                            *)
LEMMA ReachedNext ==
  ASSUME Laid, NEW i \in 1 .. Len(stmts), NEW m, m = i + 1, NEW e, e = Start(m), NEW d,
         d = e \/ (d = e - 1 /\ Type(d) = "NEWLINE")
  PROVE  Reached(m, d)
<1>1. m \in 1 .. Len(stmts) + 1 /\ e \in Nat
  BY DEF Laid
<1>2. d <= e /\ \A p \in d .. e - 1 : p = d /\ d = e - 1
  BY <1>1
<1>3. \A p \in d .. e - 1 : Type(p) = "NEWLINE"
  BY <1>1, <1>2
<1> QED
  BY <1>1, <1>2, <1>3 DEF Reached

LEMMA ReachedBlank ==
  ASSUME Laid, NEW i \in 1 .. Len(stmts), stmts[i].is = "blank", NEW m, m = i + 1,
         NEW c \in Nat, Reached(i, c)
  PROVE  Reached(m, c)
<1>1. PICK p, e : p = Start(i) /\ e = Start(m)
  OBVIOUS
<1>2. From(i, p, e)
  BY <1>1, StandsFrom
<1>3. Type(p) = "NEWLINE" /\ e = p + 1 /\ p \in Nat
  BY <1>2, BlankShape DEF From
<1>4. m \in 1 .. Len(stmts) + 1
  BY DEF Laid
<1>5. c <= p /\ \A q \in c .. p - 1 : Type(q) = "NEWLINE"
  BY <1>1 DEF Reached
<1>6. \A q \in c .. e - 1 : q = p \/ q \in c .. p - 1
  BY <1>3
<1>7. c <= e /\ \A q \in c .. e - 1 : Type(q) = "NEWLINE"
  BY <1>3, <1>5, <1>6
<1> QED
  BY <1>1, <1>4, <1>7 DEF Reached

LEMMA BlankLegal ==
  ASSUME NEW i, stmts[i].is \in {"blank", "section", "label", "data", "text"}
  PROVE  LegalAt(i)
BY DEF LegalAt, Is

(* Lines that are blank are passed.                                        *)
LEMMA TopBlank ==
  ASSUME Laid, NEW i \in 1 .. Len(stmts), stmts[i].is = "blank", NEW m, m = i + 1,
         NEW c \in Nat, c <= Len(toks), NEW bs, NEW name, NEW data, NEW im, NEW ex, NEW pa,
         TopState(i, c, bs, name, data, im, ex, pa)
  PROVE  TopState(m, c, bs, name, data, im, ex, pa)
<1>1. Reached(i, c) /\ Read(i, im, ex, pa) /\ AtTop(i, c, bs, name, data)
  BY DEF TopState
<1>2. Reached(m, c)
  BY <1>1, ReachedBlank
<1>3. ~Is(i, {"import", "export"}) /\ ~Is(i, {"label"}) /\ ~Is(i, {"section"})
      /\ ~Is(i, {"data", "text"})
  BY DEF Is
<1>4. Read(m, im, ex, pa)
  BY <1>1, <1>3, BlankLegal, ReadOn
<1>5. ~(c > Len(toks))
  BY TokenFacts DEF Laid
<1>6. AtTop(m, c, bs, IF Is(i, {"section"}) THEN stmts[i].name ELSE name,
            IF Is(i, {"data", "text"}) THEN Is(i, {"data"}) ELSE data)
  BY <1>1, <1>3, <1>5, TopOn
<1>7. AtTop(m, c, bs, name, data)
  BY <1>3, <1>6
<1> QED
  BY <1>2, <1>4, <1>7 DEF TopState

LEMMA HereIs ==
  ASSUME TokenList, NEW c \in Nat, c = cur, NEW p \in Nat, c <= p, p <= Len(toks) + 1,
         Type(p) # "NEWLINE", \A q \in c .. p - 1 : Type(q) = "NEWLINE"
  PROVE  Here = p
<1> DEFINE Q(x) == Type(x) # "NEWLINE" /\ \A q \in c .. x - 1 : Type(q) = "NEWLINE"
<1>1. Here = CHOOSE x \in c .. Len(toks) + 1 : Q(x)
  BY DEF Here
<1>2. Q(p) /\ p \in c .. Len(toks) + 1
  BY TokenFacts
<1>3. \A x \in c .. Len(toks) + 1 : Q(x) => x = p
  <2> SUFFICES ASSUME NEW x \in c .. Len(toks) + 1, Q(x), x # p PROVE FALSE
    OBVIOUS
  <2>1. x < p => x \in c .. p - 1
    BY TokenFacts
  <2>2. ~(x < p) => p \in c .. x - 1
    BY TokenFacts
  <2> QED
    BY <2>1, <2>2
<1> HIDE DEF Q
<1> QED
  BY <1>1, <1>2, <1>3

(* The statement that the top-level loop comes to.                         *)
LEMMA TopComesTo ==
  ASSUME Laid, NEW c \in Nat, c = cur, c <= Len(toks), NEW bs, NEW name, NEW data,
         NEW im, NEW ex, NEW pa, \E j : TopState(j, c, bs, name, data, im, ex, pa)
  PROVE  \E k \in 1 .. Len(stmts) + 1 :
           /\ TopState(k, c, bs, name, data, im, ex, pa) /\ Here = Start(k)
           /\ k \in 1 .. Len(stmts) => stmts[k].is # "blank"
<1> DEFINE n == Len(stmts) + 1
           P(k) == TopState(k, c, bs, name, data, im, ex, pa)
           T == {k \in 1 .. n : P(k)}
<1>1. n \in Nat /\ Len(stmts) \in Nat
  BY DEF Laid
<1>2. T # {} /\ T \in SUBSET (0 .. n)
  BY DEF TopState, Reached
<1>3. PICK k \in T : \A y \in T : k >= y
  <2> HIDE DEF T, n
  <2> QED
    BY <1>1, <1>2, GreatestOf
<1>4. k \in 1 .. Len(stmts) => stmts[k].is # "blank"
  <2> SUFFICES ASSUME k \in 1 .. Len(stmts), stmts[k].is = "blank" PROVE FALSE
    OBVIOUS
  <2>1. PICK m : m = k + 1
    OBVIOUS
  <2>2. P(m)
    BY <1>3, <2>1, TopBlank
  <2>3. m \in T /\ ~(k >= m)
    BY <1>1, <2>1, <2>2
  <2> QED
    BY <1>3, <2>3
<1>5. PICK p : p = Start(k)
  OBVIOUS
<1>6. c <= p /\ \A q \in c .. p - 1 : Type(q) = "NEWLINE"
  BY <1>3, <1>5 DEF TopState, Reached
<1>7. p \in Nat /\ p <= Len(toks) + 1 /\ Type(p) # "NEWLINE"
  <2>1. CASE k \in 1 .. Len(stmts)
    BY <1>4, <1>5, <2>1, FrontOf, TokenFacts DEF Laid
  <2>2. CASE k = Len(stmts) + 1
    BY <1>5, <2>2, BackOf, TokenFacts DEF Laid
  <2> QED
    BY <1>1, <2>1, <2>2
<1>8. Here = p
  BY <1>6, <1>7, HereIs DEF Laid
<1> QED
  BY <1>3, <1>4, <1>5, <1>8

---------------------------------------------------------------------------
(* A step outside a block reads the statement that is next.                *)

(* The first tokens of a statement tell its kind.                          *)
LEMMA KindIs ==
  ASSUME NEW s, NEW p, Begins(s, p)
  PROVE  /\ Type(p) = "IMPORT" <=> s.is = "import"
         /\ Type(p) = "EXPORT" <=> s.is = "export"
         /\ Type(p) = "PERIOD" <=> s.is \in {"section", "data", "text", "byte", "word"}
         /\ Type(p) = "INSTRUCTION" => s.is \in {"instr", "label"}
         /\ Type(p) = "NEWLINE" <=> s.is = "blank"
         /\ Type(p) \notin {"HEAD", "NULL"}
         /\ IsLabelDeclaration(p) <=> s.is = "label"
         /\ \A words : IsDirective(p, words)
              <=> s.is \in {"section", "data", "text", "byte", "word"} /\ s.is \in words
         /\ s.is \in Kinds
<1>1. CASE s.is \in {"import", "export", "blank"}
  BY <1>1 DEF Begins, Kinds, IsDirective, IsLabelDeclaration, IsSymbol, SymbolTypes
<1>2. CASE s.is \in {"section", "data", "text", "byte", "word"}
  BY <1>2 DEF Begins, Kinds, IsDirective, IsLabelDeclaration, IsSymbol, SymbolTypes
<1>3. CASE s.is \in {"label", "instr"}
  BY <1>3 DEF Begins, Kinds, IsDirective, IsLabelDeclaration, IsSymbol, SymbolTypes
<1> QED
  BY <1>1, <1>2, <1>3 DEF Begins, Kinds

TopNow(k) ==
  /\ at = "top" /\ cur \in Nat /\ cur <= Len(toks)
  /\ TopState(k, cur, blocks, pending_section, in_data, g_imports, g_exports, g_import_paths)

(* The statement from p to before e is the next one.                       *)
NextIs(k, p, e) ==
  /\ TopNow(k) /\ k \in 1 .. Len(stmts) /\ stmts[k].is # "blank"
  /\ Here = p /\ From(k, p, e) /\ Begins(stmts[k], p) /\ e = Start(k + 1)

LEMMA LegalHere ==
  ASSUME Laid, NEW k, NEW p, NEW e, NextIs(k, p, e), ~Is(k, Enders)
  PROVE  Opener(k) = 0
<1>1. AtTop(k, cur, blocks, pending_section, in_data) /\ cur \in Nat /\ cur <= Len(toks)
  BY DEF NextIs, TopNow, TopState
<1>2. ~(cur > Len(toks))
  BY <1>1, TokenFacts DEF Laid
<1> QED
  BY <1>1, <1>2 DEF AtTop

LEMMA StepImport ==
  ASSUME Laid, stmts' = stmts, NEW k, NEW p, NEW e, NextIs(k, p, e), ParseImport
  PROVE  ReadsStatements'
<1>1. stmts[k].is = "import"
  BY KindIs DEF NextIs, ParseImport, AtStatement
<1>2. PICK m, bs, name, data, im, ex, pa :
        /\ m = k + 1 /\ bs = blocks /\ name = pending_section /\ data = in_data
        /\ im = g_imports /\ ex = g_exports /\ pa = g_import_paths
  OBVIOUS
<1>3. PICK c : c = cur
  OBVIOUS
<1>4. /\ k \in 1 .. Len(stmts) /\ Reached(k, c) /\ Read(k, im, ex, pa)
      /\ AtTop(k, c, bs, name, data) /\ From(k, p, e)
      /\ e = Start(m) /\ ~(c > Len(toks)) /\ Here = p
  BY <1>2, <1>3, TokenFacts DEF Laid, NextIs, TopNow, TopState
<1>5. /\ ~Is(k, Enders) /\ ~Is(k, {"label"}) /\ ~Is(k, {"section"}) /\ ~Is(k, {"data", "text"})
  BY <1>1 DEF Is, Enders
<1>6. LegalAt(k)
  BY <1>1, <1>5, LegalHere DEF LegalAt, Is
<1>7. /\ ListNames(p) = stmts[k].names
      /\ stmts[k].from = "" => ~HasFrom(p) /\ SkipNewline(ListEnd(p) + 0) = e
      /\ stmts[k].from # "" => /\ HasFrom(p) /\ Text(ListEnd(p) + 1) = stmts[k].from
                               /\ SkipNewline(ListEnd(p) + 2) = e
  BY <1>1, <1>4, ImportShape
<1>8. /\ toks' = toks /\ at' = "top" /\ bs = blocks' /\ name = pending_section'
      /\ data = in_data' /\ ex = g_exports'
      /\ g_imports' = AddNames(im, stmts[k].names)
  BY <1>2, <1>4, <1>7 DEF ParseImport, AtStatement
<1>9. cur' = e
  <2>1. cur' = SkipNewline(ListEnd(p) + IF HasFrom(p) THEN 2 ELSE 0)
    BY <1>4 DEF ParseImport
  <2> QED
    BY <1>7, <2>1
<1>10. g_import_paths' = IF stmts[k].from = "" THEN pa ELSE AddNames(pa, <<stmts[k].from>>)
  <2>1. g_import_paths' = IF HasFrom(p) THEN AddNames(pa, <<Text(ListEnd(p) + 1)>>) ELSE pa
    BY <1>2, <1>4 DEF ParseImport
  <2> QED
    BY <1>7, <2>1
<1>11. PICK newim, newpa : newim = g_imports' /\ newpa = g_import_paths'
  OBVIOUS
<1>12. Read(m, newim, ex, newpa)
  <2>1. Read(m, AddNames(im, stmts[k].names), ex,
             IF stmts[k].from = "" THEN pa ELSE AddNames(pa, <<stmts[k].from>>))
    BY <1>1, <1>2, <1>4, <1>6, ReadImport
  <2> QED
    BY <1>8, <1>10, <1>11, <2>1
<1>13. Reached(m, e)
  BY <1>2, <1>4, ReachedNext
<1>14. AtTop(m, e, bs, name, data)
  <2>1. AtTop(m, e, bs, IF Is(k, {"section"}) THEN stmts[k].name ELSE name,
              IF Is(k, {"data", "text"}) THEN Is(k, {"data"}) ELSE data)
    BY <1>2, <1>4, <1>5, TopOn
  <2> QED
    BY <1>5, <2>1
<1>15. TopState(m, e, bs, name, data, newim, ex, newpa)
  BY <1>12, <1>13, <1>14 DEF TopState
<1> QED
  BY <1>8, <1>9, <1>11, <1>15, TopAgain

LEMMA StepExport ==
  ASSUME Laid, stmts' = stmts, NEW k, NEW p, NEW e, NextIs(k, p, e), ParseExport
  PROVE  ReadsStatements'
<1>1. stmts[k].is = "export"
  BY KindIs DEF NextIs, ParseExport, AtStatement
<1>2. PICK m, bs, name, data, im, ex, pa :
        /\ m = k + 1 /\ bs = blocks /\ name = pending_section /\ data = in_data
        /\ im = g_imports /\ ex = g_exports /\ pa = g_import_paths
  OBVIOUS
<1>3. PICK c : c = cur
  OBVIOUS
<1>4. /\ k \in 1 .. Len(stmts) /\ Reached(k, c) /\ Read(k, im, ex, pa)
      /\ AtTop(k, c, bs, name, data) /\ From(k, p, e)
      /\ e = Start(m) /\ ~(c > Len(toks)) /\ Here = p
  BY <1>2, <1>3, TokenFacts DEF Laid, NextIs, TopNow, TopState
<1>5. /\ ~Is(k, Enders) /\ ~Is(k, {"label"}) /\ ~Is(k, {"section"}) /\ ~Is(k, {"data", "text"})
  BY <1>1 DEF Is, Enders
<1>6. LegalAt(k)
  BY <1>1, <1>5, LegalHere DEF LegalAt, Is
<1>7. ListNames(p) = stmts[k].names /\ SkipNewline(ListEnd(p)) = e
  BY <1>1, <1>4, ExportShape
<1>8. /\ toks' = toks /\ at' = "top" /\ bs = blocks' /\ name = pending_section'
      /\ data = in_data' /\ im = g_imports' /\ pa = g_import_paths'
      /\ g_exports' = AddNames(ex, stmts[k].names) /\ cur' = e
  BY <1>2, <1>4, <1>7 DEF ParseExport, AtStatement
<1>9. PICK newex : newex = g_exports'
  OBVIOUS
<1>10. Read(m, im, newex, pa)
  BY <1>1, <1>2, <1>4, <1>6, <1>8, <1>9, ReadExport
<1>11. Reached(m, e)
  BY <1>2, <1>4, ReachedNext
<1>12. AtTop(m, e, bs, name, data)
  <2>1. AtTop(m, e, bs, IF Is(k, {"section"}) THEN stmts[k].name ELSE name,
              IF Is(k, {"data", "text"}) THEN Is(k, {"data"}) ELSE data)
    BY <1>2, <1>4, <1>5, TopOn
  <2> QED
    BY <1>5, <2>1
<1>13. TopState(m, e, bs, name, data, im, newex, pa)
  BY <1>10, <1>11, <1>12 DEF TopState
<1> QED
  BY <1>8, <1>9, <1>13, TopAgain

(* What follows a statement that changes at most the settings.             *)
LEMMA AfterSetting ==
  ASSUME Laid, NEW k, NEW p, NEW e, NextIs(k, p, e), NEW m, m = k + 1,
         stmts[k].is \in {"section", "data", "text"},
         NEW d, d = e - 1, Type(d) = "NEWLINE",
         NEW bs, bs = blocks, NEW name, name = pending_section, NEW data, data = in_data,
         NEW im, im = g_imports, NEW ex, ex = g_exports, NEW pa, pa = g_import_paths
  PROVE  TopState(m, d, bs, IF stmts[k].is = "section" THEN stmts[k].name ELSE name,
                  IF stmts[k].is = "section" THEN data ELSE stmts[k].is = "data", im, ex, pa)
<1>1. PICK c : c = cur
  OBVIOUS
<1>2. /\ k \in 1 .. Len(stmts) /\ Read(k, im, ex, pa)
      /\ AtTop(k, c, bs, name, data) /\ e = Start(m) /\ ~(c > Len(toks))
  BY <1>1, TokenFacts DEF Laid, NextIs, TopNow, TopState
<1>3. ~Is(k, {"label"}) /\ ~Is(k, {"import", "export"}) /\ LegalAt(k)
  BY BlankLegal DEF Is
<1>4. Read(m, im, ex, pa)
  BY <1>2, <1>3, ReadOn
<1>5. Reached(m, d)
  BY <1>2, ReachedNext
<1>6. AtTop(m, d, bs, IF Is(k, {"section"}) THEN stmts[k].name ELSE name,
            IF Is(k, {"data", "text"}) THEN Is(k, {"data"}) ELSE data)
  BY <1>2, <1>3, TopOn
<1>7. CASE stmts[k].is = "section"
  <2>1. Is(k, {"section"}) /\ ~Is(k, {"data", "text"})
    BY <1>7 DEF Is
  <2>2. AtTop(m, d, bs, stmts[k].name, data)
    BY <1>6, <2>1
  <2> QED
    BY <1>4, <1>5, <1>7, <2>2 DEF TopState
<1>8. CASE stmts[k].is = "data"
  <2>1. ~Is(k, {"section"}) /\ Is(k, {"data", "text"}) /\ Is(k, {"data"})
    BY <1>8 DEF Is
  <2>2. AtTop(m, d, bs, name, TRUE)
    BY <1>6, <2>1
  <2> QED
    BY <1>4, <1>5, <1>8, <2>2 DEF TopState
<1>9. CASE stmts[k].is = "text"
  <2>1. ~Is(k, {"section"}) /\ Is(k, {"data", "text"})
    BY <1>9 DEF Is
  <2>3. Is(k, {"data"}) = FALSE
    BY <1>9 DEF Is
  <2>4. (IF Is(k, {"data", "text"}) THEN Is(k, {"data"}) ELSE data) = FALSE
    BY <2>1, <2>3
  <2>2. AtTop(m, d, bs, name, FALSE)
    BY <1>6, <2>1, <2>4
  <2> QED
    BY <1>4, <1>5, <1>9, <2>2 DEF TopState
<1> QED
  BY <1>7, <1>8, <1>9

LEMMA StepSection ==
  ASSUME Laid, stmts' = stmts, NEW k, NEW p, NEW e, NextIs(k, p, e), SectionDirective
  PROVE  ReadsStatements'
<1>1. stmts[k].is = "section" /\ Here = p /\ From(k, p, e) /\ p \in Nat
  BY KindIs DEF NextIs, SectionDirective, From
<1>2. /\ Text(p + 2) = stmts[k].name /\ Type(p + 3) = "NEWLINE" /\ e = p + 4
  BY <1>1, SectionShape
<1>3. PICK m, d, bs, name, data, im, ex, pa :
        /\ m = k + 1 /\ d = e - 1 /\ bs = blocks /\ name = pending_section /\ data = in_data
        /\ im = g_imports /\ ex = g_exports /\ pa = g_import_paths
  OBVIOUS
<1>4. d = p + 3 /\ Type(d) = "NEWLINE"
  BY <1>1, <1>2, <1>3
<1>5. TopState(m, d, bs, IF stmts[k].is = "section" THEN stmts[k].name ELSE name,
               IF stmts[k].is = "section" THEN data ELSE stmts[k].is = "data", im, ex, pa)
  BY <1>1, <1>3, <1>4, AfterSetting
<1>6. PICK l : l = stmts[k].name
  OBVIOUS
<1>7. TopState(m, d, bs, l, data, im, ex, pa)
  BY <1>1, <1>5, <1>6
<1>8. /\ toks' = toks /\ at' = "top" /\ d = cur' /\ bs = blocks' /\ l = pending_section'
      /\ data = in_data' /\ im = g_imports' /\ ex = g_exports' /\ pa = g_import_paths'
  BY <1>1, <1>2, <1>3, <1>4, <1>6 DEF SectionDirective, AtStatement, globals
<1> QED
  BY <1>7, <1>8, TopAgain

LEMMA StepSetting ==
  ASSUME Laid, stmts' = stmts, NEW k, NEW p, NEW e, NextIs(k, p, e), DataOrText
  PROVE  ReadsStatements'
<1>1. stmts[k].is \in {"data", "text"} /\ Here = p /\ From(k, p, e) /\ p \in Nat
  BY KindIs DEF NextIs, DataOrText, From
<1>2. /\ Text(p + 1) = stmts[k].is /\ Type(p + 2) = "NEWLINE" /\ e = p + 3
  BY <1>1, SettingShape
<1>3. PICK m, d, bs, name, data, im, ex, pa :
        /\ m = k + 1 /\ d = e - 1 /\ bs = blocks /\ name = pending_section /\ data = in_data
        /\ im = g_imports /\ ex = g_exports /\ pa = g_import_paths
  OBVIOUS
<1>4. d = p + 2 /\ Type(d) = "NEWLINE"
  BY <1>1, <1>2, <1>3
<1>5. TopState(m, d, bs, IF stmts[k].is = "section" THEN stmts[k].name ELSE name,
               IF stmts[k].is = "section" THEN data ELSE stmts[k].is = "data", im, ex, pa)
  BY <1>1, <1>3, <1>4, AfterSetting
<1>6. in_data' = (Text(p + 1) = "data")
  BY <1>1 DEF DataOrText
<1>7. /\ toks' = toks /\ at' = "top" /\ d = cur' /\ bs = blocks' /\ name = pending_section'
      /\ im = g_imports' /\ ex = g_exports' /\ pa = g_import_paths'
  BY <1>1, <1>2, <1>3, <1>4 DEF DataOrText, AtStatement, globals
<1>8. CASE stmts[k].is = "data"
  <2>1. TopState(m, d, bs, name, TRUE, im, ex, pa)
    BY <1>5, <1>8
  <2>2. TRUE = in_data'
    BY <1>2, <1>6, <1>8
  <2> QED
    BY <1>7, <2>1, <2>2, TopAgain
<1>9. CASE stmts[k].is = "text"
  <2>1. TopState(m, d, bs, name, FALSE, im, ex, pa)
    BY <1>5, <1>9
  <2>2. FALSE = in_data'
    BY <1>2, <1>6, <1>9
  <2> QED
    BY <1>7, <2>1, <2>2, TopAgain
<1> QED
  BY <1>1, <1>8, <1>9

LEMMA StepBegin ==
  ASSUME Laid, stmts' = stmts, NEW k, NEW p, NEW e, NextIs(k, p, e), BeginBlock
  PROVE  ReadsStatements'
<1>1. stmts[k].is = "label" /\ Here = p /\ From(k, p, e) /\ k \in 1 .. Len(stmts)
  BY KindIs DEF NextIs, BeginBlock
<1>2. Text(p) = stmts[k].name /\ e = p + 2
  BY <1>1, LabelShape
<1>3. PICK m, bs, b, name, data, im, ex, pa :
        /\ m = k + 1 /\ bs = blocks /\ b = NewBlock(stmts[k].name)
        /\ name = pending_section /\ data = in_data
        /\ im = g_imports /\ ex = g_exports /\ pa = g_import_paths
  OBVIOUS
<1>4. PICK c : c = cur
  OBVIOUS
<1>5. Read(k, im, ex, pa) /\ AtTop(k, c, bs, name, data) /\ e = Start(m)
  BY <1>3, <1>4 DEF NextIs, TopNow, TopState
<1>6. Is(k, {"label"}) /\ ~Is(k, {"import", "export"}) /\ LegalAt(k)
  BY <1>1, BlankLegal DEF Is
<1>7. Read(m, im, ex, pa)
  BY <1>1, <1>3, <1>5, <1>6, ReadOn
<1>8. Reached(m, e)
  BY <1>1, <1>3, <1>5, ReachedNext
<1>9. AtBlock(m, bs, NewBlock(stmts[k].name), name, data)
  BY <1>1, <1>3, <1>5, <1>6, BlockBegins
<1>10. BlockState(m, e, bs, b, name, data, im, ex, pa)
  BY <1>3, <1>7, <1>8, <1>9 DEF BlockState
<1>11. /\ toks' = toks /\ at' = "block" /\ e = cur' /\ bs = blocks' /\ b = block'
       /\ name = pending_section' /\ data = in_data'
       /\ im = g_imports' /\ ex = g_exports' /\ pa = g_import_paths'
  BY <1>1, <1>2, <1>3 DEF BeginBlock, globals
<1> QED
  BY <1>10, <1>11, BlockAgain

(* A label that ends the file is parsed beyond its end.                    *)
LEMMA StepColon ==
  ASSUME Laid, stmts' = stmts, NEW k, NEW p, NEW e, NextIs(k, p, e), ColonAtEnd
  PROVE  ReadsStatements'
<1>1. /\ stmts[k].is = "label" /\ Here = p /\ From(k, p, e) /\ k \in 1 .. Len(stmts)
      /\ e = Start(k + 1) /\ Type(p + 2) = "NULL"
  BY KindIs DEF NextIs, ColonAtEnd
<1>2. e = p + 2
  BY <1>1, LabelShape
<1>3. PICK n, m : n = Len(stmts) /\ m = n + 1
  OBVIOUS
<1>4. k = n
  <2> SUFFICES ASSUME k # n PROVE FALSE
    OBVIOUS
  <2>1. k + 1 \in 1 .. Len(stmts)
    <3>1. Len(stmts) \in Nat
      BY DEF Laid
    <3> QED
      BY <1>1, <1>3, <3>1
  <2>2. Type(e) # "NULL"
    BY <1>1, <2>1, FrontOf
  <2> QED
    BY <1>1, <1>2, <2>2
<1>5. Is(n, {"label"})
  BY <1>1, <1>4 DEF Is
<1>6. toks' = toks /\ at' = "crash"
  BY DEF ColonAtEnd, Halted
<1> QED
  BY <1>3, <1>5, <1>6, CrashedWell

(* What is refused is not in a block.                                      *)
LEMMA StepRefused ==
  ASSUME Laid, stmts' = stmts, NEW k, NEW p, NEW e, NextIs(k, p, e), RejectStatement
  PROVE  ReadsStatements'
<1>1. Begins(stmts[k], p) /\ Here = p /\ k \in 1 .. Len(stmts) /\ stmts[k].is # "blank"
  BY DEF NextIs
<1>2. /\ Type(p) \notin {"IMPORT", "EXPORT"} /\ ~IsLabelDeclaration(p)
      /\ ~IsDirective(p, {"section", "data", "text"})
  BY <1>1 DEF RejectStatement, AtStatement
<1>3. stmts[k].is \in {"instr", "byte", "word"}
  BY <1>1, <1>2, KindIs DEF Kinds
<1>4. Is(k, {"instr", "byte", "word"}) /\ ~Is(k, Enders)
  BY <1>3 DEF Is, Enders
<1>5. Opener(k) = 0
  BY <1>4, LegalHere
<1>6. ~LegalAt(k) /\ k \in DOMAIN stmts
  BY <1>1, <1>4, <1>5 DEF LegalAt, Laid
<1>7. ~LegalFile
  BY <1>6 DEF LegalFile
<1>8. toks' = toks /\ at' = "error"
  BY DEF RejectStatement, Halted
<1> QED
  BY <1>7, <1>8, RefusedWell

(* Nothing else happens at a statement of the file.                        *)
LEMMA StepNever ==
  ASSUME Laid, NEW k, NEW p, NEW e, NextIs(k, p, e)
  PROVE  ~SkipHead /\ ~RejectNames /\ ~RejectSection /\ ~NewlinesAtEnd /\ ~ReturnBlocks
<1>1. /\ Begins(stmts[k], p) /\ Here = p /\ From(k, p, e) /\ at = "top"
      /\ ~(cur > Len(toks)) /\ k \in 1 .. Len(stmts)
  BY TokenFacts DEF Laid, NextIs, TopNow
<1>2. ~SkipHead /\ ~NewlinesAtEnd
  BY <1>1, KindIs DEF SkipHead, NewlinesAtEnd, AtStatement
<1>3. ~ReturnBlocks
  BY <1>1 DEF ReturnBlocks
<1>4. ~RejectSection
  <2> SUFFICES ASSUME RejectSection PROVE FALSE
    OBVIOUS
  <2>1. stmts[k].is = "section" /\ ~IsSymbol(p + 2)
    BY <1>1, KindIs DEF RejectSection
  <2> QED
    BY <1>1, <2>1 DEF Begins
<1>5. ~RejectNames
  <2> SUFFICES ASSUME RejectNames PROVE FALSE
    OBVIOUS
  <2>1. CASE stmts[k].is = "import"
    <3>1. /\ Type(p) = "IMPORT" /\ ListClosed(p)
          /\ HasFrom(p) => Type(ListEnd(p) + 1) = "STRING_LITERAL"
      BY <1>1, <2>1, ImportShape
    <3> QED
      BY <1>1, <3>1 DEF RejectNames
  <2>2. CASE stmts[k].is = "export"
    <3>1. Type(p) = "EXPORT" /\ ListClosed(p)
      BY <1>1, <2>2, ExportShape
    <3> QED
      BY <1>1, <3>1 DEF RejectNames
  <2>3. CASE stmts[k].is \notin {"import", "export"}
    <3>1. Type(p) \notin {"IMPORT", "EXPORT"}
      BY <1>1, <2>3, KindIs
    <3> QED
      BY <1>1, <3>1 DEF RejectNames, AtStatement
  <2> QED
    BY <2>1, <2>2, <2>3
<1> QED
  BY <1>2, <1>3, <1>4, <1>5

LEMMA DistinctNone == Distinct(<< >>) = << >>
<1> DEFINE a == << >>
<1>1. a \in Seq({}) /\ Len(a) = 0
  OBVIOUS
<1> HIDE DEF a
<1>2. Firsts(a) \in ListsOf({}, 0) /\ Distinct(a) = Upto(Firsts(a), 0)
  BY <1>1, DistinctIs
<1>3. Upto(Firsts(a), 0) = << >>
  <2> DEFINE f == Firsts(a)
  <2>1. f \in ListsOf({}, 0)
    BY <1>2
  <2> HIDE DEF f
  <2>2. Upto(f, 0) = << >>
    BY <2>1, UptoGrows DEF Grows
  <2> QED
    BY <2>2 DEF f
<1> QED
  BY <1>2, <1>3 DEF a

(* Before the first statement there is the lexer's empty token.            *)
LEMMA StepFirst ==
  ASSUME Laid, stmts' = stmts, Called, Statement
  PROVE  ReadsStatements'
<1>1. TokenList /\ Type(1) = "HEAD" /\ Start(1) = 2 /\ Len(stmts) \in Nat
  BY DEF Laid
<1>2. Len(toks) \in Nat /\ 1 <= Len(toks)
  BY <1>1, TokenFacts
<1>3. PICK c : c = 1
  OBVIOUS
<1>4. c = cur /\ at = "top" /\ ~(cur > Len(toks))
  BY <1>2, <1>3 DEF Called
<1>5. Here = c
  <2>1. \A q \in c .. c - 1 : Type(q) = "NEWLINE"
    BY <1>3
  <2> QED
    BY <1>1, <1>2, <1>3, <1>4, <2>1, HereIs
<1>6. Type(Here) = "HEAD"
  BY <1>1, <1>3, <1>5
<1>7. SkipHead
  BY <1>4, <1>6 DEF Statement, ParseImport, ParseExport, RejectNames, SectionDirective,
       RejectSection, DataOrText, BeginBlock, ColonAtEnd, RejectStatement, NewlinesAtEnd,
       ReturnBlocks, AtStatement, SymbolTypes
<1>8. PICK m, d, bs, name, im, ex, pa :
        /\ m = 1 /\ d = 2 /\ bs = << >> /\ name = NoSection
        /\ im = << >> /\ ex = << >> /\ pa = << >>
  OBVIOUS
<1>9. /\ toks' = toks /\ at' = "top" /\ d = cur' /\ bs = blocks' /\ name = pending_section'
      /\ im = g_imports' /\ ex = g_exports' /\ pa = g_import_paths'
  <2>1. /\ toks' = toks /\ at' = at /\ cur' = c + 1 /\ blocks' = blocks
        /\ pending_section' = pending_section /\ g_imports' = g_imports
        /\ g_exports' = g_exports /\ g_import_paths' = g_import_paths
    BY <1>5, <1>7 DEF SkipHead, globals
  <2> QED
    BY <1>3, <1>8, <2>1 DEF Called
<1>15. FALSE = in_data'
  BY <1>7 DEF SkipHead, Called
<1>10. Reached(m, d)
  <2>1. m \in 1 .. Len(stmts) + 1 /\ d <= Start(m)
    BY <1>1, <1>8
  <2>2. \A q \in d .. Start(m) - 1 : Type(q) = "NEWLINE"
    BY <1>1, <1>8
  <2> QED
    BY <2>1, <2>2 DEF Reached
<1>11. Read(m, im, ex, pa)
  <2>1. m - 1 = 0 /\ \A j \in 1 .. m - 1 : FALSE
    BY <1>8
  <2>2. /\ Upto(NamesOf("import"), 0) = << >> /\ Upto(NamesOf("export"), 0) = << >>
        /\ Upto(PathsOf, 0) = << >>
    BY NamesGrow, PathsGrow DEF Grows
  <2> QED
    BY <1>8, <2>1, <2>2, DistinctNone DEF Read
<1>12. Upto(BlocksOf, 0) = << >>
  BY BlocksGrow DEF Grows
<1>13. AtTop(m, d, bs, name, FALSE)
  <2>1. Opener(m) = 0 /\ name = SectionAt(m) /\ m - 1 = 0
    BY <1>8, AtFirst
  <2>2. FALSE = DataAt(m)
    BY <1>8, AtFirst
  <2> QED
    BY <1>8, <1>12, <2>1, <2>2 DEF AtTop
<1>14. TopState(m, d, bs, name, FALSE, im, ex, pa)
  BY <1>10, <1>11, <1>13 DEF TopState
<1> QED
  BY <1>9, <1>14, <1>15, TopAgain

(* Behind the last statement.                                              *)
LEMMA StepBehind ==
  ASSUME Laid, stmts' = stmts, NEW k, k = Len(stmts) + 1, TopNow(k), Here = Start(k), Statement
  PROVE  ReadsStatements'
<1>1. Type(Here) = "NULL" /\ at = "top" /\ ~(cur > Len(toks))
  BY BackOf, TokenFacts DEF TopNow, Laid
<1>2. "NULL" \notin TokenTypes
  BY DEF TokenTypes, MarkTypes, WordTypes, NumberTypes, SymbolTypes
<1>3. NewlinesAtEnd
  BY <1>1, <1>2 DEF Statement, ParseImport, ParseExport, RejectNames, SectionDirective,
       RejectSection, DataOrText, BeginBlock, ColonAtEnd, RejectStatement, SkipHead,
       ReturnBlocks, AtStatement, SymbolTypes
<1>4. toks' = toks /\ at' = "crash"
  BY <1>3 DEF NewlinesAtEnd, Halted
<1>5. AtTop(k, cur, blocks, pending_section, in_data)
  BY DEF TopNow, TopState
<1>6. k \notin DOMAIN stmts
  <2>1. Len(stmts) \in Nat /\ DOMAIN stmts = 1 .. Len(stmts)
    BY DEF Laid
  <2> QED
    BY <2>1
<1>7. Opener(k) = 0
  BY <1>1, <1>5, <1>6 DEF AtTop
<1> QED
  BY <1>4, <1>7, CrashedWell

(* The whole file has been read when no token is left.                     *)
LEMMA ReadAll ==
  ASSUME Laid, NEW k, NEW bs, NEW im, NEW ex, NEW pa, k = Len(stmts) + 1,
         Read(k, im, ex, pa), bs = Upto(BlocksOf, k - 1)
  PROVE  Parsed(bs, im, ex, pa)
<1>1. Len(stmts) \in Nat /\ DOMAIN stmts = 1 .. Len(stmts) /\ k - 1 = Len(stmts)
  BY DEF Laid
<1>2. /\ FlattenSeq(NamesOf("import")) = Upto(NamesOf("import"), k - 1)
      /\ FlattenSeq(NamesOf("export")) = Upto(NamesOf("export"), k - 1)
      /\ FlattenSeq(PathsOf) = Upto(PathsOf, k - 1)
  BY <1>1, NamesGrow, PathsGrow DEF Grows
<1>3. FlattenSeq(BlocksOf) = Upto(BlocksOf, k - 1)
  BY <1>1, BlocksGrow DEF Grows
<1>4. LegalFile
  BY <1>1 DEF Read, LegalFile
<1> QED
  BY <1>2, <1>3, <1>4 DEF Read, Parsed, BlocksMeant, NamesMeant, PathsMeant

LEMMA PastEnd ==
  ASSUME Laid, NEW c \in Nat, c > Len(toks), NEW i, Reached(i, c)
  PROVE  i = Len(stmts) + 1
<1>1. i \in 1 .. Len(stmts) + 1 /\ c <= Start(i) /\ Len(stmts) \in Nat
  BY DEF Reached, Laid
<1>2. ASSUME i \in 1 .. Len(stmts) PROVE FALSE
  <2>1. PICK p : p = Start(i)
    OBVIOUS
  <2>2. p \in 1 .. Len(toks) /\ Len(toks) \in Nat /\ c <= p
    BY <1>1, <1>2, <2>1, FrontOf, TokenFacts DEF Laid
  <2> QED
    BY <2>2
<1> QED
  BY <1>1, <1>2

LEMMA StepReturn ==
  ASSUME Laid, stmts' = stmts, cur \in Nat, ReturnBlocks,
         NEW i, TopState(i, cur, blocks, pending_section, in_data, g_imports, g_exports,
                         g_import_paths)
  PROVE  ReadsStatements'
<1>1. PICK bs, im, ex, pa : /\ bs = blocks /\ im = g_imports /\ ex = g_exports
                            /\ pa = g_import_paths
  OBVIOUS
<1>2. cur > Len(toks)
  BY DEF ReturnBlocks
<1>3. Reached(i, cur) /\ Read(i, im, ex, pa) /\ bs = Upto(BlocksOf, i - 1)
  BY <1>1 DEF TopState, AtTop
<1>4. i = Len(stmts) + 1
  <2>1. PICK c : c = cur
    OBVIOUS
  <2> QED
    BY <1>2, <1>3, <2>1, PastEnd
<1>5. Parsed(bs, im, ex, pa)
  BY <1>3, <1>4, ReadAll
<1>6. /\ toks' = toks /\ at' = "done" /\ bs = blocks' /\ im = g_imports' /\ ex = g_exports'
      /\ pa = g_import_paths'
  BY <1>1 DEF ReturnBlocks, Halted, globals
<1> QED
  BY <1>5, <1>6, DoneWell

LEMMA StatementReads ==
  ASSUME Laid, cur \in Nat, ReadsStatements, stmts' = stmts, Statement
  PROVE  ReadsStatements'
<1>1. at = "top"
  BY DEF Statement, ParseImport, ParseExport, RejectNames, SectionDirective,
       RejectSection, DataOrText, BeginBlock, ColonAtEnd, RejectStatement, NewlinesAtEnd,
       ReturnBlocks, SkipHead, AtStatement
<1>2. CASE Called
  BY <1>2, StepFirst
<1>3. CASE ~Called
  <2>1. PICK i \in 1 .. Len(stmts) + 1 :
          TopState(i, cur, blocks, pending_section, in_data, g_imports, g_exports, g_import_paths)
    BY <1>1, <1>3 DEF ReadsStatements, TopState
  <2>2. CASE cur > Len(toks)
    <3>1. ReturnBlocks
      BY <2>2, TokenFacts DEF Laid, Statement, ParseImport, ParseExport, RejectNames,
           SectionDirective, RejectSection, DataOrText, BeginBlock, ColonAtEnd, RejectStatement,
           NewlinesAtEnd, SkipHead, AtStatement
    <3> QED
      BY <2>1, <3>1, StepReturn
  <2>3. CASE ~(cur > Len(toks))
    <3>1. PICK c, bs, name, data, im, ex, pa :
            /\ c = cur /\ bs = blocks /\ name = pending_section /\ data = in_data
            /\ im = g_imports /\ ex = g_exports /\ pa = g_import_paths
      OBVIOUS
    <3>2. c \in Nat /\ c <= Len(toks) /\ TopState(i, c, bs, name, data, im, ex, pa)
      BY <2>1, <2>3, <3>1, TokenFacts DEF Laid
    <3>3. PICK k \in 1 .. Len(stmts) + 1 :
            /\ TopState(k, c, bs, name, data, im, ex, pa) /\ Here = Start(k)
            /\ k \in 1 .. Len(stmts) => stmts[k].is # "blank"
      BY <3>1, <3>2, TopComesTo
    <3>4. TopNow(k)
      BY <1>1, <3>1, <3>2, <3>3 DEF TopNow
    <3>5. CASE k = Len(stmts) + 1
      BY <3>3, <3>4, <3>5, StepBehind
    <3>6. CASE k \in 1 .. Len(stmts)
      <4>1. PICK p, e : p = Start(k) /\ e = Start(k + 1)
        OBVIOUS
      <4>2. From(k, p, e) /\ Begins(stmts[k], p)
        BY <3>6, <4>1, StandsFrom, FrontOf
      <4>3. NextIs(k, p, e)
        BY <3>3, <3>4, <3>6, <4>1, <4>2 DEF NextIs
      <4> QED
        BY <4>3, StepImport, StepExport, StepSection, StepSetting, StepBegin, StepColon,
           StepRefused, StepNever DEF Statement
    <3> QED
      BY <3>5, <3>6 DEF Laid
  <2> QED
    BY <2>2, <2>3
<1> QED
  BY <1>2, <1>3

---------------------------------------------------------------------------
(* A step in a block reads the block's next statement, or ends the block.  *)
BlockStep == EndBlock \/ BlankLine \/ RejectToken \/ Directive \/ ParseInstruction

BlockNow(i) ==
  /\ at = "block" /\ cur \in Nat
  /\ BlockState(i, cur, blocks, block, pending_section, in_data, g_imports, g_exports,
                g_import_paths)

(* Behind a statement that has no newline of its own left, only newlines.  *)
LEMMA NewlineOnly ==
  ASSUME Laid, cur \in Nat, Type(cur) = "NEWLINE", BlockStep
  PROVE  BlankLine
<1>1. ~(cur > Len(toks))
  BY TokenFacts DEF Laid
<1>2. ~BlockEnds
  BY <1>1 DEF BlockEnds, IsLabelDeclaration, IsDirective, IsSymbol, SymbolTypes
<1> QED
  BY <1>2 DEF BlockStep, EndBlock, RejectToken, Directive, ParseByte, ParseWord, RejectDirective,
     IsDirective, ParseInstruction, InstrNoOperand, InstrImm26, InstrLabel, InstrReg, InstrRegReg,
     InstrRegImm21, InstrRegLabel, CommaAtEnd, RejectOperand, AtSecondOperand, AtMnemonic

LEMMA StepNewline ==
  ASSUME Laid, stmts' = stmts, NEW i, BlockNow(i), cur < Start(i), BlockStep
  PROVE  ReadsStatements'
<1>1. PICK c, d, bs, b, name, data, im, ex, pa :
        /\ c = cur /\ d = c + 1 /\ bs = blocks /\ b = block
        /\ name = pending_section /\ data = in_data
        /\ im = g_imports /\ ex = g_exports /\ pa = g_import_paths
  OBVIOUS
<1>2. PICK p : p = Start(i)
  OBVIOUS
<1>3. /\ Reached(i, c) /\ Read(i, im, ex, pa) /\ AtBlock(i, bs, b, name, data)
      /\ c \in Nat /\ at = "block" /\ c < p
  BY <1>1, <1>2 DEF BlockNow, BlockState
<1>4. i \in 1 .. Len(stmts) + 1 /\ p \in Nat /\ \A q \in c .. p - 1 : Type(q) = "NEWLINE"
  <2>1. i \in 1 .. Len(stmts) + 1
    BY <1>3 DEF Reached
  <2>2. p \in Nat
    BY <1>2, <2>1 DEF Laid
  <2> QED
    BY <1>2, <1>3, <2>1, <2>2 DEF Reached
<1>5. Type(c) = "NEWLINE"
  BY <1>3, <1>4
<1>6. BlankLine
  BY <1>1, <1>3, <1>5, NewlineOnly
<1>7. Reached(i, d)
  <2>1. d <= p /\ \A q \in d .. p - 1 : q \in c .. p - 1
    BY <1>1, <1>3, <1>4
  <2> QED
    BY <1>2, <1>4, <2>1 DEF Reached
<1>8. BlockState(i, d, bs, b, name, data, im, ex, pa)
  BY <1>3, <1>7 DEF BlockState
<1>9. /\ toks' = toks /\ at' = "block" /\ d = cur' /\ bs = blocks' /\ b = block'
      /\ name = pending_section' /\ data = in_data'
      /\ im = g_imports' /\ ex = g_exports' /\ pa = g_import_paths'
  BY <1>1, <1>3, <1>6 DEF BlankLine, globals
<1> QED
  BY <1>8, <1>9, BlockAgain

(* The block ends: before a label or a setting, or with the file.          *)
LEMMA OnlyEnds ==
  ASSUME BlockEnds, BlockStep
  PROVE  EndBlock
BY DEF BlockStep, RejectToken, BlankLine, Directive, ParseByte, ParseWord, RejectDirective,
   ParseInstruction, InstrNoOperand, InstrImm26, InstrLabel, InstrReg, InstrRegReg,
   InstrRegImm21, InstrRegLabel, CommaAtEnd, RejectOperand, AtSecondOperand, AtMnemonic, InBlock

LEMMA StepEnd ==
  ASSUME Laid, stmts' = stmts, NEW i, BlockNow(i), EndBlock,
         \/ i \in 1 .. Len(stmts) /\ Is(i, Enders)
         \/ i = Len(stmts) + 1 /\ cur > Len(toks)
  PROVE  ReadsStatements'
<1>1. PICK c, bs, b, name, data, im, ex, pa :
        /\ c = cur /\ bs = blocks /\ b = block
        /\ name = pending_section /\ data = in_data
        /\ im = g_imports /\ ex = g_exports /\ pa = g_import_paths
  OBVIOUS
<1>2. /\ Reached(i, c) /\ Read(i, im, ex, pa) /\ AtBlock(i, bs, b, name, data)
      /\ i \in 1 .. Len(stmts) + 1
  BY <1>1 DEF BlockNow, BlockState, Reached
<1>3. PICK newbs :
        newbs = Append(bs, [b EXCEPT !.section = name, !.in_data = name = NoSection /\ data])
  OBVIOUS
<1>4. AtTop(i, c, newbs, NoSection, data)
  BY <1>1, <1>2, <1>3, BlockCloses
<1>5. TopState(i, c, newbs, NoSection, data, im, ex, pa)
  BY <1>2, <1>4 DEF TopState
<1>6. /\ toks' = toks /\ at' = "top" /\ c = cur' /\ newbs = blocks'
      /\ NoSection = pending_section' /\ data = in_data'
      /\ im = g_imports' /\ ex = g_exports' /\ pa = g_import_paths'
  BY <1>1, <1>3 DEF EndBlock, globals
<1> QED
  BY <1>5, <1>6, TopAgain

(* The statement from p to before e is the block's next one.               *)
BlockNextIs(k, p, e) ==
  /\ BlockNow(k) /\ k \in 1 .. Len(stmts)
  /\ cur = p /\ From(k, p, e) /\ Begins(stmts[k], p) /\ e = Start(k + 1)

(* What a statement of a block leaves when it adds what it means.          *)
LEMMA StepAdds ==
  ASSUME Laid, stmts' = stmts, NEW k, NEW p, NEW e, BlockNextIs(k, p, e),
         stmts[k].is \in {"blank", "instr", "byte", "word"},
         NEW d, d = e \/ (d = e - 1 /\ Type(d) = "NEWLINE"), d = cur',
         block' = BlockAfter(k, block),
         UNCHANGED <<toks, at, blocks, pending_section, in_data, globals>>
  PROVE  ReadsStatements'
<1>1. PICK m, bs, b, name, data, im, ex, pa :
        /\ m = k + 1 /\ bs = blocks /\ b = block
        /\ name = pending_section /\ data = in_data
        /\ im = g_imports /\ ex = g_exports /\ pa = g_import_paths
  OBVIOUS
<1>2. /\ Read(k, im, ex, pa) /\ AtBlock(k, bs, b, name, data) /\ at = "block"
      /\ k \in 1 .. Len(stmts) /\ e = Start(m)
  BY <1>1 DEF BlockNextIs, BlockNow, BlockState
<1>3. ~Is(k, Enders) /\ ~Is(k, {"import", "export"})
  BY DEF Is, Enders
<1>4. LegalAt(k)
  BY <1>2, <1>3 DEF LegalAt, AtBlock
<1>5. Read(m, im, ex, pa)
  BY <1>1, <1>2, <1>3, <1>4, ReadOn
<1>6. PICK newb : newb = BlockAfter(k, b)
  OBVIOUS
<1>7. AtBlock(m, bs, newb, name, data)
  BY <1>1, <1>2, <1>3, <1>6, BlockOn
<1>8. Reached(m, d)
  BY <1>1, <1>2, ReachedNext
<1>9. BlockState(m, d, bs, newb, name, data, im, ex, pa)
  BY <1>5, <1>7, <1>8 DEF BlockState
<1>10. /\ toks' = toks /\ at' = "block" /\ d = cur' /\ bs = blocks' /\ newb = block'
       /\ name = pending_section' /\ data = in_data'
       /\ im = g_imports' /\ ex = g_exports' /\ pa = g_import_paths'
  BY <1>1, <1>2, <1>6 DEF globals
<1> QED
  BY <1>9, <1>10, BlockAgain

LEMMA StepContents ==
  ASSUME Laid, stmts' = stmts, NEW k, NEW p, NEW e, BlockNextIs(k, p, e), BlockStep
  PROVE  ReadsStatements'
<1> DEFINE s == stmts[k]
<1>1. /\ BlockNow(k) /\ k \in 1 .. Len(stmts) /\ cur = p /\ From(k, p, e) /\ Begins(s, p)
      /\ e = Start(k + 1) /\ s.is \in Kinds /\ p \in Nat
  BY KindIs DEF BlockNextIs, From
<1>2. ~(cur > Len(toks)) /\ DOMAIN stmts = 1 .. Len(stmts)
  BY <1>1, FrontOf, KindIs, TokenFacts DEF Laid
<1>3. CASE s.is \in {"label", "section", "data", "text"}
  <2>1. BlockEnds
    BY <1>1, <1>3, KindIs DEF BlockEnds
  <2>2. Is(k, Enders)
    BY <1>3 DEF Is, Enders
  <2> QED
    BY <1>1, <2>1, <2>2, OnlyEnds, StepEnd
<1>4. CASE s.is \notin {"label", "section", "data", "text"}
  <2>1. ~BlockEnds /\ InBlock
    BY <1>1, <1>2, <1>4, KindIs DEF BlockEnds, InBlock, BlockNow
  <2>2. ~EndBlock
    BY <2>1 DEF EndBlock
  <2>3. CASE s.is = "blank"
    <3>1. Type(p) = "NEWLINE" /\ e = p + 1
      BY <1>1, <2>3, BlankShape
    <3>2. BlankLine
      BY <1>1, <3>1, NewlineOnly
    <3>3. e = cur' /\ UNCHANGED <<toks, at, blocks, block, pending_section, in_data, globals>>
      BY <1>1, <3>1, <3>2 DEF BlankLine
    <3>4. block' = BlockAfter(k, block)
      BY <2>3, <3>3 DEF BlockAfter
    <3> QED
      BY <2>3, <3>3, <3>4, StepAdds
  <2>4. CASE s.is \in {"import", "export"}
    <3>1. Type(p) \in {"IMPORT", "EXPORT"}
      BY <1>1, <2>4, KindIs
    <3>2. RejectToken
      BY <1>1, <2>2, <3>1 DEF BlockStep, BlankLine, Directive, ParseByte, ParseWord,
         RejectDirective, IsDirective, ParseInstruction, InstrNoOperand, InstrImm26, InstrLabel,
         InstrReg, InstrRegReg, InstrRegImm21, InstrRegLabel, CommaAtEnd, RejectOperand,
         AtSecondOperand, AtMnemonic
    <3>3. toks' = toks /\ at' = "error"
      BY <3>2 DEF RejectToken, Halted
    <3>4. Opener(k) # 0
      BY <1>1 DEF BlockNow, BlockState, AtBlock
    <3>5. Is(k, {"import", "export"})
      BY <2>4 DEF Is
    <3>6. ~LegalFile
      BY <1>1, <1>2, <3>4, <3>5 DEF LegalFile, LegalAt
    <3> QED
      BY <3>3, <3>6, RefusedWell
  <2>5. CASE s.is \in {"byte", "word"}
    <3>1. /\ Type(p) = "PERIOD" /\ \A words : IsDirective(p, words) <=> s.is \in words
      BY <1>1, <2>5, KindIs
    <3>2. ParseByte \/ ParseWord
      BY <1>1, <2>2, <2>5, <3>1 DEF BlockStep, BlankLine, Directive, RejectToken,
         RejectDirective, ParseInstruction, InstrNoOperand, InstrImm26, InstrLabel,
         InstrReg, InstrRegReg, InstrRegImm21, InstrRegLabel, CommaAtEnd, RejectOperand,
         AtSecondOperand, AtMnemonic
    <3>3. CASE s.is = "byte"
      <4>1. ParseByte
        BY <1>1, <3>1, <3>2, <3>3 DEF ParseWord
      <4>2. Grow(BytesMeant(s), << >>, e)
        <5>1. /\ [x \in 1 .. Items(p + 2, NumberTypes) |-> Atoi[Text(p + 2 * x)] % 256]
                   = BytesMeant(s)
              /\ SkipNewline(AfterItems(p + 2, NumberTypes)) = e
          BY <1>1, <3>3, BytesRead
        <5> QED
          BY <1>1, <4>1, <5>1 DEF ParseByte
      <4>3. block' = BlockAfter(k, block)
        BY <3>3, <4>2 DEF Grow, BlockAfter
      <4>4. e = cur' /\ UNCHANGED <<toks, at, blocks, pending_section, in_data, globals>>
        BY <4>2 DEF Grow
      <4> QED
        BY <3>3, <4>3, <4>4, StepAdds
    <3>4. CASE s.is = "word"
      <4>1. ParseWord
        BY <1>1, <3>1, <3>2, <3>4 DEF ParseByte
      <4>2. Grow(<< >>, WordsMeant(s), e)
        <5>1. /\ [x \in 1 .. Items(p + 2, WordTypes) |-> WordAt(p + 2 * x)] = WordsMeant(s)
              /\ SkipNewline(AfterItems(p + 2, WordTypes)) = e
          BY <1>1, <3>4, WordsRead
        <5> QED
          BY <1>1, <4>1, <5>1 DEF ParseWord
      <4>3. block' = BlockAfter(k, block)
        BY <3>4, <4>2 DEF Grow, BlockAfter
      <4>4. e = cur' /\ UNCHANGED <<toks, at, blocks, pending_section, in_data, globals>>
        BY <4>2 DEF Grow
      <4> QED
        BY <3>4, <4>3, <4>4, StepAdds
    <3> QED
      BY <2>5, <3>3, <3>4
  <2>6. CASE s.is = "instr"
    <3>1. Type(p) = "INSTRUCTION"
      BY <1>1, <2>6 DEF Begins
    <3>2. ParseInstruction
      BY <1>1, <2>2, <3>1 DEF BlockStep, BlankLine, Directive, RejectToken, ParseByte, ParseWord,
         RejectDirective, IsDirective
    <3>3. AddsInstr(InstrMeant(s), e - 1) /\ Type(e - 1) = "NEWLINE"
      BY <1>1, <2>6, <3>2, InstrReadIs
    <3>4. PICK d : d = e - 1
      OBVIOUS
    <3>5. /\ d = cur' /\ block' = BlockAfter(k, block)
          /\ UNCHANGED <<toks, at, blocks, pending_section, in_data, globals>>
      BY <2>6, <3>3, <3>4 DEF AddsInstr, BlockAfter
    <3> QED
      BY <2>6, <3>3, <3>4, <3>5, StepAdds
  <2> QED
    BY <1>1, <1>4, <2>3, <2>4, <2>5, <2>6 DEF Kinds
<1> QED
  BY <1>3, <1>4

LEMMA BlockReads ==
  ASSUME Laid, cur \in Nat, ReadsStatements, stmts' = stmts, BlockStep
  PROVE  ReadsStatements'
<1>1. at = "block"
  BY DEF BlockStep, EndBlock, BlankLine, RejectToken, Directive, ParseByte, ParseWord,
     RejectDirective, ParseInstruction, InstrNoOperand, InstrImm26, InstrLabel, InstrReg,
     InstrRegReg, InstrRegImm21, InstrRegLabel, CommaAtEnd, RejectOperand, AtSecondOperand,
     AtMnemonic, InBlock
<1>2. PICK i \in 1 .. Len(stmts) + 1 : BlockNow(i)
  BY <1>1 DEF ReadsStatements, BlockNow, BlockState
<1>3. PICK c, p : c = cur /\ p = Start(i)
  OBVIOUS
<1>4. Reached(i, c) /\ c <= p /\ c \in Nat /\ p \in Nat /\ Len(stmts) \in Nat
  BY <1>2, <1>3 DEF BlockNow, BlockState, Reached, Laid
<1>5. CASE c > Len(toks)
  <2>1. i = Len(stmts) + 1
    BY <1>4, <1>5, PastEnd
  <2>2. BlockEnds
    BY <1>3, <1>5 DEF BlockEnds
  <2> QED
    BY <1>2, <1>3, <1>5, <2>1, <2>2, OnlyEnds, StepEnd
<1>6. CASE c < p
  BY <1>2, <1>3, <1>6, StepNewline
<1>7. CASE ~(c > Len(toks)) /\ ~(c < p)
  <2>1. c = p /\ i \in 1 .. Len(stmts)
    <3>1. ASSUME i = Len(stmts) + 1 PROVE FALSE
      BY <1>3, <1>4, <1>7, <3>1, BackOf, TokenFacts DEF Laid
    <3> QED
      BY <1>2, <1>4, <1>7, <3>1
  <2>2. PICK e : e = Start(i + 1)
    OBVIOUS
  <2>3. From(i, p, e) /\ Begins(stmts[i], p)
    BY <1>3, <2>1, <2>2, StandsFrom, FrontOf
  <2>4. BlockNextIs(i, p, e)
    BY <1>2, <1>3, <2>1, <2>2, <2>3 DEF BlockNextIs
  <2> QED
    BY <2>4, StepContents
<1> QED
  BY <1>5, <1>6, <1>7

---------------------------------------------------------------------------
(* The invariant holds in every state.                                     *)
MeaningInv == FileInv /\ TypeInv /\ ReadsStatements

LEMMA FileStays ==
  ASSUME [Next /\ UNCHANGED stmts]_<<vars, stmts>>
  PROVE  stmts' = stmts /\ toks' = toks
<1>1. stmts' = stmts
  BY DEF vars
<1>2. CASE UNCHANGED vars
  BY <1>1, <1>2 DEF vars
<1>3. CASE Statement
  BY <1>1, <1>3 DEF Statement, ParseImport, ParseExport, RejectNames, SectionDirective,
     RejectSection, DataOrText, BeginBlock, ColonAtEnd, RejectStatement, NewlinesAtEnd,
     ReturnBlocks, SkipHead, Halted
<1>4. CASE BlockStep
  BY <1>1, <1>4 DEF BlockStep, EndBlock, BlankLine, RejectToken, Directive, ParseByte, ParseWord,
     RejectDirective, ParseInstruction, InstrNoOperand, InstrImm26, InstrLabel, InstrReg,
     InstrRegReg, InstrRegImm21, InstrRegLabel, CommaAtEnd, RejectOperand, Grow, AddInstr, Halted
<1> QED
  BY <1>2, <1>3, <1>4 DEF Next, Step, BlockStep, Terminated, vars

LEMMA MeaningInvStarts ==
  ASSUME MeaningInit
  PROVE  MeaningInv
<1>1. FileInv /\ Called
  BY DEF MeaningInit, FileInv
<1>2. TokenList
  BY <1>1, FileIsLaid DEF Laid
<1>3. TypeInv
  BY <1>1, <1>2, CalledTypeInv
<1>4. ReadsStatements
  BY <1>1 DEF Called, ReadsStatements, ParsesAsWritten, EndsWellInABlock
<1> QED
  BY <1>1, <1>3, <1>4 DEF MeaningInv

LEMMA MeaningInvStays ==
  ASSUME MeaningInv, [Next /\ UNCHANGED stmts]_<<vars, stmts>>
  PROVE  MeaningInv'
<1>1. stmts' = stmts /\ toks' = toks
  BY FileStays
<1>2. FileInv /\ TypeInv /\ ReadsStatements /\ Laid
  BY FileIsLaid DEF MeaningInv
<1>3. FileInv'
  BY <1>1, <1>2 DEF FileInv
<1>4. [Next]_vars
  BY DEF vars
<1>5. TypeInv'
  BY <1>2, <1>4, NextTypeInv
<1>6. cur \in Nat
  BY <1>2, TokenFacts DEF TypeInv, ParserTypeOK
<1>7. ReadsStatements'
  <2>1. CASE UNCHANGED vars
    <3>1. UNCHANGED <<vars, stmts>>
      BY <1>1, <2>1
    <3> QED
      BY <1>2, <3>1, StaysWell
  <2>2. CASE Statement
    BY <1>1, <1>2, <1>6, <2>2, StatementReads
  <2>3. CASE BlockStep
    BY <1>1, <1>2, <1>6, <2>3, BlockReads
  <2> QED
    BY <1>4, <2>1, <2>2, <2>3 DEF Next, Step, BlockStep, Terminated
<1> QED
  BY <1>3, <1>5, <1>7 DEF MeaningInv

LEMMA SpecMeaningInv == MeaningSpec => []MeaningInv
<1>1. MeaningInit => MeaningInv
  BY MeaningInvStarts
<1>2. MeaningInv /\ [Next /\ UNCHANGED stmts]_<<vars, stmts>> => MeaningInv'
  BY MeaningInvStays
<1> QED
  BY <1>1, <1>2, PTL DEF MeaningSpec

(* Whatever the file, parser() returns its blocks, the contents of each in *)
(* the order of their statements, and its names and paths, each once; it   *)
(* refuses only a file with contents outside a block or an import in one.  *)
THEOREM ParserMeansItsStatements == MeaningSpec => []ParsesAsWritten
<1>1. MeaningInv => ParsesAsWritten
  BY DEF MeaningInv, ReadsStatements
<1> QED
  BY <1>1, SpecMeaningInv, PTL

(* Whatever the file, the parser runs past the end of its tokens only when *)
(* the file ends outside a block or right behind a label.                  *)
THEOREM ParserEndsWell == MeaningSpec => []EndsWellInABlock
<1>1. MeaningInv => EndsWellInABlock
  BY DEF MeaningInv, ReadsStatements
<1> QED
  BY <1>1, SpecMeaningInv, PTL
====
