------------------------ MODULE JsonConstraint_proofs -----------------------
(***************************************************************************)
(* What TLAPS proves of JsonConstraint: the automaton reads what the nodes *)
(* of its grammar spell, for every grammar and every solution of the       *)
(* equations of JsonSpelling; and from that what is promised of decoding.  *)
(* First texts and sets of texts; then what is left to be spelled inside   *)
(* a value, as equations that take a byte at a time; then that a step of   *)
(* the automaton follows them, kind by kind; then all the bytes of a text, *)
(* and the actions.                                                        *)
(***************************************************************************)
EXTENDS JsonConstraint, SequenceTheorems, WellFoundedInduction, FiniteSetTheorems, TLAPS

-----------------------------------------------------------------------------
(* Texts.  The operators on sequences are given names here, so that the    *)
(* provers see the few facts about them that matter.                       *)

Text == Seq(Byte)
Nil == <<>>
Size(t) == Len(t)
Glue(x, y) == x \o y
Lead(b, t) == <<b>> \o t

LEMMA GlueIs ==
  ASSUME NEW x \in Text, NEW y \in Text
  PROVE  /\ Glue(x, y) \in Text /\ Size(Glue(x, y)) = Size(x) + Size(y)
         /\ Size(x) \in Nat /\ Size(y) \in Nat
<1>1. x \in Seq(Byte) /\ y \in Seq(Byte)
  BY DEF Text
<1>2. x \o y \in Seq(Byte)
  BY <1>1
<1>3. Len(x \o y) = Len(x) + Len(y)
  BY <1>1
<1>4. Len(x) \in Nat /\ Len(y) \in Nat
  BY <1>1
<1>. QED  BY <1>2, <1>3, <1>4 DEF Text, Glue, Size

LEMMA SizeIs ==
  ASSUME NEW x \in Text
  PROVE  Size(x) \in Nat
BY DEF Text, Size

LEMMA GlueAssoc ==
  ASSUME NEW x \in Text, NEW y \in Text, NEW z \in Text
  PROVE  Glue(Glue(x, y), z) = Glue(x, Glue(y, z))
<1>1. x \in Seq(Byte) /\ y \in Seq(Byte) /\ z \in Seq(Byte)
  BY DEF Text
<1>2. (x \o y) \o z = x \o (y \o z)
  BY <1>1
<1>. QED  BY <1>2 DEF Glue

LEMMA GlueNil ==
  ASSUME NEW x \in Text
  PROVE  Glue(Nil, x) = x /\ Glue(x, Nil) = x
<1>1. x \in Seq(Byte)
  BY DEF Text
<1>2. <<>> \o x = x
  BY <1>1
<1>3. x \o <<>> = x
  BY <1>1
<1>. QED  BY <1>2, <1>3 DEF Glue, Nil

LEMMA NilIs == Nil \in Text /\ Size(Nil) = 0
BY DEF Text, Nil, Size

LEMMA NoSize ==
  ASSUME NEW x \in Text, Size(x) = 0
  PROVE  x = Nil
BY DEF Text, Nil, Size

LEMMA LeadIs ==
  ASSUME NEW b \in Byte, NEW w \in Text
  PROVE  /\ Lead(b, w) \in Text /\ Size(Lead(b, w)) = Size(w) + 1 /\ Size(w) \in Nat
         /\ Lead(b, w) # Nil /\ Lead(b, w)[1] = b
         /\ Lead(b, w) = Glue(<<b>>, w) /\ <<b>> \in Text /\ <<b>> = Lead(b, Nil)
<1>1. w \in Seq(Byte) /\ <<b>> \in Seq(Byte)
  BY DEF Text
<1>2. (<<b>> \o w)[1] = b
  BY <1>1
<1>3. <<b>> \o w \in Seq(Byte)
  BY <1>1
<1>4. Len(<<b>> \o w) = Len(w) + 1
  BY <1>1
<1>5. Len(w) \in Nat
  BY <1>1
<1>6. <<b>> \o w # <<>>
  BY <1>3, <1>4, <1>5
<1>7. <<b>> = <<b>> \o <<>>
  BY <1>1
<1>. QED  BY <1>1, <1>2, <1>3, <1>4, <1>5, <1>6, <1>7 DEF Text, Nil, Size, Lead, Glue

LEMMA SameRest ==
  ASSUME NEW b \in Byte, NEW v \in Text, NEW w \in Text, Lead(b, v) = Lead(b, w)
  PROVE  v = w
<1>1. v \in Seq(Byte) /\ w \in Seq(Byte) /\ <<b>> \in Seq(Byte)
  BY DEF Text
<1>2. Len(v) = Len(w)
  <2>1. /\ Size(Lead(b, v)) = Size(v) + 1 /\ Size(Lead(b, w)) = Size(w) + 1
        /\ Size(v) \in Nat /\ Size(w) \in Nat
    BY LeadIs
  <2>2. Size(v) = Size(w)
    BY <2>1
  <2>. QED  BY <2>2 DEF Size
<1>3. ASSUME NEW i \in 1..Len(v) PROVE v[i] = w[i]
  <2>1. (<<b>> \o v)[1 + i] = v[i]
    BY <1>1
  <2>2. (<<b>> \o w)[1 + i] = w[i]
    BY <1>1, <1>2
  <2>. QED  BY <2>1, <2>2 DEF Lead
<1>. QED  BY <1>1, <1>2, <1>3, SeqEqual

LEMMA Parted ==
  ASSUME NEW x \in Text, x # Nil
  PROVE  \E rest \in Text : x = Lead(x[1], rest) /\ x[1] \in Byte
<1>. DEFINE rest == Tail(x)
<1>1. x \in Seq(Byte) /\ Len(x) >= 1 /\ Len(x) \in Nat
  BY DEF Text, Nil
<1>2. x[1] \in Byte
  BY <1>1
<1>3. rest \in Seq(Byte) /\ Len(rest) = Len(x) - 1 /\ \A i \in 1..Len(rest) : rest[i] = x[i + 1]
  BY <1>1
<1>. HIDE DEF rest
<1>4. <<x[1]>> \o rest \in Seq(Byte)
  BY <1>2, <1>3
<1>5. Len(<<x[1]>> \o rest) = Len(x)
  BY <1>1, <1>2, <1>3
<1>6. (<<x[1]>> \o rest)[1] = x[1]
  BY <1>2, <1>3
<1>7. ASSUME NEW i \in 1..Len(x) PROVE x[i] = (<<x[1]>> \o rest)[i]
  <2>1. CASE i = 1
    BY <1>6, <2>1
  <2>2. CASE i # 1
    <3>1. i - 1 \in 1..Len(rest) /\ i = 1 + (i - 1) /\ i = (i - 1) + 1
      BY <1>1, <1>3, <2>2
    <3>2. (<<x[1]>> \o rest)[1 + (i - 1)] = rest[i - 1]
      BY <1>2, <1>3, <3>1
    <3>3. rest[i - 1] = x[(i - 1) + 1]
      BY <1>3, <3>1
    <3>. QED  BY <3>1, <3>2, <3>3
  <2>. QED  BY <2>1, <2>2
<1>8. x = <<x[1]>> \o rest
  BY <1>1, <1>4, <1>5, <1>7, SeqEqual
<1>. QED  BY <1>2, <1>3, <1>8 DEF Text, Lead

(* The first byte of two texts put together.                               *)
LEMMA FirstByte ==
  ASSUME NEW b \in Byte, NEW w \in Text, NEW x \in Text, NEW y \in Text,
         Lead(b, w) = Glue(x, y), x # Nil
  PROVE  \E rest \in Text : x = Lead(b, rest) /\ w = Glue(rest, y)
<1>1. PICK rest \in Text : x = Lead(x[1], rest) /\ x[1] \in Byte
  BY Parted
<1>. DEFINE c == x[1]
<1>2. x = Lead(c, rest) /\ c \in Byte
  BY <1>1
<1>. HIDE DEF c
<1>3. Glue(x, y) = Lead(c, Glue(rest, y))
  <2>1. x = Glue(<<c>>, rest) /\ <<c>> \in Text
    BY <1>2, LeadIs
  <2>2. Glue(Glue(<<c>>, rest), y) = Glue(<<c>>, Glue(rest, y))
    BY <2>1, GlueAssoc
  <2>3. Glue(rest, y) \in Text
    BY GlueIs
  <2>4. Glue(<<c>>, Glue(rest, y)) = Lead(c, Glue(rest, y))
    BY <1>2, <2>3, LeadIs
  <2>. QED  BY <2>1, <2>2, <2>4
<1>4. Glue(rest, y) \in Text
  BY GlueIs
<1>5. c = b
  <2>1. Lead(c, Glue(rest, y))[1] = c
    BY <1>2, <1>4, LeadIs
  <2>2. Lead(b, w)[1] = b
    BY LeadIs
  <2>. QED  BY <1>3, <2>1, <2>2
<1>6. w = Glue(rest, y)
  BY <1>3, <1>4, <1>5, SameRest
<1>. QED  BY <1>2, <1>5, <1>6

(* A byte before texts put together.                                       *)
LEMMA LeadGlue ==
  ASSUME NEW b \in Byte, NEW x \in Text, NEW y \in Text
  PROVE  Lead(b, Glue(x, y)) = Glue(Lead(b, x), y)
<1>1. Glue(x, y) \in Text
  BY GlueIs
<1>2. Lead(b, x) = Glue(<<b>>, x) /\ <<b>> \in Text /\ Lead(b, Glue(x, y)) = Glue(<<b>>, Glue(x, y))
  BY <1>1, LeadIs
<1>. QED  BY <1>2, GlueAssoc

-----------------------------------------------------------------------------
(* Sets of texts, put together.                                            *)

Lang(A) == \A x \in A : x \in Text
Fit == {t \in Text : Size(t) <= MaxText}
Fits(A) == \A x \in A : x \in Fit
AllBytes(C) == \A c \in C : c \in Byte
Nothing == {Nil}

(* The bound on texts is a number.                                         *)
Bounded == MaxText \in Nat /\ MaxText > 1

LEMMA LangIn ==
  ASSUME NEW A, Lang(A), NEW x \in A
  PROVE  x \in Text
BY DEF Lang

LEMMA UpToIs ==
  ASSUME NEW A, NEW n, NEW t
  PROVE  t \in UpTo(A, n) <=> t \in A /\ Size(t) <= n
BY DEF UpTo, Size

LEMMA PairsOut ==
  ASSUME NEW A, NEW B, NEW n, NEW t \in Pairs(A, B, n)
  PROVE  \E x \in A, y \in B : t = Glue(x, y)
<1>1. PICK x \in UpTo(A, MaxText - n), y \in OfSize(B, n) : t = x \o y
  BY DEF Pairs
<1>2. x \in A /\ y \in B
  BY DEF UpTo, OfSize
<1>3. t = Glue(x, y)
  BY <1>1 DEF Glue
<1>. QED  BY <1>2, <1>3

LEMMA PairsIn ==
  ASSUME NEW A, NEW B, NEW x \in A, NEW y \in B, Size(x) <= MaxText - Size(y)
  PROVE  Glue(x, y) \in Pairs(A, B, Size(y))
<1>1. x \in UpTo(A, MaxText - Size(y))
  BY UpToIs
<1>2. y \in OfSize(B, Size(y))
  BY Zenon DEF OfSize, Size
<1>. QED  BY <1>1, <1>2 DEF Pairs, Glue

LEMMA CatParts ==
  ASSUME NEW A, NEW B, NEW t \in Cat(A, B)
  PROVE  \E x \in A, y \in B : t = Glue(x, y)
<1>1. PICK n \in 0..MaxText : t \in Pairs(A, B, n)
  BY UpToIs DEF Cat
<1>. QED  BY <1>1, PairsOut

LEMMA CatFits ==
  ASSUME Bounded, NEW A, Lang(A), NEW B, Lang(B)
  PROVE  Lang(Cat(A, B)) /\ Fits(Cat(A, B))
<1>1. ASSUME NEW t \in Cat(A, B) PROVE t \in Text /\ t \in Fit
  <2>1. PICK x \in A, y \in B : t = Glue(x, y)
    BY CatParts
  <2>2. x \in Text /\ y \in Text
    BY LangIn
  <2>3. t \in Text
    BY <2>1, <2>2, GlueIs
  <2>4. Size(t) <= MaxText
    BY UpToIs DEF Cat
  <2>. QED  BY <2>3, <2>4 DEF Fit
<1>. QED  BY <1>1 DEF Lang, Fits

LEMMA FitsIn ==
  ASSUME NEW A, Fits(A), NEW x \in A
  PROVE  x \in Fit /\ x \in Text
BY DEF Fits, Fit

LEMMA BytesIn ==
  ASSUME NEW C, AllBytes(C), NEW c \in C
  PROVE  c \in Byte
BY DEF AllBytes

LEMMA CatIn ==
  ASSUME Bounded, NEW A, Lang(A), NEW B, Lang(B),
         NEW x \in A, NEW y \in B, Glue(x, y) \in Fit
  PROVE  Glue(x, y) \in Cat(A, B)
<1>1. x \in Text /\ y \in Text
  BY LangIn
<1>2. Size(x) \in Nat /\ Size(y) \in Nat /\ Size(Glue(x, y)) = Size(x) + Size(y)
  BY <1>1, GlueIs
<1>3. Size(Glue(x, y)) <= MaxText
  BY DEF Fit
<1>4. Size(y) \in 0..MaxText /\ Size(x) <= MaxText - Size(y)
  BY <1>2, <1>3 DEF Bounded
<1>5. Glue(x, y) \in Pairs(A, B, Size(y))
  BY <1>4, PairsIn
<1>. QED  BY <1>3, <1>4, <1>5, UpToIs DEF Cat

LEMMA LangFit ==
  ASSUME NEW A, Fits(A)
  PROVE  Lang(A)
BY DEF Lang, Fits, Fit

LEMMA LangUnion ==
  ASSUME NEW A, Lang(A), NEW B, Lang(B)
  PROVE  Lang(A \cup B)
BY DEF Lang

LEMMA SingleIs ==
  ASSUME NEW C, AllBytes(C), NEW x
  PROVE  x \in Single(C) <=> \E c \in C : x = Lead(c, Nil)
<1>1. ASSUME NEW c \in C PROVE <<c>> = Lead(c, Nil)
  BY BytesIn, LeadIs, NilIs
<1>. QED  BY <1>1 DEF Single

LEMMA LangSingle ==
  ASSUME Bounded, NEW C, AllBytes(C)
  PROVE  Lang(Single(C)) /\ Fits(Single(C))
<1>1. ASSUME NEW x \in Single(C) PROVE x \in Text /\ x \in Fit
  <2>1. PICK c \in C : x = Lead(c, Nil)
    BY SingleIs
  <2>2. x \in Text /\ Size(x) = 0 + 1
    BY <2>1, BytesIn, LeadIs, NilIs
  <2>. QED  BY <2>2 DEF Fit, Bounded
<1>. QED  BY <1>1 DEF Lang, Fits

LEMMA LangNothing == Lang(Nothing) /\ Lang({}) /\ Nil \in Nothing /\ \A x \in Nothing : x = Nil
BY NilIs DEF Lang, Nothing

LEMMA NothingFits ==
  ASSUME Bounded
  PROVE  Fits(Nothing)
BY NilIs, LangNothing DEF Fit, Fits, Bounded

LEMMA CatEmpty ==
  ASSUME Bounded, NEW B, Lang(B)
  PROVE  Cat({}, B) = {} /\ Cat(B, {}) = {}
<1>1. ASSUME NEW t, t \in Cat({}, B) PROVE FALSE
  BY <1>1, LangNothing, CatParts
<1>2. ASSUME NEW t, t \in Cat(B, {}) PROVE FALSE
  BY <1>2, LangNothing, CatParts
<1>. QED  BY <1>1, <1>2

LEMMA CatUnion ==
  ASSUME Bounded, NEW A, Lang(A), NEW B, Lang(B), NEW C, Lang(C)
  PROVE  Cat(A \cup B, C) = Cat(A, C) \cup Cat(B, C)
<1>1. Lang(A \cup B)
  BY LangUnion
<1>2. ASSUME NEW t, t \in Cat(A \cup B, C) PROVE t \in Cat(A, C) \/ t \in Cat(B, C)
  <2>1. PICK x \in A \cup B, y \in C : t = Glue(x, y)
    BY <1>1, <1>2, CatParts
  <2>2. t \in Fit
    BY <1>1, <1>2, CatFits, FitsIn
  <2>. QED  BY <2>1, <2>2, CatIn
<1>3. ASSUME NEW t, t \in Cat(A, C) PROVE t \in Cat(A \cup B, C)
  <2>1. PICK x \in A, y \in C : t = Glue(x, y)
    BY <1>3, CatParts
  <2>2. t \in Fit /\ x \in A \cup B
    BY <1>3, CatFits, FitsIn
  <2>. QED  BY <1>1, <2>1, <2>2, CatIn
<1>4. ASSUME NEW t, t \in Cat(B, C) PROVE t \in Cat(A \cup B, C)
  <2>1. PICK x \in B, y \in C : t = Glue(x, y)
    BY <1>4, CatParts
  <2>2. t \in Fit /\ x \in A \cup B
    BY <1>4, CatFits, FitsIn
  <2>. QED  BY <1>1, <2>1, <2>2, CatIn
<1>. QED  BY <1>2, <1>3, <1>4

LEMMA CatNothing ==
  ASSUME Bounded, NEW B, Fits(B)
  PROVE  Cat(Nothing, B) = B
<1>1. Lang(Nothing) /\ Lang(B)
  BY LangNothing, LangFit
<1>2. ASSUME NEW t \in Cat(Nothing, B) PROVE t \in B
  <2>1. PICK x \in Nothing, y \in B : t = Glue(x, y)
    BY <1>1, CatParts
  <2>2. y \in Text /\ x = Nil
    BY <1>1, LangIn, LangNothing
  <2>. QED  BY <2>1, <2>2, GlueNil
<1>3. ASSUME NEW t \in B PROVE t \in Cat(Nothing, B)
  <2>1. t \in Fit /\ t \in Text
    BY FitsIn
  <2>2. Glue(Nil, t) = t /\ Nil \in Nothing
    BY <2>1, GlueNil, LangNothing
  <2>. QED  BY <1>1, <2>1, <2>2, CatIn
<1>. QED  BY <1>2, <1>3

LEMMA CatLast ==
  ASSUME Bounded, NEW B, Fits(B)
  PROVE  Cat(B, Nothing) = B
<1>1. Lang(Nothing) /\ Lang(B)
  BY LangNothing, LangFit
<1>2. ASSUME NEW t \in Cat(B, Nothing) PROVE t \in B
  <2>1. PICK y \in B, x \in Nothing : t = Glue(y, x)
    BY <1>1, CatParts
  <2>2. y \in Text /\ x = Nil
    BY <1>1, LangIn, LangNothing
  <2>. QED  BY <2>1, <2>2, GlueNil
<1>3. ASSUME NEW t \in B PROVE t \in Cat(B, Nothing)
  <2>1. t \in Fit /\ t \in Text
    BY FitsIn
  <2>2. Glue(t, Nil) = t /\ Nil \in Nothing
    BY <2>1, GlueNil, LangNothing
  <2>. QED  BY <1>1, <2>1, <2>2, CatIn
<1>. QED  BY <1>2, <1>3

LEMMA CatAssoc ==
  ASSUME Bounded, NEW A, Lang(A), NEW B, Lang(B), NEW C, Lang(C)
  PROVE  Cat(Cat(A, B), C) = Cat(A, Cat(B, C))
<1>1. Lang(Cat(A, B)) /\ Lang(Cat(B, C))
  BY CatFits
<1>2. ASSUME NEW x \in A, NEW y \in B, NEW z \in C, Glue(Glue(x, y), z) \in Fit
      PROVE  /\ Glue(Glue(x, y), z) = Glue(x, Glue(y, z))
             /\ Glue(x, y) \in Fit /\ Glue(y, z) \in Fit
  <2>1. x \in Text /\ y \in Text /\ z \in Text
    BY LangIn
  <2>2. Glue(Glue(x, y), z) = Glue(x, Glue(y, z))
    BY <2>1, GlueAssoc
  <2>3. Glue(x, y) \in Text /\ Glue(y, z) \in Text
    BY <2>1, GlueIs
  <2>4. /\ Size(Glue(Glue(x, y), z)) = Size(Glue(x, y)) + Size(z)
        /\ Size(Glue(x, Glue(y, z))) = Size(x) + Size(Glue(y, z))
    BY <2>1, <2>3, GlueIs
  <2>5. Size(x) \in Nat /\ Size(z) \in Nat /\ Size(Glue(x, y)) \in Nat /\ Size(Glue(y, z)) \in Nat
    BY <2>1, <2>3, SizeIs
  <2>. QED  BY <1>2, <2>2, <2>3, <2>4, <2>5 DEF Fit, Bounded
<1>3. ASSUME NEW t \in Cat(Cat(A, B), C) PROVE t \in Cat(A, Cat(B, C))
  <2>1. t \in Fit
    BY <1>1, CatFits, FitsIn
  <2>2. PICK xy \in Cat(A, B), z \in C : t = Glue(xy, z)
    BY <1>1, CatParts
  <2>3. PICK x \in A, y \in B : xy = Glue(x, y)
    BY CatParts
  <2>4. t = Glue(x, Glue(y, z)) /\ Glue(y, z) \in Fit
    BY <1>2, <2>1, <2>2, <2>3
  <2>5. Glue(y, z) \in Cat(B, C)
    BY <2>4, CatIn
  <2>. QED  BY <1>1, <2>1, <2>4, <2>5, CatIn
<1>4. ASSUME NEW t \in Cat(A, Cat(B, C)) PROVE t \in Cat(Cat(A, B), C)
  <2>1. t \in Fit
    BY <1>1, CatFits, FitsIn
  <2>2. PICK x \in A, yz \in Cat(B, C) : t = Glue(x, yz)
    BY <1>1, CatParts
  <2>3. PICK y \in B, z \in C : yz = Glue(y, z)
    BY CatParts
  <2>4. x \in Text /\ y \in Text /\ z \in Text
    BY LangIn
  <2>5. t = Glue(Glue(x, y), z)
    BY <2>2, <2>3, <2>4, GlueAssoc
  <2>6. Glue(x, y) \in Cat(A, B)
    BY <1>2, <2>1, <2>5, CatIn
  <2>. QED  BY <1>1, <2>1, <2>5, <2>6, CatIn
<1>. QED  BY <1>3, <1>4

(* Whether a byte and a text are of a set.                                 *)
LEMMA LeadFits ==
  ASSUME Bounded, NEW b \in Byte, NEW w \in Text
  PROVE  Lead(b, w) \in Fit <=> Size(w) < MaxText
<1>1. Lead(b, w) \in Text /\ Size(Lead(b, w)) = Size(w) + 1 /\ Size(w) \in Nat
  BY LeadIs
<1>. QED  BY <1>1 DEF Fit, Bounded

(* What a text that starts with a byte of a set goes on with.              *)
LEMMA SingleFirst ==
  ASSUME Bounded, NEW b \in Byte, NEW w \in Text, Size(w) < MaxText,
         NEW C, AllBytes(C), NEW B, Lang(B)
  PROVE  Lead(b, w) \in Cat(Single(C), B) <=> b \in C /\ w \in B
<1>1. Lang(Single(C))
  BY LangSingle
<1>2. ASSUME Lead(b, w) \in Cat(Single(C), B) PROVE b \in C /\ w \in B
  <2>1. PICK x \in Single(C), y \in B : Lead(b, w) = Glue(x, y)
    BY <1>1, <1>2, CatParts
  <2>2. PICK c \in C : x = Lead(c, Nil)
    BY SingleIs
  <2>3. y \in Text /\ x \in Text /\ c \in Byte
    BY <1>1, LangIn, BytesIn
  <2>4. x # Nil /\ Size(x) = Size(Nil) + 1 /\ x[1] = c
    BY <2>2, <2>3, NilIs, LeadIs
  <2>5. PICK rest \in Text : x = Lead(b, rest) /\ w = Glue(rest, y)
    BY <2>1, <2>3, <2>4, FirstByte
  <2>6. x[1] = b /\ Size(x) = Size(rest) + 1 /\ Size(rest) \in Nat
    BY <2>5, LeadIs
  <2>7. Size(rest) = 0
    BY <2>4, <2>6, NilIs
  <2>8. w = y
    BY <2>3, <2>5, <2>7, NoSize, GlueNil
  <2>. QED  BY <2>4, <2>6, <2>8
<1>3. ASSUME b \in C, w \in B PROVE Lead(b, w) \in Cat(Single(C), B)
  <2>1. Lead(b, Nil) \in Single(C)
    BY <1>3, SingleIs
  <2>2. Glue(Lead(b, Nil), w) = Lead(b, w)
    <3>1. Lead(b, Glue(Nil, w)) = Glue(Lead(b, Nil), w)
      BY NilIs, LeadGlue
    <3>. QED  BY <3>1, GlueNil
  <2>3. Lead(b, w) \in Fit
    BY LeadFits
  <2>. QED  BY <1>1, <1>3, <2>1, <2>2, <2>3, CatIn
<1>. QED  BY <1>2, <1>3

LEMMA SingleCat ==
  ASSUME Bounded, NEW C, AllBytes(C)
  PROVE  Cat(Single(C), Nothing) = Single(C)
BY LangSingle, CatLast

-----------------------------------------------------------------------------
(* Definitions by recursion on a number.                                   *)

(* A set of numbers that has members has a least one.                      *)
LEMMA Least ==
  ASSUME NEW S, S \subseteq Nat, S # {}
  PROVE  \E x \in S : \A y \in S : x <= y
<1>1. IsWellFoundedOn(OpToRel(<, Nat), Nat)
  BY NatLessThanWellFounded
<1>2. \A m, n \in Nat : m < n => <<m, n>> \in OpToRel(<, Nat)
  BY DEF OpToRel
<1>3. PICK x \in S : \A y \in S : ~ (<<y, x>> \in OpToRel(<, Nat))
  BY <1>1, WFMin, Zenon
<1>4. ASSUME NEW y \in S PROVE x <= y
  <2>1. x \in Nat /\ y \in Nat
    OBVIOUS
  <2>2. ~ (y < x)
    BY <2>1, <1>2, <1>3, Zenon
  <2>. QED  BY <2>1, <2>2
<1>. QED  BY <1>4

(* What holds of 0 and of each number after one of which it holds.         *)
LEMMA Counted ==
  ASSUME NEW n \in Nat, NEW Good, 0 \in Good, \A m \in 1..n : m - 1 \in Good => m \in Good
  PROVE  \A m \in 0..n : m \in Good
<1>. DEFINE Bad == {m \in 0..n : m \notin Good}
<1>1. Bad = {}
  <2>. SUFFICES ASSUME Bad # {} PROVE FALSE
    OBVIOUS
  <2>1. Bad \subseteq Nat
    OBVIOUS
  <2>2. PICK x \in Bad : \A y \in Bad : x <= y
    <3>. HIDE DEF Bad
    <3>. QED  BY <2>1, Least
  <2>3. x \in 1..n /\ x - 1 \in 0..n /\ ~(x <= x - 1)
    BY <2>2
  <2>4. x - 1 \in Good
    BY <2>2, <2>3
  <2>. QED  BY <2>2, <2>3, <2>4
<1>. QED  BY <1>1

LEMMA Agreeing ==
  ASSUME NEW n \in Nat, NEW f, NEW h, f[0] = h[0],
         \A k \in 1..n : f[k - 1] = h[k - 1] => f[k] = h[k]
  PROVE  \A k \in 0..n : f[k] = h[k]
<1>. DEFINE Good == {k \in 0..n : f[k] = h[k]}
<1>1. 0 \in Good /\ \A k \in 1..n : k - 1 \in Good => k \in Good
  OBVIOUS
<1>2. \A k \in 0..n : k \in Good
  <2>. HIDE DEF Good
  <2>. QED  BY <1>1, Counted
<1>. QED  BY <1>2

(* A list can be gone through step by step.                                *)
Steps(base, n, turn, f) ==
  f = [i \in 0..n |-> IF i = 0 THEN base ELSE turn[<<f[i - 1], i>>]]

LEMMA Iterated ==
  ASSUME NEW S, NEW base \in S, NEW n \in Nat, NEW turn \in [S \X (1..n) -> S]
  PROVE  \E f \in [0..n -> S] : Steps(base, n, turn, f)
<1>. DEFINE Keeps(h, m) == h[0] = base /\ \A i \in 1..m : h[i] = turn[<<h[i - 1], i>>]
            Good == {m \in 0..n : \E h \in [0..m -> S] : Keeps(h, m)}
<1>1. 0 \in 0..n /\ n \in 0..n
  OBVIOUS
<1>2. 0 \in Good
  <2>. DEFINE none == [i \in 0..0 |-> base]
  <2>1. none \in [0..0 -> S] /\ none[0] = base
    OBVIOUS
  <2>. HIDE DEF none
  <2>2. Keeps(none, 0)
    BY <2>1
  <2>. HIDE DEF Keeps
  <2>. QED  BY <1>1, <2>1, <2>2
<1>3. ASSUME NEW m \in 1..n, m - 1 \in Good PROVE m \in Good
  <2>1. PICK h \in [0..(m - 1) -> S] : Keeps(h, m - 1)
    BY <1>3
  <2>. DEFINE g == [i \in 0..m |-> IF i = m THEN turn[<<h[m - 1], m>>] ELSE h[i]]
  <2>2. m - 1 \in 0..(m - 1) /\ m \in Nat /\ m # 0 /\ m \in 0..n
    OBVIOUS
  <2>3. turn[<<h[m - 1], m>>] \in S
    <3>1. h[m - 1] \in S
      BY <2>2
    <3>. QED  BY <3>1
  <2>4. g \in [0..m -> S]
    BY <2>3
  <2>5. \A i \in 0..(m - 1) : g[i] = h[i]
    BY <2>2
  <2>6. g[m] = turn[<<h[m - 1], m>>]
    BY <2>2
  <2>. HIDE DEF g
  <2>7. g[0] = base
    <3>1. 0 \in 0..(m - 1)
      BY <2>2
    <3>. QED  BY <2>1, <2>5, <3>1
  <2>8. ASSUME NEW i \in 1..m PROVE g[i] = turn[<<g[i - 1], i>>]
    <3>1. CASE i = m
      BY <2>2, <2>5, <2>6, <3>1
    <3>2. CASE i # m
      <4>1. i \in 1..(m - 1) /\ i \in 0..(m - 1) /\ i - 1 \in 0..(m - 1)
        BY <2>2, <3>2
      <4>2. h[i] = turn[<<h[i - 1], i>>]
        BY <2>1, <4>1
      <4>. QED  BY <2>5, <4>1, <4>2
    <3>. QED  BY <3>1, <3>2
  <2>9. Keeps(g, m)
    BY <2>7, <2>8
  <2>. HIDE DEF Keeps
  <2>. QED  BY <2>2, <2>4, <2>9
<1>4. \A m \in 0..n : m \in Good
  <2>. HIDE DEF Good
  <2>. QED  BY <1>2, <1>3, Counted
<1>5. PICK h \in [0..n -> S] : Keeps(h, n)
  <2>1. n \in Good
    <3>. HIDE DEF Good
    <3>. QED  BY <1>1, <1>4
  <2>. HIDE DEF Keeps
  <2>. QED  BY <2>1
<1>6. \A i \in 0..n : h[i] = IF i = 0 THEN base ELSE turn[<<h[i - 1], i>>]
  <2>. SUFFICES ASSUME NEW i \in 0..n
                PROVE  h[i] = IF i = 0 THEN base ELSE turn[<<h[i - 1], i>>]
    OBVIOUS
  <2>1. i = 0 \/ i \in 1..n
    OBVIOUS
  <2>. QED  BY <1>5, <2>1
<1>7. Steps(base, n, turn, h)
  <2>. HIDE DEF Keeps
  <2>. QED  BY <1>6 DEF Steps
<1>. QED  BY <1>7


(* Sets of texts made one from the other, each by what turn makes of the   *)
(* one before.                                                             *)
LEMMA LangSet == \A A : Lang(A) <=> A \in SUBSET Text
BY DEF Lang

(* Chains, one text longer each.                                           *)
LEMMA ChainIs ==
  ASSUME Bounded, NEW A, Lang(A), NEW B, Lang(B), NEW n \in Nat
  PROVE  /\ Chain(A, B, 0) = B
         /\ Chain(A, B, n + 1) = Cat(A, Chain(A, B, n))
<1>. DEFINE Is(h, m) == h = [k \in 0..m |-> IF k = 0 THEN B ELSE Cat(A, h[k - 1])]
            W(m) == CHOOSE h : Is(h, m)
<1>1. ASSUME NEW m \in Nat PROVE \E h : Is(h, m)
  <2>. DEFINE S == SUBSET Text
              turn == [x \in S \X (1..m) |-> Cat(A, x[1])]
  <2>1. turn \in [S \X (1..m) -> S]
    <3>1. ASSUME NEW x \in S \X (1..m) PROVE Cat(A, x[1]) \in S
      <4>1. x[1] \in S
        OBVIOUS
      <4>2. Lang(x[1])
        BY <4>1, LangSet
      <4>. QED  BY <4>2, CatFits, LangSet
    <3>. QED  BY <3>1
  <2>2. B \in S
    BY LangSet
  <2>3. PICK f \in [0..m -> S] : Steps(B, m, turn, f)
    <3>. HIDE DEF turn, S
    <3>. QED  BY <2>1, <2>2, Iterated
  <2>4. ASSUME NEW k \in 0..m PROVE f[k] = IF k = 0 THEN B ELSE Cat(A, f[k - 1])
    <3>1. f[k] = IF k = 0 THEN B ELSE turn[<<f[k - 1], k>>]
      <4>. HIDE DEF turn, S
      <4>. QED  BY <2>3 DEF Steps
    <3>2. CASE k # 0
      <4>1. k \in 1..m /\ k - 1 \in 0..m
        BY <3>2
      <4>2. <<f[k - 1], k>> \in S \X (1..m)
        BY <4>1
      <4>. QED  BY <3>1, <3>2, <4>2
    <3>. QED  BY <3>1, <3>2
  <2>5. Is(f, m)
    <3>1. f = [k \in 0..m |-> f[k]]
      <4>. HIDE DEF S
      <4>. QED  OBVIOUS
    <3>. HIDE DEF S
    <3>. QED  BY <2>4, <3>1
  <2>. QED  BY <2>5
<1>2. ASSUME NEW m \in Nat PROVE Is(W(m), m) /\ Chain(A, B, m) = W(m)[m]
  <2>1. Is(W(m), m)
    <3>1. \E h : Is(h, m)
      BY <1>1
    <3>. HIDE DEF Is
    <3>. QED  BY <3>1, Zenon
  <2>2. Chain(A, B, m) = W(m)[m]
    BY DEF Chain
  <2>. QED  BY <2>1, <2>2
<1>3. ASSUME NEW m \in Nat, NEW k \in 0..m
      PROVE  W(m)[k] = IF k = 0 THEN B ELSE Cat(A, W(m)[k - 1])
  <2>. HIDE DEF W
  <2>. QED  BY <1>2
<1>4. Chain(A, B, 0) = B
  <2>. HIDE DEF W, Is
  <2>. QED  BY <1>2, <1>3
<1>5. W(n + 1)[n] = W(n)[n]
  <2>. HIDE DEF W, Is
  <2>1. W(n + 1)[0] = W(n)[0] /\ n + 1 \in Nat
    BY <1>3
  <2>2. ASSUME NEW k \in 1..n, W(n + 1)[k - 1] = W(n)[k - 1] PROVE W(n + 1)[k] = W(n)[k]
    BY <1>3, <2>2
  <2>3. \A k \in 0..n : W(n + 1)[k] = W(n)[k]
    BY <2>1, <2>2, Agreeing
  <2>. QED  BY <2>3
<1>6. Chain(A, B, n + 1) = Cat(A, W(n + 1)[n])
  <2>. HIDE DEF W, Is
  <2>1. n + 1 \in Nat /\ n + 1 \in 0..(n + 1) /\ n + 1 # 0 /\ (n + 1) - 1 = n
    OBVIOUS
  <2>. QED  BY <1>2, <1>3, <2>1
<1>. QED
  <2>. HIDE DEF W, Is
  <2>. QED  BY <1>2, <1>4, <1>5, <1>6

LEMMA CatUnionRight ==
  ASSUME Bounded, NEW A, Lang(A), NEW B, Lang(B), NEW C, Lang(C)
  PROVE  Cat(C, A \cup B) = Cat(C, A) \cup Cat(C, B)
<1>1. Lang(A \cup B)
  BY LangUnion
<1>2. ASSUME NEW t, t \in Cat(C, A \cup B) PROVE t \in Cat(C, A) \/ t \in Cat(C, B)
  <2>1. PICK x \in C, y \in A \cup B : t = Glue(x, y)
    BY <1>1, <1>2, CatParts
  <2>2. t \in Fit
    BY <1>1, <1>2, CatFits, FitsIn
  <2>. QED  BY <2>1, <2>2, CatIn
<1>3. ASSUME NEW t, t \in Cat(C, A) PROVE t \in Cat(C, A \cup B)
  <2>1. PICK x \in C, y \in A : t = Glue(x, y)
    BY <1>3, CatParts
  <2>2. t \in Fit /\ y \in A \cup B
    BY <1>3, CatFits, FitsIn
  <2>. QED  BY <1>1, <2>1, <2>2, CatIn
<1>4. ASSUME NEW t, t \in Cat(C, B) PROVE t \in Cat(C, A \cup B)
  <2>1. PICK x \in C, y \in B : t = Glue(x, y)
    BY <1>4, CatParts
  <2>2. t \in Fit /\ y \in A \cup B
    BY <1>4, CatFits, FitsIn
  <2>. QED  BY <1>1, <2>1, <2>2, CatIn
<1>. QED  BY <1>2, <1>3, <1>4

(* Put together, texts are empty only if both are.                         *)
LEMMA CatNil ==
  ASSUME Bounded, NEW A, Lang(A), NEW B, Lang(B)
  PROVE  Nil \in Cat(A, B) <=> Nil \in A /\ Nil \in B
<1>1. ASSUME Nil \in Cat(A, B) PROVE Nil \in A /\ Nil \in B
  <2>1. PICK x \in A, y \in B : Nil = Glue(x, y)
    BY <1>1, CatParts
  <2>2. x \in Text /\ y \in Text
    BY LangIn
  <2>3. Size(x) \in Nat /\ Size(y) \in Nat /\ Size(Nil) = Size(x) + Size(y)
    BY <2>1, <2>2, GlueIs
  <2>4. Size(x) = 0 /\ Size(y) = 0
    BY <2>3, NilIs
  <2>. QED  BY <2>2, <2>4, NoSize
<1>2. ASSUME Nil \in A, Nil \in B PROVE Nil \in Cat(A, B)
  <2>1. Glue(Nil, Nil) = Nil /\ Nil \in Fit
    BY NilIs, GlueNil, NothingFits, LangNothing, FitsIn
  <2>. QED  BY <1>2, <2>1, CatIn
<1>. QED  BY <1>1, <1>2

LEMMA SingleNil ==
  ASSUME NEW C, AllBytes(C)
  PROVE  Nil \notin Single(C)
<1>1. ASSUME Nil \in Single(C) PROVE FALSE
  <2>1. PICK c \in C : Nil = Lead(c, Nil)
    BY <1>1, SingleIs
  <2>. QED  BY <2>1, BytesIn, NilIs, LeadIs
<1>. QED  BY <1>1

-----------------------------------------------------------------------------
(* Repetitions.                                                            *)

LEMMA ChainLang ==
  ASSUME Bounded, NEW A, Lang(A), NEW B, Lang(B), NEW n \in Nat
  PROVE  Lang(Chain(A, B, n))
<1>. DEFINE Good == {k \in 0..n : Lang(Chain(A, B, k))}
<1>1. 0 \in Good
  BY ChainIs
<1>2. ASSUME NEW m \in 1..n, m - 1 \in Good PROVE m \in Good
  <2>1. m - 1 \in Nat /\ (m - 1) + 1 = m /\ Lang(Chain(A, B, m - 1))
    BY <1>2
  <2>2. Chain(A, B, m) = Cat(A, Chain(A, B, m - 1))
    BY <2>1, ChainIs
  <2>3. Lang(Chain(A, B, m))
    BY <2>1, <2>2, CatFits
  <2>. QED  BY <2>3
<1>3. \A k \in 0..n : k \in Good
  <2>. HIDE DEF Good
  <2>. QED  BY <1>1, <1>2, Counted
<1>. QED  BY <1>3

LEMMA ChainSize ==
  ASSUME Bounded, NEW A, Lang(A), NEW B, Lang(B), Nil \notin A, NEW n \in Nat
  PROVE  \A t \in Chain(A, B, n) : t \in Text /\ Size(t) \in Nat /\ Size(t) >= n
<1>. DEFINE Good == {k \in 0..n : \A t \in Chain(A, B, k) : Size(t) >= k}
<1>1. 0 \in Good
  <2>1. ASSUME NEW t \in Chain(A, B, 0) PROVE Size(t) >= 0
    <3>1. t \in Text
      BY ChainIs, LangIn
    <3>. QED  BY <3>1, SizeIs
  <2>. QED  BY <2>1
<1>2. ASSUME NEW m \in 1..n, m - 1 \in Good PROVE m \in Good
  <2>1. m - 1 \in Nat /\ (m - 1) + 1 = m
    OBVIOUS
  <2>2. Chain(A, B, m) = Cat(A, Chain(A, B, m - 1)) /\ Lang(Chain(A, B, m - 1))
    BY <2>1, ChainIs, ChainLang
  <2>3. ASSUME NEW t \in Chain(A, B, m) PROVE Size(t) >= m
    <3>1. PICK x \in A, y \in Chain(A, B, m - 1) : t = Glue(x, y)
      BY <2>2, CatParts
    <3>2. x \in Text /\ y \in Text
      BY <2>2, LangIn
    <3>3. Size(t) = Size(x) + Size(y) /\ Size(x) \in Nat /\ Size(y) \in Nat
      BY <3>1, <3>2, GlueIs
    <3>4. Size(x) # 0
      BY <3>2, NoSize
    <3>5. Size(y) >= m - 1
      BY <1>2
    <3>. QED  BY <2>1, <3>3, <3>4, <3>5
  <2>. QED  BY <2>3
<1>3. \A k \in 0..n : k \in Good
  <2>. HIDE DEF Good
  <2>. QED  BY <1>1, <1>2, Counted
<1>4. ASSUME NEW t \in Chain(A, B, n) PROVE t \in Text /\ Size(t) \in Nat
  BY ChainLang, LangIn, SizeIs
<1>. QED  BY <1>3, <1>4

LEMMA ManyOf ==
  ASSUME NEW A, NEW B, NEW n, NEW t
  PROVE  t \in Many(A, B, n) <=> Size(t) <= MaxText /\ \E k \in 0..n : t \in Chain(A, B, k)
BY UpToIs DEF Many

LEMMA ManyFits ==
  ASSUME Bounded, NEW A, Lang(A), NEW B, Lang(B), NEW n
  PROVE  Fits(Many(A, B, n)) /\ Lang(Many(A, B, n))
<1>1. ASSUME NEW t \in Many(A, B, n) PROVE t \in Fit
  <2>1. PICK k \in 0..n : t \in Chain(A, B, k)
    BY ManyOf
  <2>2. t \in Text
    BY <2>1, ChainLang, LangIn
  <2>. QED  BY <2>2, ManyOf DEF Fit
<1>2. Fits(Many(A, B, n))
  BY <1>1 DEF Fits
<1>. QED  BY <1>2, LangFit

(* Any number of texts of one set, and then one of another.                *)
LEMMA ManyIs ==
  ASSUME Bounded, NEW A, Lang(A), Nil \notin A, NEW B, Fits(B)
  PROVE  Many(A, B, MaxText) = B \cup Cat(A, Many(A, B, MaxText))
<1>0. Lang(B) /\ Lang(Many(A, B, MaxText)) /\ MaxText \in Nat
  BY LangFit, ManyFits DEF Bounded
<1>1. ASSUME NEW t \in Many(A, B, MaxText) PROVE t \in B \/ t \in Cat(A, Many(A, B, MaxText))
  <2>1. PICK k \in 0..MaxText : t \in Chain(A, B, k)
    BY ManyOf
  <2>2. CASE k = 0
    BY <1>0, <2>1, <2>2, ChainIs
  <2>3. CASE k # 0
    <3>1. k - 1 \in Nat /\ (k - 1) + 1 = k /\ k - 1 \in 0..MaxText
      BY <1>0, <2>3
    <3>. DEFINE n == k - 1
    <3>0. Chain(A, B, k) = Cat(A, Chain(A, B, k - 1)) /\ Lang(Chain(A, B, k - 1))
      <4>1. n \in Nat /\ n + 1 = k
        BY <3>1
      <4>. HIDE DEF n
      <4>2. Chain(A, B, k) = Cat(A, Chain(A, B, n)) /\ Lang(Chain(A, B, n))
        BY <1>0, <4>1, ChainIs, ChainLang
      <4>. QED  BY <4>2 DEF n
    <3>2. t \in Cat(A, Chain(A, B, k - 1)) /\ Lang(Chain(A, B, k - 1))
      BY <2>1, <3>0
    <3>3. PICK x \in A, y \in Chain(A, B, k - 1) : t = Glue(x, y)
      BY <3>2, CatParts
    <3>4. t \in Fit
      BY <1>0, ManyFits, FitsIn
    <3>5. x \in Text /\ y \in Text
      BY <3>2, LangIn
    <3>6. Size(t) = Size(x) + Size(y) /\ Size(x) \in Nat /\ Size(y) \in Nat /\ Size(t) <= MaxText
      BY <3>3, <3>4, <3>5, GlueIs DEF Fit
    <3>7. y \in Many(A, B, MaxText)
      BY <1>0, <3>1, <3>6, ManyOf
    <3>. QED  BY <1>0, <3>3, <3>4, <3>7, CatIn
  <2>. QED  BY <2>2, <2>3
<1>2. ASSUME NEW t \in B PROVE t \in Many(A, B, MaxText)
  <2>1. t \in Chain(A, B, 0) /\ 0 \in 0..MaxText
    BY <1>0, ChainIs
  <2>2. Size(t) <= MaxText
    BY FitsIn DEF Fit
  <2>. QED  BY <2>1, <2>2, ManyOf
<1>3. ASSUME NEW t \in Cat(A, Many(A, B, MaxText)) PROVE t \in Many(A, B, MaxText)
  <2>1. PICK x \in A, y \in Many(A, B, MaxText) : t = Glue(x, y)
    BY <1>0, CatParts
  <2>2. PICK k \in 0..MaxText : y \in Chain(A, B, k)
    BY ManyOf
  <2>3. t \in Fit
    BY <1>0, CatFits, FitsIn
  <2>4. t \in Chain(A, B, k + 1)
    <3>0. k \in Nat
      BY <1>0
    <3>1. Lang(Chain(A, B, k)) /\ Chain(A, B, k + 1) = Cat(A, Chain(A, B, k))
      BY <1>0, <3>0, ChainIs, ChainLang
    <3>. QED  BY <2>1, <2>2, <2>3, <3>1, CatIn
  <2>5. Size(t) >= k + 1 /\ Size(t) \in Nat /\ Size(t) <= MaxText
    BY <1>0, <2>3, <2>4, ChainSize DEF Fit
  <2>6. k + 1 \in 0..MaxText
    BY <1>0, <2>5
  <2>. QED  BY <2>4, <2>5, <2>6, ManyOf
<1>. QED  BY <1>1, <1>2, <1>3

LEMMA ManyNil ==
  ASSUME Bounded, NEW A, Lang(A), Nil \notin A, NEW B, Fits(B)
  PROVE  Nil \in Many(A, B, MaxText) <=> Nil \in B
<1>1. Lang(B) /\ Lang(Many(A, B, MaxText))
  BY LangFit, ManyFits
<1>. QED  BY <1>1, ManyIs, CatNil

-----------------------------------------------------------------------------
(* The bytes that the grammars are spelled in.                             *)

LEMMA Signs ==
  /\ AllBytes(Digit) /\ AllBytes(Escapes) /\ AllBytes({"0"}) /\ AllBytes(Digit \ {"0"})
  /\ AllBytes({"'"}) /\ AllBytes({"\\"}) /\ AllBytes({"e"}) /\ AllBytes({"."})
  /\ AllBytes({"-"}) /\ AllBytes({","}) /\ AllBytes({":"}) /\ AllBytes({"["})
  /\ AllBytes({"]"}) /\ AllBytes({"{"}) /\ AllBytes({"}"}) /\ AllBytes({"0"})
BY DEF Byte, Digit, Escapes, Marks, AllBytes

(* A byte of some, and then any text of a set.                             *)
LEMMA Led ==
  ASSUME Bounded, NEW C, AllBytes(C), NEW B, Lang(B)
  PROVE  /\ Lang(Cat(Single(C), B)) /\ Fits(Cat(Single(C), B))
         /\ Nil \notin Cat(Single(C), B)
         /\ Lang(Single(C)) /\ Fits(Single(C)) /\ Nil \notin Single(C)
BY LangSingle, SingleNil, CatFits, CatNil

LEMMA FitUnion ==
  ASSUME NEW A, NEW B, Fits(A), Fits(B)
  PROVE  Fits(A \cup B) /\ Lang(A \cup B) /\ Lang(A) /\ Lang(B)
BY DEF Lang, Fits, Fit

-----------------------------------------------------------------------------
(* One byte of texts that are put together.                                *)

(* A byte, a text behind it, and a set that what came before goes on with. *)
Reading(b, w, S) ==
  Bounded /\ b \in Byte /\ w \in Text /\ Size(w) < MaxText /\ Fits(S)

LEMMA ReadOr ==
  ASSUME NEW b, NEW w, NEW S, Reading(b, w, S), NEW A, Fits(A), NEW B, Fits(B)
  PROVE  Lead(b, w) \in Cat(A \cup B, S) <=> Lead(b, w) \in Cat(A, S) \/ Lead(b, w) \in Cat(B, S)
<1>1. Cat(A \cup B, S) = Cat(A, S) \cup Cat(B, S)
  BY LangFit, CatUnion DEF Reading
<1>. QED  BY <1>1

LEMMA ReadNothing ==
  ASSUME NEW b, NEW w, NEW S, Reading(b, w, S)
  PROVE  Lead(b, w) \in Cat(Nothing, S) <=> Lead(b, w) \in S
<1>1. Cat(Nothing, S) = S
  BY CatNothing DEF Reading
<1>. QED  BY <1>1

LEMMA ReadNone ==
  ASSUME NEW b, NEW w, NEW S, Reading(b, w, S)
  PROVE  Lead(b, w) \notin Cat({}, S)
<1>1. Cat({}, S) = {}
  BY CatEmpty, LangFit DEF Reading
<1>. QED  BY <1>1

LEMMA ReadLed ==
  ASSUME NEW b, NEW w, NEW S, Reading(b, w, S), NEW C, AllBytes(C), NEW B, Fits(B)
  PROVE  Lead(b, w) \in Cat(Cat(Single(C), B), S) <=> b \in C /\ w \in Cat(B, S)
<1>1. Lang(B) /\ Lang(S) /\ Lang(Single(C)) /\ Bounded
  BY LangFit, LangSingle DEF Reading
<1>2. Cat(Cat(Single(C), B), S) = Cat(Single(C), Cat(B, S)) /\ Lang(Cat(B, S))
  BY <1>1, CatAssoc, CatFits
<1>. QED  BY <1>2, SingleFirst DEF Reading

LEMMA ReadSingle ==
  ASSUME NEW b, NEW w, NEW S, Reading(b, w, S), NEW C, AllBytes(C)
  PROVE  Lead(b, w) \in Cat(Single(C), S) <=> b \in C /\ w \in S
BY LangFit, SingleFirst DEF Reading

(* What may start with a byte of some, or be left out.                     *)
LEMMA OrLed ==
  ASSUME Bounded, NEW A, Fits(A), NEW C, AllBytes(C), NEW B, Fits(B),
         NEW X, X = A \cup Cat(Single(C), B)
  PROVE  Fits(X) /\ (Nil \in X <=> Nil \in A)
<1>1. Fits(Cat(Single(C), B)) /\ Nil \notin Cat(Single(C), B)
  BY Led, LangFit
<1>2. Fits(A \cup Cat(Single(C), B))
  BY <1>1, FitUnion
<1>. QED  BY <1>1, <1>2

-----------------------------------------------------------------------------
(* Numbers, from each phase on.                                            *)

NumberRest(integer, at) ==
  CASE at = 0 -> Maybe({"-"}, Unsigned(integer))
    [] at = 1 -> Unsigned(integer)
    [] at = 2 -> Digits(Decimals(integer))
    [] at = 3 -> Decimals(integer)
    [] at = 4 -> Integral(Exponent(FALSE))
    [] at = 5 -> Digits(Exponent(FALSE))
    [] at = 6 -> Maybe({"-"}, Integral(Nothing))
    [] at = 7 -> Integral(Nothing)
    [] at = 8 -> Digits(Nothing)

LEMMA DigitsIs ==
  ASSUME Bounded, NEW B, Fits(B)
  PROVE  /\ Digits(B) = B \cup Cat(Single(Digit), Digits(B))
         /\ Fits(Digits(B)) /\ (Nil \in Digits(B) <=> Nil \in B)
<1>1. Lang(Single(Digit)) /\ Nil \notin Single(Digit)
  BY Signs, LangSingle, SingleNil
<1>2. Digits(B) = B \cup Cat(Single(Digit), Digits(B))
  BY <1>1, ManyIs DEF Digits
<1>3. Fits(Digits(B)) /\ (Nil \in Digits(B) <=> Nil \in B)
  BY <1>1, LangFit, ManyFits, ManyNil DEF Digits
<1>. QED  BY <1>2, <1>3

(* What each phase goes on with, by the next byte.                         *)
NumberParts(integer) ==
  LET N(at) == NumberRest(integer, at)
      Led1(C, at) == Cat(Single(C), N(at))
  IN  /\ N(0) = N(1) \cup Led1({"-"}, 1)
      /\ N(1) = Led1({"0"}, 3) \cup Led1(Digit \ {"0"}, 2)
      /\ N(2) = N(3) \cup Led1(Digit, 2)
      /\ integer => N(3) = Nothing
      /\ ~integer => /\ N(3) = (Nothing \cup Led1({"e"}, 6)) \cup Led1({"."}, 4)
                     /\ N(4) = Led1(Digit, 5)
                     /\ N(5) = (Nothing \cup Led1({"e"}, 6)) \cup Led1(Digit, 5)
      /\ N(6) = N(7) \cup Led1({"-"}, 7)
      /\ N(7) = Led1(Digit, 8)
      /\ N(8) = Nothing \cup Led1(Digit, 8)
      /\ \A at \in 0..8 : Fits(N(at)) /\ Lang(N(at)) /\ (Nil \in N(at) <=> NumberCanStop(at))

LEMMA NumberIs ==
  ASSUME Bounded, NEW integer \in BOOLEAN
  PROVE  NumberParts(integer)
<1>. DEFINE N(at) == NumberRest(integer, at)
            Led1(C, at) == Cat(Single(C), N(at))
<1>0. Nothing = {<<>>} /\ Fits(Nothing) /\ Nil \in Nothing
  BY NothingFits, LangNothing DEF Nothing, Nil
<1>1. /\ N(0) = Maybe({"-"}, Unsigned(integer)) /\ N(1) = Unsigned(integer)
      /\ N(2) = Digits(Decimals(integer)) /\ N(3) = Decimals(integer)
      /\ N(4) = Integral(Exponent(FALSE)) /\ N(5) = Digits(Exponent(FALSE))
      /\ N(6) = Maybe({"-"}, Integral(Nothing)) /\ N(7) = Integral(Nothing)
      /\ N(8) = Digits(Nothing)
  BY DEF NumberRest
<1>. HIDE DEF N
<1>8. /\ N(8) = Nothing \cup Cat(Single(Digit), N(8)) /\ Fits(N(8)) /\ Nil \in N(8)
  BY <1>0, <1>1, DigitsIs
<1>7. N(7) = Cat(Single(Digit), N(8)) /\ Fits(N(7)) /\ Nil \notin N(7)
  <2>1. N(7) = Cat(Single(Digit), N(8))
    BY <1>1 DEF Integral
  <2>. QED  BY <1>8, <2>1, Led, Signs, LangFit
<1>6. N(6) = N(7) \cup Cat(Single({"-"}), N(7)) /\ Fits(N(6)) /\ Nil \notin N(6)
  <2>1. N(6) = N(7) \cup Cat(Single({"-"}), N(7))
    BY <1>1 DEF Maybe
  <2>2. Fits(N(6)) /\ (Nil \in N(6) <=> Nil \in N(7))
    <3>. DEFINE Minus == {"-"}
    <3>1. AllBytes(Minus) /\ N(6) = N(7) \cup Cat(Single(Minus), N(7))
      BY <2>1, Signs
    <3>. HIDE DEF Minus
    <3>. QED  BY <1>7, <3>1, OrLed
  <2>. QED  BY <1>7, <2>1, <2>2
<1>9. /\ Exponent(FALSE) = Nothing \cup Cat(Single({"e"}), N(6)) /\ Exponent(TRUE) = Nothing
      /\ Fits(Exponent(FALSE)) /\ Nil \in Exponent(FALSE)
  <2>1. Exponent(FALSE) = Nothing \cup Cat(Single({"e"}), N(6)) /\ Exponent(TRUE) = Nothing
    BY <1>0, <1>1 DEF Exponent
  <2>2. Fits(Exponent(FALSE)) /\ Nil \in Exponent(FALSE)
    <3>. DEFINE Es == {"e"}
                X == Exponent(FALSE)
    <3>1. AllBytes(Es) /\ X = Nothing \cup Cat(Single(Es), N(6))
      BY <2>1, Signs
    <3>2. Fits(N(6)) /\ Fits(Nothing) /\ Nil \in Nothing
      BY <1>0, <1>6
    <3>. HIDE DEF Es, X
    <3>3. Fits(X) /\ (Nil \in X <=> Nil \in Nothing)
      BY <1>0, <3>1, <3>2, OrLed
    <3>4. Fits(X) /\ Nil \in X
      BY <3>2, <3>3
    <3>. QED  BY <3>4 DEF X
  <2>. QED  BY <2>1, <2>2
<1>5. /\ N(5) = Exponent(FALSE) \cup Cat(Single(Digit), N(5)) /\ Fits(N(5)) /\ Nil \in N(5)
  <2>. DEFINE E == Exponent(FALSE)
  <2>1. Fits(E) /\ Nil \in E /\ N(5) = Digits(E)
    BY <1>1, <1>9
  <2>. HIDE DEF E
  <2>2. N(5) = E \cup Cat(Single(Digit), N(5)) /\ Fits(N(5)) /\ Nil \in N(5)
    BY <2>1, DigitsIs
  <2>. QED  BY <2>2 DEF E
<1>4. N(4) = Cat(Single(Digit), N(5)) /\ Fits(N(4)) /\ Nil \notin N(4)
  <2>1. N(4) = Cat(Single(Digit), N(5))
    BY <1>1 DEF Integral
  <2>. QED  BY <1>5, <2>1, Led, Signs, LangFit
<1>3. /\ integer => N(3) = Nothing
      /\ ~integer => N(3) = Exponent(FALSE) \cup Cat(Single({"."}), N(4))
      /\ Fits(N(3)) /\ Nil \in N(3)
  <2>1. CASE integer = TRUE
    <3>1. N(3) = Exponent(TRUE)
      BY <1>1, <2>1 DEF Decimals
    <3>. QED  BY <1>0, <1>9, <2>1, <3>1
  <2>2. CASE integer = FALSE
    <3>1. N(3) = Exponent(FALSE) \cup Cat(Single({"."}), N(4))
      BY <1>1, <2>2 DEF Decimals
    <3>2. Fits(N(3)) /\ Nil \in N(3)
      <4>. DEFINE Dot == {"."}
                  E == Exponent(FALSE)
      <4>1. AllBytes(Dot) /\ N(3) = E \cup Cat(Single(Dot), N(4)) /\ Fits(E) /\ Nil \in E
        BY <1>9, <3>1, Signs
      <4>. HIDE DEF Dot, E
      <4>. QED  BY <1>4, <4>1, OrLed
    <3>. QED  BY <2>2, <3>1, <3>2
  <2>. QED  BY <2>1, <2>2
<1>2. N(2) = N(3) \cup Cat(Single(Digit), N(2)) /\ Fits(N(2)) /\ Nil \in N(2)
  BY <1>1, <1>3, DigitsIs
<1>11. /\ N(1) = Cat(Single({"0"}), N(3)) \cup Cat(Single(Digit \ {"0"}), N(2))
       /\ Fits(N(1)) /\ Nil \notin N(1)
  <2>1. N(1) = Cat(Single({"0"}), N(3)) \cup Cat(Single(Digit \ {"0"}), N(2))
    BY <1>1 DEF Unsigned
  <2>2. Fits(Cat(Single({"0"}), N(3))) /\ Nil \notin Cat(Single({"0"}), N(3))
    BY <1>3, Led, Signs, LangFit
  <2>3. Fits(N(1)) /\ (Nil \in N(1) <=> Nil \in Cat(Single({"0"}), N(3)))
    BY <1>2, <2>1, <2>2, OrLed, Signs
  <2>. QED  BY <2>1, <2>2, <2>3
<1>10. /\ N(0) = N(1) \cup Cat(Single({"-"}), N(1)) /\ Fits(N(0)) /\ Nil \notin N(0)
  <2>1. N(0) = N(1) \cup Cat(Single({"-"}), N(1))
    BY <1>1 DEF Maybe
  <2>2. Fits(N(0)) /\ (Nil \in N(0) <=> Nil \in N(1))
    BY <1>11, <2>1, OrLed, Signs
  <2>. QED  BY <1>11, <2>1, <2>2
<1>12. ASSUME NEW at \in 0..8
       PROVE  Fits(N(at)) /\ Lang(N(at)) /\ (Nil \in N(at) <=> NumberCanStop(at))
  <2>1. at = 0 \/ at = 1 \/ at = 2 \/ at = 3 \/ at = 4 \/ at = 5 \/ at = 6 \/ at = 7 \/ at = 8
    OBVIOUS
  <2>2. Fits(N(at))
    BY <2>1, <1>10, <1>11, <1>2, <1>3, <1>4, <1>5, <1>6, <1>7, <1>8
  <2>3. Nil \in N(at) <=> NumberCanStop(at)
    BY <2>1, <1>10, <1>11, <1>2, <1>3, <1>4, <1>5, <1>6, <1>7, <1>8 DEF NumberCanStop
  <2>. QED  BY <2>2, <2>3, LangFit
<1>13. /\ ~integer => N(3) = (Nothing \cup Cat(Single({"e"}), N(6))) \cup Cat(Single({"."}), N(4))
       /\ N(5) = (Nothing \cup Cat(Single({"e"}), N(6))) \cup Cat(Single(Digit), N(5))
  BY <1>3, <1>5, <1>9
<1>. HIDE DEF Led1
<1>14. \A C, at : Led1(C, at) = Cat(Single(C), N(at))
  BY DEF Led1
<1>. QED  BY <1>2, <1>3, <1>4, <1>6, <1>7, <1>8, <1>10, <1>11, <1>12, <1>13 DEF NumberParts, N

(* What a byte leads to from each phase of a number.                       *)
Here(b, w, S, A) == Lead(b, w) \in Cat(A, S)
There(w, S, integer, k) == w \in Cat(NumberRest(integer, k), S)

NumberRows(b, w, S, integer) ==
  LET At(k) == Here(b, w, S, NumberRest(integer, k))
      Go(C, k) == b \in C /\ There(w, S, integer, k)
      After1 == Lead(b, w) \in S
  IN  /\ At(0) <=> At(1) \/ Go({"-"}, 1)
      /\ At(1) <=> Go({"0"}, 3) \/ Go(Digit \ {"0"}, 2)
      /\ At(2) <=> At(3) \/ Go(Digit, 2)
      /\ integer => (At(3) <=> After1)
      /\ ~integer => /\ At(3) <=> (After1 \/ Go({"e"}, 6)) \/ Go({"."}, 4)
                     /\ At(4) <=> Go(Digit, 5)
                     /\ At(5) <=> (After1 \/ Go({"e"}, 6)) \/ Go(Digit, 5)
      /\ At(6) <=> At(7) \/ Go({"-"}, 7)
      /\ At(7) <=> Go(Digit, 8)
      /\ At(8) <=> After1 \/ Go(Digit, 8)

LEMMA HereOr ==
  ASSUME NEW b, NEW w, NEW S, Reading(b, w, S), NEW A, Fits(A), NEW B, Fits(B)
  PROVE  Here(b, w, S, A \cup B) <=> Here(b, w, S, A) \/ Here(b, w, S, B)
BY ReadOr DEF Here

LEMMA HereLed ==
  ASSUME NEW b, NEW w, NEW S, Reading(b, w, S), NEW integer, NEW C, AllBytes(C), NEW k,
         Fits(NumberRest(integer, k))
  PROVE  /\ Fits(Cat(Single(C), NumberRest(integer, k)))
         /\ Here(b, w, S, Cat(Single(C), NumberRest(integer, k))) <=> b \in C /\ There(w, S, integer, k)
<1>1. Fits(Cat(Single(C), NumberRest(integer, k)))
  BY Led, LangFit DEF Reading
<1>. QED  BY <1>1, ReadLed DEF Here, There

LEMMA NumberRowsAre ==
  ASSUME NEW b, NEW w, NEW S, Reading(b, w, S), NEW integer \in BOOLEAN
  PROVE  NumberRows(b, w, S, integer)
<1>. DEFINE N(k) == NumberRest(integer, k)
            H(A) == Here(b, w, S, A)
            Go(C, k) == b \in C /\ There(w, S, integer, k)
            J(C, k) == Cat(Single(C), N(k))
<1>0. Bounded
  BY DEF Reading
<1>1. NumberParts(integer)
  BY <1>0, NumberIs
<1>2. /\ Fits(N(0)) /\ Fits(N(1)) /\ Fits(N(2)) /\ Fits(N(3)) /\ Fits(N(4)) /\ Fits(N(5))
      /\ Fits(N(6)) /\ Fits(N(7)) /\ Fits(N(8))
  BY <1>1 DEF NumberParts
<1>3. ASSUME NEW C, AllBytes(C), NEW k, Fits(N(k)) PROVE Fits(J(C, k)) /\ (H(J(C, k)) <=> Go(C, k))
  BY <1>3, HereLed
<1>4. ASSUME NEW A, Fits(A), NEW B, Fits(B) PROVE H(A \cup B) <=> H(A) \/ H(B)
  BY <1>4, HereOr
<1>5. (H(Nothing) <=> Lead(b, w) \in S) /\ Fits(Nothing)
  BY <1>0, ReadNothing, NothingFits DEF Here
<1>6. /\ N(0) = N(1) \cup J({"-"}, 1) /\ N(1) = J({"0"}, 3) \cup J(Digit \ {"0"}, 2)
      /\ N(2) = N(3) \cup J(Digit, 2) /\ (integer => N(3) = Nothing)
      /\ ~integer => /\ N(3) = (Nothing \cup J({"e"}, 6)) \cup J({"."}, 4)
                     /\ N(4) = J(Digit, 5)
                     /\ N(5) = (Nothing \cup J({"e"}, 6)) \cup J(Digit, 5)
      /\ N(6) = N(7) \cup J({"-"}, 7) /\ N(7) = J(Digit, 8) /\ N(8) = Nothing \cup J(Digit, 8)
  BY <1>1 DEF NumberParts
<1>. HIDE DEF N, H, J, Go
<1>7. /\ Fits(J({"-"}, 1)) /\ Fits(J({"0"}, 3)) /\ Fits(J(Digit \ {"0"}, 2)) /\ Fits(J(Digit, 2))
      /\ Fits(J({"e"}, 6)) /\ Fits(J({"."}, 4)) /\ Fits(J(Digit, 5)) /\ Fits(J({"-"}, 7)) /\ Fits(J(Digit, 8))
  BY <1>2, <1>3, Signs
<1>8. /\ H(J({"-"}, 1)) <=> Go({"-"}, 1)
      /\ H(J({"0"}, 3)) <=> Go({"0"}, 3)
      /\ H(J(Digit \ {"0"}, 2)) <=> Go(Digit \ {"0"}, 2)
      /\ H(J(Digit, 2)) <=> Go(Digit, 2)
      /\ H(J({"e"}, 6)) <=> Go({"e"}, 6)
      /\ H(J({"."}, 4)) <=> Go({"."}, 4)
      /\ H(J(Digit, 5)) <=> Go(Digit, 5)
      /\ H(J({"-"}, 7)) <=> Go({"-"}, 7)
      /\ H(J(Digit, 8)) <=> Go(Digit, 8)
  BY <1>2, <1>3, Signs
<1>9. Fits(Nothing \cup J({"e"}, 6)) /\ (H(Nothing \cup J({"e"}, 6)) <=> Lead(b, w) \in S \/ Go({"e"}, 6))
  BY <1>4, <1>5, <1>7, <1>8, FitUnion
<1>10. H(N(0)) <=> H(N(1)) \/ Go({"-"}, 1)
  BY <1>2, <1>4, <1>6, <1>7, <1>8
<1>11. H(N(1)) <=> Go({"0"}, 3) \/ Go(Digit \ {"0"}, 2)
  <2>. DEFINE X == J({"0"}, 3)
              Y == J(Digit \ {"0"}, 2)
  <2>1. Fits(X) /\ Fits(Y)
    BY <1>7
  <2>2. (H(X) <=> Go({"0"}, 3)) /\ (H(Y) <=> Go(Digit \ {"0"}, 2)) /\ N(1) = X \cup Y
    BY <1>6, <1>8
  <2>. HIDE DEF X, Y
  <2>3. H(X \cup Y) <=> H(X) \/ H(Y)
    BY <1>4, <2>1
  <2>. QED  BY <2>2, <2>3
<1>12. H(N(2)) <=> H(N(3)) \/ Go(Digit, 2)
  BY <1>2, <1>4, <1>6, <1>7, <1>8
<1>13. integer => (H(N(3)) <=> Lead(b, w) \in S)
  BY <1>5, <1>6
<1>14. ~integer => (H(N(3)) <=> (Lead(b, w) \in S \/ Go({"e"}, 6)) \/ Go({"."}, 4))
  BY <1>4, <1>6, <1>7, <1>8, <1>9
<1>15. ~integer => (H(N(4)) <=> Go(Digit, 5))
  BY <1>6, <1>8
<1>16. ~integer => (H(N(5)) <=> (Lead(b, w) \in S \/ Go({"e"}, 6)) \/ Go(Digit, 5))
  BY <1>4, <1>6, <1>7, <1>8, <1>9
<1>17. H(N(6)) <=> H(N(7)) \/ Go({"-"}, 7)
  BY <1>2, <1>4, <1>6, <1>7, <1>8
<1>18. H(N(7)) <=> Go(Digit, 8)
  BY <1>6, <1>8
<1>19. H(N(8)) <=> Lead(b, w) \in S \/ Go(Digit, 8)
  BY <1>4, <1>5, <1>6, <1>7, <1>8
<1>. QED  BY <1>10, <1>11, <1>12, <1>13, <1>14, <1>15, <1>16, <1>17, <1>18, <1>19 DEF NumberRows, N, H, Go

(* A byte of a number leads to a phase that goes on with what is left, or  *)
(* the number may stop before it.                                          *)
LEMMA NumberReads ==
  ASSUME NEW b, NEW w, NEW S, Reading(b, w, S), NEW integer \in BOOLEAN,
         NEW at \in 0..8, integer => at <= 3
  PROVE  Here(b, w, S, NumberRest(integer, at))
           <=> \/ \E k \in NumberPhase(at, b, integer) : There(w, S, integer, k)
               \/ NumberCanStop(at) /\ Lead(b, w) \in S
<1>. DEFINE At(k) == Here(b, w, S, NumberRest(integer, k))
            Go(C, k) == b \in C /\ There(w, S, integer, k)
<1>1. NumberRows(b, w, S, integer)
  BY NumberRowsAre
<1>2. /\ At(0) <=> At(1) \/ Go({"-"}, 1)
      /\ At(1) <=> Go({"0"}, 3) \/ Go(Digit \ {"0"}, 2)
      /\ At(2) <=> At(3) \/ Go(Digit, 2)
  BY <1>1, Zenon DEF NumberRows
<1>3. /\ integer => (At(3) <=> Lead(b, w) \in S)
      /\ ~integer => /\ At(3) <=> (Lead(b, w) \in S \/ Go({"e"}, 6)) \/ Go({"."}, 4)
                     /\ At(4) <=> Go(Digit, 5)
                     /\ At(5) <=> (Lead(b, w) \in S \/ Go({"e"}, 6)) \/ Go(Digit, 5)
  BY <1>1, Zenon DEF NumberRows
<1>4. /\ At(6) <=> At(7) \/ Go({"-"}, 7)
      /\ At(7) <=> Go(Digit, 8)
      /\ At(8) <=> Lead(b, w) \in S \/ Go(Digit, 8)
  BY <1>1, Zenon DEF NumberRows
<1>. DEFINE Then == \E k \in NumberPhase(at, b, integer) : There(w, S, integer, k)
            Stop == NumberCanStop(at) /\ Lead(b, w) \in S
<1>. HIDE DEF At
<1>20. At(at) <=> Then \/ Stop
  <2>1. CASE at = 0
    <3>1. Then <=> Go({"0"}, 3) \/ Go(Digit \ {"0"}, 2) \/ Go({"-"}, 1)
      BY <2>1 DEF NumberPhase, Digit
    <3>2. ~Stop
      BY <2>1 DEF NumberCanStop
    <3>. QED  BY <1>2, <2>1, <3>1, <3>2
  <2>2. CASE at = 1
    <3>1. Then <=> Go({"0"}, 3) \/ Go(Digit \ {"0"}, 2)
      BY <2>2 DEF NumberPhase, Digit
    <3>2. ~Stop
      BY <2>2 DEF NumberCanStop
    <3>. QED  BY <1>2, <2>2, <3>1, <3>2
  <2>3. CASE at = 2
    <3>1. /\ integer => (Then <=> Go(Digit, 2))
          /\ ~integer => (Then <=> Go({"e"}, 6) \/ Go({"."}, 4) \/ Go(Digit, 2))
      BY <2>3 DEF NumberPhase, Digit
    <3>2. Stop <=> Lead(b, w) \in S
      BY <2>3 DEF NumberCanStop
    <3>. HIDE DEF Then, Stop, Go
    <3>. QED  BY <1>2, <1>3, <2>3, <3>1, <3>2
  <2>4. CASE at = 3
    <3>1. /\ integer => ~Then
          /\ ~integer => (Then <=> Go({"e"}, 6) \/ Go({"."}, 4))
      BY <2>4 DEF NumberPhase, Digit
    <3>2. Stop <=> Lead(b, w) \in S
      BY <2>4 DEF NumberCanStop
    <3>. HIDE DEF Then, Stop, Go
    <3>. QED  BY <1>3, <2>4, <3>1, <3>2
  <2>5. CASE at = 4
    <3>1. Then <=> Go(Digit, 5)
      BY <2>5 DEF NumberPhase, Digit
    <3>2. ~Stop /\ ~integer
      BY <2>5 DEF NumberCanStop
    <3>. HIDE DEF Then, Stop, Go
    <3>. QED  BY <1>3, <2>5, <3>1, <3>2
  <2>6. CASE at = 5
    <3>1. Then <=> Go({"e"}, 6) \/ Go(Digit, 5)
      BY <2>6 DEF NumberPhase, Digit
    <3>2. (Stop <=> Lead(b, w) \in S) /\ ~integer
      BY <2>6 DEF NumberCanStop
    <3>. HIDE DEF Then, Stop, Go
    <3>. QED  BY <1>3, <2>6, <3>1, <3>2
  <2>7. CASE at = 6
    <3>1. Then <=> Go({"-"}, 7) \/ Go(Digit, 8)
      BY <2>7 DEF NumberPhase, Digit
    <3>2. ~Stop
      BY <2>7 DEF NumberCanStop
    <3>. HIDE DEF Then, Stop, Go
    <3>. QED  BY <1>4, <2>7, <3>1, <3>2
  <2>8. CASE at = 7
    <3>1. Then <=> Go(Digit, 8)
      BY <2>8 DEF NumberPhase, Digit
    <3>2. ~Stop
      BY <2>8 DEF NumberCanStop
    <3>. HIDE DEF Then, Stop, Go
    <3>. QED  BY <1>4, <2>8, <3>1, <3>2
  <2>9. CASE at = 8
    <3>1. Then <=> Go(Digit, 8)
      BY <2>9 DEF NumberPhase, Digit
    <3>2. Stop <=> Lead(b, w) \in S
      BY <2>9 DEF NumberCanStop
    <3>. HIDE DEF Then, Stop, Go
    <3>. QED  BY <1>4, <2>9, <3>1, <3>2
  <2>10. at = 0 \/ at = 1 \/ at = 2 \/ at = 3 \/ at = 4 \/ at = 5 \/ at = 6 \/ at = 7 \/ at = 8
    OBVIOUS
  <2>. HIDE DEF Then, Stop
  <2>. QED  BY <2>1, <2>2, <2>3, <2>4, <2>5, <2>6, <2>7, <2>8, <2>9, <2>10
<1>. QED  BY <1>20, Zenon DEF At

-----------------------------------------------------------------------------
(* Strings.                                                                *)

StringBody == Many(Symbols, Quote, MaxText)
Plain == Printable \ {"'", "\\"}

LEMMA PlainIs == AllBytes(Plain)
BY DEF Plain, Byte, AllBytes

LEMMA SymbolsAre ==
  ASSUME Bounded
  PROVE  /\ Symbols = Single(Plain) \cup Cat(Single({"\\"}), Single(Escapes))
         /\ Fits(Symbols) /\ Nil \notin Symbols /\ Lang(Symbols)
<1>1. Lang(Single(Escapes)) /\ Lang(Single({"\\"})) /\ Fits(Single(Plain)) /\ Nil \notin Single(Plain)
  BY PlainIs, Signs, LangSingle, SingleNil
<1>2. ASSUME NEW t PROVE t \in {<<"\\", e>> : e \in Escapes} <=> t \in Cat(Single({"\\"}), Single(Escapes))
  <2>1. ASSUME NEW e \in Escapes
        PROVE  /\ <<"\\", e>> = Glue(Lead("\\", Nil), Lead(e, Nil)) /\ Glue(Lead("\\", Nil), Lead(e, Nil)) \in Fit
               /\ Lead("\\", Nil) \in Single({"\\"}) /\ Lead(e, Nil) \in Single(Escapes)
    <3>1. e \in Byte /\ "\\" \in Byte
      BY Signs, BytesIn DEF Byte, Escapes
    <3>2. <<"\\", e>> = Glue(<<"\\">>, <<e>>)
      BY DEF Glue
    <3>3. <<"\\">> = Lead("\\", Nil) /\ <<e>> = Lead(e, Nil)
      BY <3>1, NilIs, LeadIs
    <3>4. Lead("\\", Nil) \in Text /\ Lead(e, Nil) \in Text /\ Size(Lead("\\", Nil)) = 0 + 1 /\ Size(Lead(e, Nil)) = 0 + 1
      BY <3>1, NilIs, LeadIs
    <3>5. Glue(Lead("\\", Nil), Lead(e, Nil)) \in Fit
      BY <3>4, GlueIs DEF Fit, Bounded
    <3>6. Lead("\\", Nil) \in Single({"\\"}) /\ Lead(e, Nil) \in Single(Escapes)
      BY SingleIs, Signs
    <3>. QED  BY <3>2, <3>3, <3>5, <3>6
  <2>2. ASSUME t \in {<<"\\", e>> : e \in Escapes} PROVE t \in Cat(Single({"\\"}), Single(Escapes))
    <3>1. PICK e \in Escapes : t = <<"\\", e>>
      BY <2>2
    <3>. QED  BY <1>1, <2>1, <3>1, CatIn
  <2>3. ASSUME t \in Cat(Single({"\\"}), Single(Escapes)) PROVE t \in {<<"\\", e>> : e \in Escapes}
    <3>1. PICK x \in Single({"\\"}), y \in Single(Escapes) : t = Glue(x, y)
      BY <2>3, CatParts
    <3>2. PICK e \in Escapes : y = Lead(e, Nil)
      BY Signs, SingleIs
    <3>3. x = Lead("\\", Nil)
      <4>. DEFINE Slash == {"\\"}
      <4>1. x \in Single(Slash) /\ AllBytes(Slash) /\ \A c \in Slash : c = "\\"
        BY Signs
      <4>. HIDE DEF Slash
      <4>2. PICK c \in Slash : x = Lead(c, Nil)
        BY <4>1, SingleIs
      <4>. QED  BY <4>1, <4>2
    <3>4. t = <<"\\", e>>
      BY <2>1, <3>1, <3>2, <3>3
    <3>. QED  BY <3>4
  <2>. QED  BY <2>2, <2>3
<1>3. Symbols = Single(Plain) \cup Cat(Single({"\\"}), Single(Escapes))
  <2>1. {<<"\\", e>> : e \in Escapes} = Cat(Single({"\\"}), Single(Escapes))
    BY <1>2
  <2>. QED  BY <2>1 DEF Symbols, Plain
<1>4. Fits(Cat(Single({"\\"}), Single(Escapes))) /\ Nil \notin Cat(Single({"\\"}), Single(Escapes))
  BY <1>1, Signs, Led
<1>5. Fits(Symbols) /\ Nil \notin Symbols
  BY <1>1, <1>3, <1>4, FitUnion
<1>. QED  BY <1>3, <1>5, LangFit

(* What a string goes on with, by the next byte.                           *)
LEMMA BodyIs ==
  ASSUME Bounded
  PROVE  /\ StringBody = (Single({"'"}) \cup Cat(Single(Plain), StringBody))
                           \cup Cat(Single({"\\"}), Cat(Single(Escapes), StringBody))
         /\ Fits(StringBody) /\ Lang(StringBody) /\ Nil \notin StringBody
<1>1. Quote = Single({"'"}) /\ Fits(Quote) /\ Nil \notin Quote
  BY Signs, LangSingle, SingleNil DEF Quote
<1>2. /\ StringBody = Quote \cup Cat(Symbols, StringBody) /\ Fits(StringBody)
      /\ Lang(StringBody) /\ Nil \notin StringBody
  <2>1. StringBody = Quote \cup Cat(Symbols, StringBody) /\ (Nil \in StringBody <=> Nil \in Quote)
    BY <1>1, SymbolsAre, ManyIs, ManyNil DEF StringBody
  <2>2. Fits(StringBody) /\ Lang(StringBody)
    BY <1>1, SymbolsAre, LangFit, ManyFits DEF StringBody
  <2>. QED  BY <1>1, <2>1, <2>2
<1>3. /\ Lang(Single(Plain)) /\ Lang(Single({"\\"})) /\ Lang(Single(Escapes))
      /\ Lang(Cat(Single({"\\"}), Single(Escapes)))
  BY PlainIs, Signs, LangSingle, Led
<1>4. Cat(Symbols, StringBody)
        = Cat(Single(Plain), StringBody) \cup Cat(Cat(Single({"\\"}), Single(Escapes)), StringBody)
  BY <1>2, <1>3, SymbolsAre, CatUnion
<1>5. Cat(Cat(Single({"\\"}), Single(Escapes)), StringBody)
        = Cat(Single({"\\"}), Cat(Single(Escapes), StringBody))
  BY <1>2, <1>3, CatAssoc
<1>. QED  BY <1>1, <1>2, <1>4, <1>5

(* A chain that ends in a text is longer than its number of links.         *)
LEMMA ChainLonger ==
  ASSUME Bounded, NEW A, Lang(A), Nil \notin A, NEW B, Lang(B), Nil \notin B, NEW n \in Nat
  PROVE  \A t \in Chain(A, B, n) : Size(t) >= n + 1
<1>. DEFINE Good == {k \in 0..n : \A t \in Chain(A, B, k) : Size(t) >= k + 1}
<1>1. 0 \in Good
  <2>1. ASSUME NEW t \in Chain(A, B, 0) PROVE Size(t) >= 0 + 1
    <3>1. t \in B
      BY ChainIs
    <3>2. t \in Text /\ t # Nil
      BY <3>1, LangIn
    <3>. QED  BY <3>2, SizeIs, NoSize
  <2>. QED  BY <2>1
<1>2. ASSUME NEW m \in 1..n, m - 1 \in Good PROVE m \in Good
  <2>1. m - 1 \in Nat /\ (m - 1) + 1 = m
    OBVIOUS
  <2>2. Chain(A, B, m) = Cat(A, Chain(A, B, m - 1)) /\ Lang(Chain(A, B, m - 1))
    BY <2>1, ChainIs, ChainLang
  <2>3. ASSUME NEW t \in Chain(A, B, m) PROVE Size(t) >= m + 1
    <3>1. PICK x \in A, y \in Chain(A, B, m - 1) : t = Glue(x, y)
      BY <2>2, CatParts
    <3>2. x \in Text /\ y \in Text
      BY <2>2, LangIn
    <3>3. Size(t) = Size(x) + Size(y) /\ Size(x) \in Nat /\ Size(y) \in Nat
      BY <3>1, <3>2, GlueIs
    <3>4. Size(x) # 0
      BY <3>2, NoSize
    <3>5. Size(y) >= (m - 1) + 1
      BY <1>2
    <3>. QED  BY <2>1, <3>3, <3>4, <3>5
  <2>. QED  BY <2>3
<1>3. \A k \in 0..n : k \in Good
  <2>. HIDE DEF Good
  <2>. QED  BY <1>1, <1>2, Counted
<1>. QED  BY <1>3

(* A string that fits has no more symbols than fit behind its quote.       *)
LEMMA StringIs ==
  ASSUME Bounded
  PROVE  Cat(Quote, Many(Symbols, Quote, MaxText - 2)) = Cat(Single({"'"}), StringBody)
<1>. DEFINE Short == Many(Symbols, Quote, MaxText - 2)
<1>1. Quote = Single({"'"}) /\ Lang(Quote) /\ Lang(Short) /\ Lang(Symbols) /\ Nil \notin Symbols /\ Lang(StringBody)
  BY Signs, LangSingle, SymbolsAre, BodyIs, ManyFits DEF Quote
<1>2. ASSUME NEW t \in Short PROVE t \in StringBody
  <2>1. PICK k \in 0..(MaxText - 2) : t \in Chain(Symbols, Quote, k)
    BY ManyOf
  <2>2. k \in 0..MaxText /\ Size(t) <= MaxText
    BY ManyOf DEF Bounded
  <2>. QED  BY <2>1, <2>2, ManyOf DEF StringBody
<1>3. ASSUME NEW t \in StringBody, Size(t) < MaxText PROVE t \in Short
  <2>1. PICK k \in 0..MaxText : t \in Chain(Symbols, Quote, k)
    BY ManyOf DEF StringBody
  <2>2. Size(t) >= k + 1
    <3>1. k \in Nat
      BY DEF Bounded
    <3>2. Nil \notin Quote
      BY <1>1, SingleNil, Signs
    <3>. QED  BY <1>1, <2>1, <3>1, <3>2, ChainLonger
  <2>3. Size(t) \in Nat
    BY <1>1, LangIn, SizeIs
  <2>4. k \in 0..(MaxText - 2)
    BY <1>3, <2>2, <2>3 DEF Bounded
  <2>5. Size(t) <= MaxText
    BY <1>3, <2>3 DEF Bounded
  <2>. QED  BY <2>1, <2>4, <2>5, ManyOf
<1>. HIDE DEF Short
<1>4. ASSUME NEW t \in Cat(Quote, Short) PROVE t \in Cat(Quote, StringBody)
  <2>1. PICK x \in Quote, y \in Short : t = Glue(x, y)
    BY CatParts
  <2>2. t \in Fit /\ y \in StringBody
    BY <1>1, <1>2, CatFits, FitsIn
  <2>. QED  BY <1>1, <2>1, <2>2, CatIn
<1>5. ASSUME NEW t \in Cat(Quote, StringBody) PROVE t \in Cat(Quote, Short)
  <2>1. PICK x \in Quote, y \in StringBody : t = Glue(x, y)
    BY CatParts
  <2>2. x \in Text /\ y \in Text /\ t \in Fit /\ x # Nil
    BY <1>1, LangIn, CatFits, FitsIn, SingleNil, Signs
  <2>3. Size(t) = Size(x) + Size(y) /\ Size(x) \in Nat /\ Size(y) \in Nat /\ Size(t) <= MaxText
    BY <2>1, <2>2, GlueIs DEF Fit
  <2>4. Size(x) # 0
    BY <2>2, NoSize
  <2>5. y \in Short
    BY <1>3, <2>3, <2>4 DEF Bounded
  <2>. QED  BY <1>1, <2>1, <2>2, <2>5, CatIn
<1>. QED  BY <1>1, <1>4, <1>5 DEF Short

-----------------------------------------------------------------------------
(* Texts that start with one given byte.                                   *)

One(c) == Single({c})

LEMMA BytesAre ==
  /\ "," \in Byte /\ ":" \in Byte /\ "[" \in Byte /\ "]" \in Byte /\ "{" \in Byte
  /\ "}" \in Byte /\ "'" \in Byte /\ "\\" \in Byte
BY DEF Byte, Digit, Escapes, Marks

LEMMA OneBytes ==
  ASSUME NEW c \in Byte
  PROVE  AllBytes({c})
BY DEF AllBytes

LEMMA OneIs ==
  ASSUME Bounded, NEW c \in Byte
  PROVE  Fits(One(c)) /\ Lang(One(c)) /\ Nil \notin One(c)
<1>. DEFINE C == {c}
<1>1. AllBytes(C)
  BY OneBytes
<1>. HIDE DEF C
<1>2. Fits(Single(C)) /\ Lang(Single(C)) /\ Nil \notin Single(C)
  BY <1>1, LangSingle, SingleNil
<1>. QED  BY <1>2 DEF One, C

LEMMA OneLed ==
  ASSUME Bounded, NEW c \in Byte, NEW B, Lang(B)
  PROVE  Fits(Cat(One(c), B)) /\ Lang(Cat(One(c), B)) /\ Nil \notin Cat(One(c), B)
BY OneIs, CatFits, CatNil

LEMMA ReadOne ==
  ASSUME NEW b, NEW w, NEW S, Reading(b, w, S), NEW c \in Byte
  PROVE  Lead(b, w) \in Cat(One(c), S) <=> b = c /\ w \in S
<1>. DEFINE C == {c}
<1>1. AllBytes(C) /\ (b \in C <=> b = c)
  BY OneBytes
<1>. HIDE DEF C
<1>2. Lead(b, w) \in Cat(Single(C), S) <=> b \in C /\ w \in S
  BY <1>1, ReadSingle
<1>. QED  BY <1>1, <1>2 DEF One, C

(* A union of sets is among those that are, whatever their number.         *)
LEMMA CatPart ==
  ASSUME Bounded, NEW A, Lang(A), NEW D, Lang(D), NEW B, Lang(B), A \subseteq D
  PROVE  Cat(A, B) \subseteq Cat(D, B)
<1>1. ASSUME NEW t, t \in Cat(A, B) PROVE t \in Cat(D, B)
  <2>1. PICK x \in A, y \in B : t = Glue(x, y)
    BY <1>1, CatParts
  <2>2. t \in Fit /\ x \in D
    BY <1>1, CatFits, FitsIn
  <2>. QED  BY <2>1, <2>2, CatIn
<1>. QED  BY <1>1

-----------------------------------------------------------------------------
(* Arrays.                                                                 *)

Room(node, count) == node.max < 0 \/ count <= node.max
Bracket(node, count) == IF count < node.min THEN {} ELSE One("]")
Link(item) == Cat(One(","), item)

(* What an array can have for its bounds and its items.                    *)
Counts(node, item) ==
  /\ Bounded /\ node.min \in Nat /\ node.max \in Int
  /\ Fits(item) /\ Nil \notin item

LEMMA FitsNone == Fits({}) /\ Lang({}) /\ Nil \notin {}
BY DEF Fits, Lang

LEMMA BracketIs ==
  ASSUME Bounded, NEW node, NEW count
  PROVE  Fits(Bracket(node, count)) /\ Lang(Bracket(node, count)) /\ Nil \notin Bracket(node, count)
<1>1. CASE count < node.min
  <2>1. Bracket(node, count) = {}
    BY <1>1 DEF Bracket
  <2>. QED  BY <2>1, FitsNone
<1>2. CASE ~(count < node.min)
  <2>1. Bracket(node, count) = One("]")
    BY <1>2 DEF Bracket
  <2>. QED  BY <2>1, OneIs, BytesAre
<1>. QED  BY <1>1, <1>2

LEMMA TwoIs ==
  ASSUME NEW b \in Byte, NEW c \in Byte
  PROVE  <<b, c>> = Glue(<<b>>, <<c>>)
<1>1. <<b>> \in Seq(Byte) /\ <<c>> \in Seq(Byte) /\ <<b, c>> \in Seq(Byte) /\ <<b>> \o <<c>> \in Seq(Byte)
  OBVIOUS
<1>2. Len(<<b>>) = 1 /\ Len(<<c>>) = 1 /\ Len(<<b, c>>) = 2
  OBVIOUS
<1>3. Len(<<b>> \o <<c>>) = 2
  BY <1>1, <1>2
<1>4. (<<b>> \o <<c>>)[1] = b /\ (<<b>> \o <<c>>)[2] = c
  BY <1>1, <1>2
<1>5. ASSUME NEW i \in 1..2 PROVE <<b, c>>[i] = (<<b>> \o <<c>>)[i]
  <2>1. i = 1 \/ i = 2
    OBVIOUS
  <2>. QED  BY <1>4, <2>1
<1>6. <<b, c>> = <<b>> \o <<c>>
  BY <1>1, <1>2, <1>3, <1>5, SeqEqual
<1>. QED  BY <1>6 DEF Glue

LEMMA CommaBracket ==
  ASSUME Bounded
  PROVE  {<<",", "]">>} = Cat(One(","), One("]"))
<1>. DEFINE x == Lead(",", Nil)
            y == Lead("]", Nil)
            X == One(",")
            Y == One("]")
<1>1. x \in Text /\ y \in Text /\ Size(x) = 0 + 1 /\ Size(y) = 0 + 1
  BY BytesAre, NilIs, LeadIs
<1>2. <<",">> = x /\ <<"]">> = y
  BY BytesAre, NilIs, LeadIs
<1>3. X = {x} /\ Y = {y}
  BY <1>2 DEF One, Single
<1>4. <<",", "]">> = Glue(x, y)
  BY <1>2, BytesAre, TwoIs
<1>5. Lang(X) /\ Lang(Y)
  BY OneIs, BytesAre
<1>. HIDE DEF x, y, X, Y
<1>6. Glue(x, y) \in Fit
  BY <1>1, GlueIs DEF Fit, Bounded
<1>7. Glue(x, y) \in Cat(X, Y)
  BY <1>3, <1>5, <1>6, CatIn
<1>8. ASSUME NEW t \in Cat(X, Y) PROVE t = Glue(x, y)
  <2>1. PICK u \in X, v \in Y : t = Glue(u, v)
    BY CatParts
  <2>. QED  BY <1>3, <2>1
<1>9. Cat(X, Y) = {Glue(x, y)}
  BY <1>7, <1>8
<1>. QED  BY <1>4, <1>9 DEF X, Y

LEMMA ClosingIs ==
  ASSUME Bounded, NEW node, NEW count
  PROVE  /\ Closing(node, count) = Bracket(node, count)
              \cup (IF Full(node, count) THEN {} ELSE Cat(One(","), Bracket(node, count)))
         /\ Fits(Closing(node, count)) /\ Lang(Closing(node, count)) /\ Nil \notin Closing(node, count)
<1>. DEFINE R == Bracket(node, count)
            C == Closing(node, count)
<1>1. Fits(R) /\ Lang(R) /\ Nil \notin R
  BY BracketIs
<1>2. Fits(Cat(One(","), R)) /\ Lang(Cat(One(","), R)) /\ Nil \notin Cat(One(","), R)
  BY <1>1, OneLed, BytesAre
<1>3. C = R \cup (IF Full(node, count) THEN {} ELSE Cat(One(","), R))
  <2>1. CASE count < node.min
    <3>1. C = {} /\ R = {}
      BY <2>1 DEF Closing, Bracket
    <3>2. Cat(One(","), R) = {}
      BY <3>1, OneIs, BytesAre, CatEmpty
    <3>. QED  BY <3>1, <3>2
  <2>2. CASE ~(count < node.min)
    <3>1. R = One("]") /\ One("]") = Single({"]"})
      BY <2>2 DEF Bracket, One
    <3>2. C = One("]") \cup (IF Full(node, count) THEN {} ELSE {<<",", "]">>})
      BY <2>2 DEF Closing, One
    <3>. QED  BY <3>1, <3>2, CommaBracket
  <2>. QED  BY <2>1, <2>2
<1>4. Fits(C) /\ Nil \notin C
  <2>. HIDE DEF R, C
  <2>1. CASE Full(node, count)
    BY <1>1, <1>3, <2>1
  <2>2. CASE ~Full(node, count)
    <3>. DEFINE D == Cat(One(","), R)
    <3>1. C = R \cup D /\ Fits(D) /\ Nil \notin D
      BY <1>2, <1>3, <2>2
    <3>. HIDE DEF D
    <3>2. Fits(C)
      BY <1>1, <3>1, FitUnion
    <3>. QED  BY <1>1, <3>1, <3>2
  <2>. QED  BY <2>1, <2>2
<1>5. Lang(C)
  BY <1>4, LangFit
<1>. QED  BY <1>3, <1>4, <1>5

LEMMA MoreItemsIn ==
  ASSUME NEW node, NEW item, NEW count, NEW t
  PROVE  t \in MoreItems(node, item, count) <=>
           \E n \in 0..MaxText : Room(node, count + n)
                                 /\ t \in Chain(Link(item), Closing(node, count + n), n)
BY DEF MoreItems, Room, Link, One

LEMMA LinkIs ==
  ASSUME NEW node, NEW item, Counts(node, item)
  PROVE  Lang(Link(item)) /\ Fits(Link(item)) /\ Nil \notin Link(item)
BY LangFit, OneLed, BytesAre DEF Link, Counts

LEMMA MoreItemsFit ==
  ASSUME NEW node, NEW item, Counts(node, item), NEW count \in Nat
  PROVE  /\ Fits(MoreItems(node, item, count)) /\ Lang(MoreItems(node, item, count))
         /\ Nil \notin MoreItems(node, item, count)
<1>. DEFINE A == Link(item)
<1>0. Bounded /\ Lang(A) /\ Nil \notin A
  BY LinkIs DEF Counts
<1>1. ASSUME NEW t \in MoreItems(node, item, count) PROVE t \in Fit /\ t # Nil
  <2>1. PICK n \in 0..MaxText : t \in Chain(A, Closing(node, count + n), n)
    BY MoreItemsIn
  <2>. DEFINE B == Closing(node, count + n)
  <2>0. n \in Nat
    BY <1>0 DEF Bounded
  <2>2. Fits(B) /\ Lang(B) /\ Nil \notin B /\ t \in Chain(A, B, n)
    BY <1>0, <2>1, ClosingIs
  <2>. HIDE DEF A, B
  <2>3. Size(t) >= n + 1
    BY <1>0, <2>0, <2>2, ChainLonger
  <2>4. t # Nil
    BY <2>0, <2>3, NilIs
  <2>5. CASE n = 0
    <3>1. t \in B
      BY <1>0, <2>2, <2>5, ChainIs
    <3>. QED  BY <2>2, <2>4, <3>1, FitsIn
  <2>6. CASE n # 0
    <3>. DEFINE m == n - 1
    <3>1. m \in Nat /\ n = m + 1
      BY <2>0, <2>6
    <3>. HIDE DEF m
    <3>2. t \in Cat(A, Chain(A, B, m)) /\ Lang(Chain(A, B, m))
      <4>1. Chain(A, B, m + 1) = Cat(A, Chain(A, B, m)) /\ Lang(Chain(A, B, m))
        BY <1>0, <2>2, <3>1, ChainIs, ChainLang
      <4>. QED  BY <2>2, <3>1, <4>1
    <3>3. t \in Fit
      BY <1>0, <3>2, CatFits, FitsIn
    <3>. QED  BY <2>4, <3>3
  <2>. QED  BY <2>5, <2>6
<1>2. Fits(MoreItems(node, item, count)) /\ Nil \notin MoreItems(node, item, count)
  BY <1>1 DEF Fits
<1>. QED  BY <1>2, LangFit

(* The items behind an item: none, or another and the items behind that.   *)
LEMMA MoreItemsOn ==
  ASSUME NEW node, NEW item, Counts(node, item), NEW count \in Nat, Room(node, count)
  PROVE  MoreItems(node, item, count) = Closing(node, count)
           \cup (IF Full(node, count) THEN {}
                 ELSE Cat(Link(item), MoreItems(node, item, count + 1)))
<1>. DEFINE A == Link(item)
            C(n) == Closing(node, n)
            M(n) == MoreItems(node, item, n)
<1>0. Bounded /\ Lang(A) /\ Nil \notin A /\ MaxText \in Nat /\ node.max \in Int /\ count + 1 \in Nat
  BY LinkIs DEF Counts, Bounded
<1>1. \A n : Fits(C(n)) /\ Lang(C(n)) /\ Nil \notin C(n)
  BY <1>0, ClosingIs
<1>2. Fits(M(count)) /\ Lang(M(count)) /\ Fits(M(count + 1)) /\ Lang(M(count + 1))
  BY <1>0, MoreItemsFit
<1>3. \A n, t : t \in M(n) <=> \E m \in 0..MaxText : Room(node, n + m) /\ t \in Chain(A, C(n + m), m)
  BY MoreItemsIn
<1>. HIDE DEF A, C, M
<1>4. ASSUME NEW t \in M(count) PROVE t \in C(count) \/ (~Full(node, count) /\ t \in Cat(A, M(count + 1)))
  <2>1. PICK n \in 0..MaxText : Room(node, count + n) /\ t \in Chain(A, C(count + n), n)
    BY <1>3
  <2>. DEFINE B == C(count + n)
  <2>2. Lang(B) /\ t \in Chain(A, B, n) /\ t \in Fit
    BY <1>1, <1>2, <2>1, FitsIn
  <2>3. CASE n = 0
    <3>1. B = C(count)
      BY <2>3
    <3>. HIDE DEF B
    <3>2. t \in B
      BY <1>0, <2>2, <2>3, ChainIs
    <3>. QED  BY <3>1, <3>2
  <2>4. CASE n # 0
    <3>. DEFINE m == n - 1
    <3>1. m \in Nat /\ n = m + 1 /\ m \in 0..MaxText /\ count + n = (count + 1) + m
      BY <1>0, <2>4
    <3>2. ~Full(node, count)
      BY <1>0, <2>1, <2>4 DEF Full, Room
    <3>. HIDE DEF m
    <3>3. B = C((count + 1) + m) /\ Room(node, (count + 1) + m)
      BY <2>1, <3>1
    <3>. HIDE DEF B
    <3>4. Chain(A, B, n) = Cat(A, Chain(A, B, m)) /\ Lang(Chain(A, B, m))
      <4>1. Chain(A, B, m + 1) = Cat(A, Chain(A, B, m)) /\ Lang(Chain(A, B, m))
        BY <1>0, <2>2, <3>1, ChainIs, ChainLang
      <4>. QED  BY <3>1, <4>1
    <3>5. Chain(A, B, m) \subseteq M(count + 1)
      BY <1>3, <3>1, <3>3
    <3>6. Cat(A, Chain(A, B, m)) \subseteq Cat(A, M(count + 1))
      <4>. DEFINE D == Chain(A, B, m)
                  N == M(count + 1)
      <4>1. Lang(D) /\ Lang(N) /\ D \subseteq N
        BY <1>2, <3>4, <3>5
      <4>. HIDE DEF D, N
      <4>2. ASSUME NEW u \in Cat(A, D) PROVE u \in Cat(A, N)
        <5>1. PICK x \in A, y \in D : u = Glue(x, y)
          BY CatParts
        <5>2. u \in Fit /\ y \in N
          BY <1>0, <4>1, CatFits, FitsIn
        <5>. QED  BY <1>0, <4>1, <5>1, <5>2, CatIn
      <4>. QED  BY <4>2 DEF D, N
    <3>. QED  BY <2>2, <3>2, <3>4, <3>6
  <2>. QED  BY <2>3, <2>4
<1>5. ASSUME NEW t \in C(count) PROVE t \in M(count)
  <2>1. 0 \in 0..MaxText /\ count + 0 = count
    BY <1>0
  <2>. DEFINE B == C(count)
  <2>2. Lang(B) /\ t \in B
    BY <1>1
  <2>. HIDE DEF B
  <2>3. t \in Chain(A, B, 0)
    BY <1>0, <2>2, ChainIs
  <2>4. t \in Chain(A, C(count + 0), 0)
    BY <2>1, <2>3 DEF B
  <2>5. Room(node, count + 0)
    BY <2>1
  <2>. QED  BY <1>3, <2>1, <2>4, <2>5
<1>6. ASSUME NEW t \in Cat(A, M(count + 1)) PROVE t \in M(count)
  <2>0. t \in Fit
    BY <1>0, <1>2, CatFits, FitsIn
  <2>1. PICK x \in A, y \in M(count + 1) : t = Glue(x, y)
    BY CatParts
  <2>2. PICK m \in 0..MaxText : Room(node, (count + 1) + m) /\ y \in Chain(A, C((count + 1) + m), m)
    BY <1>3
  <2>. DEFINE B == C((count + 1) + m)
  <2>3. m \in Nat /\ (count + 1) + m = count + (m + 1)
    BY <1>0
  <2>4. Lang(B) /\ y \in Chain(A, B, m) /\ B = C(count + (m + 1))
    BY <1>1, <2>2, <2>3
  <2>. HIDE DEF B
  <2>5. Lang(Chain(A, B, m)) /\ Chain(A, B, m + 1) = Cat(A, Chain(A, B, m))
    BY <1>0, <2>3, <2>4, ChainIs, ChainLang
  <2>6. t \in Chain(A, B, m + 1)
    <3>. DEFINE D == Chain(A, B, m)
    <3>1. Lang(D) /\ y \in D
      BY <2>4, <2>5
    <3>. HIDE DEF D
    <3>2. t \in Cat(A, D)
      BY <1>0, <2>0, <2>1, <3>1, CatIn
    <3>. QED  BY <2>5, <3>2 DEF D
  <2>7. Size(t) >= m + 1 /\ Size(t) \in Nat
    <3>1. m + 1 \in Nat
      BY <2>3
    <3>. QED  BY <1>0, <2>4, <2>6, <3>1, ChainSize
  <2>8. m + 1 \in 0..MaxText
    BY <1>0, <2>0, <2>3, <2>7 DEF Fit
  <2>. QED  BY <1>3, <2>2, <2>3, <2>4, <2>6, <2>8
<1>7. ASSUME Full(node, count) PROVE M(count) = C(count)
  BY <1>4, <1>5, <1>7
<1>8. ASSUME ~Full(node, count) PROVE M(count) = C(count) \cup Cat(A, M(count + 1))
  BY <1>4, <1>5, <1>6, <1>8
<1>. QED  BY <1>7, <1>8 DEF A, C, M

(* An array from where it waits for an item, and from behind one.          *)
LEMMA ItemsAre ==
  ASSUME NEW node, NEW item, Counts(node, item), NEW count \in Nat, Room(node, count)
  PROVE  /\ Items(node, item, count) = Bracket(node, count)
              \cup (IF Full(node, count) THEN {} ELSE Cat(item, MoreItems(node, item, count + 1)))
         /\ MoreItems(node, item, count) = Bracket(node, count)
              \cup (IF Full(node, count) THEN {} ELSE Cat(One(","), Items(node, item, count)))
         /\ Fits(Items(node, item, count)) /\ Lang(Items(node, item, count))
         /\ Nil \notin Items(node, item, count)
<1>. DEFINE A == Link(item)
            R == Bracket(node, count)
            I == Items(node, item, count)
            M == MoreItems(node, item, count)
            N == MoreItems(node, item, count + 1)
            C == Closing(node, count)
            K == One(",")
<1>0. Bounded /\ Lang(item) /\ Nil \notin item /\ count + 1 \in Nat
  BY LangFit DEF Counts
<1>1. Lang(A) /\ Lang(K) /\ A = Cat(K, item)
  BY <1>0, LinkIs, OneIs, BytesAre DEF Link
<1>2. Fits(R) /\ Lang(R) /\ Nil \notin R
  BY <1>0, BracketIs
<1>3. Fits(N) /\ Lang(N)
  BY <1>0, MoreItemsFit
<1>4. I = R \cup (IF Full(node, count) THEN {} ELSE Cat(item, N))
  BY DEF Items, Bracket, One
<1>5. C = R \cup (IF Full(node, count) THEN {} ELSE Cat(K, R))
  BY <1>0, ClosingIs
<1>6. M = C \cup (IF Full(node, count) THEN {} ELSE Cat(A, N))
  BY MoreItemsOn
<1>. HIDE DEF A, R, I, M, N, C, K
<1>7. CASE Full(node, count)
  <2>1. I = R /\ M = R
    BY <1>4, <1>5, <1>6, <1>7
  <2>. QED  BY <1>2, <1>7, <2>1 DEF I, R, M, K, N
<1>8. CASE ~Full(node, count)
  <2>. DEFINE D == Cat(item, N)
  <2>1. Fits(D) /\ Lang(D) /\ Nil \notin D /\ Cat(A, N) = Cat(K, D)
    BY <1>0, <1>1, <1>3, CatFits, CatNil, CatAssoc
  <2>2. I = R \cup D /\ M = (R \cup Cat(K, R)) \cup Cat(K, D)
    BY <1>4, <1>5, <1>6, <1>8, <2>1
  <2>. HIDE DEF D
  <2>3. Fits(I) /\ Lang(I) /\ Nil \notin I
    BY <1>2, <2>1, <2>2, FitUnion
  <2>4. Cat(K, R \cup D) = Cat(K, R) \cup Cat(K, D)
    BY <1>0, <1>1, <1>2, <2>1, CatUnionRight
  <2>5. M = R \cup Cat(K, I)
    BY <2>2, <2>4
  <2>. QED  BY <1>8, <2>2, <2>3, <2>5 DEF I, R, M, K, N, D
<1>. QED  BY <1>7, <1>8

-----------------------------------------------------------------------------
(* Objects of any properties.                                              *)

(* A member and the members behind it; and what stands behind its key.     *)
Members(key, value) == Cat(key, Cat(One(":"), Cat(value, MoreMembers(key, value))))

Pair2(key, value) == Bounded /\ Fits(key) /\ Nil \notin key /\ Fits(value) /\ Nil \notin value

LEMMA MembersAre ==
  ASSUME NEW key, NEW value, Pair2(key, value)
  PROVE  /\ Fits(MoreMembers(key, value)) /\ Lang(MoreMembers(key, value))
         /\ Nil \notin MoreMembers(key, value)
         /\ Fits(Members(key, value)) /\ Lang(Members(key, value)) /\ Nil \notin Members(key, value)
         /\ Cat(Member(key, value), MoreMembers(key, value)) = Members(key, value)
         /\ MoreMembers(key, value) = One("}") \cup Cat(One(","), Members(key, value))
         /\ Fits(Cat(value, MoreMembers(key, value)))
         /\ Fits(Cat(One(":"), Cat(value, MoreMembers(key, value))))
<1>. DEFINE K == One(",")
            N == One(":")
            E == One("}")
            P == Member(key, value)
            A == Cat(K, P)
            M == MoreMembers(key, value)
            V == Cat(value, M)
            W == Cat(N, V)
            X == Members(key, value)
<1>0. Bounded /\ Lang(key) /\ Nil \notin key /\ Lang(value) /\ Nil \notin value
  BY LangFit DEF Pair2
<1>1. Lang(K) /\ Nil \notin K /\ Lang(N) /\ Nil \notin N /\ Fits(E) /\ Lang(E) /\ Nil \notin E
  BY <1>0, OneIs, BytesAre
<1>2. P = Cat(key, Cat(N, value)) /\ M = Many(A, E, MaxText) /\ X = Cat(key, W)
  BY DEF Member, MoreMembers, Members, One
<1>. HIDE DEF K, N, E, P, M, X
<1>3. Lang(Cat(N, value)) /\ Lang(P)
  BY <1>0, <1>1, <1>2, CatFits
<1>4. Lang(A) /\ Nil \notin A
  BY <1>0, <1>1, <1>3, CatFits, CatNil
<1>. HIDE DEF A
<1>5. Fits(M) /\ Lang(M) /\ (Nil \in M <=> Nil \in E) /\ M = E \cup Cat(A, M)
  BY <1>0, <1>1, <1>2, <1>4, ManyFits, ManyNil, ManyIs
<1>6. Fits(V) /\ Lang(V)
  BY <1>0, <1>5, CatFits
<1>7. Fits(W) /\ Lang(W)
  BY <1>0, <1>1, <1>6, CatFits
<1>8. Fits(X) /\ Lang(X) /\ Nil \notin X
  BY <1>0, <1>2, <1>7, CatFits, CatNil
<1>9. Cat(P, M) = X
  <2>1. Cat(P, M) = Cat(key, Cat(Cat(N, value), M))
    BY <1>0, <1>2, <1>3, <1>5, CatAssoc
  <2>2. Cat(Cat(N, value), M) = Cat(N, V)
    BY <1>0, <1>1, <1>5, CatAssoc
  <2>. QED  BY <1>2, <2>1, <2>2
<1>10. Cat(A, M) = Cat(K, X)
  <2>1. Cat(A, M) = Cat(K, Cat(P, M))
    BY <1>0, <1>1, <1>3, <1>5, CatAssoc DEF A
  <2>. QED  BY <1>9, <2>1
<1>. QED  BY <1>1, <1>5, <1>6, <1>7, <1>8, <1>9, <1>10 DEF K, N, E, P, M, V, W, X

-----------------------------------------------------------------------------
(* Texts of which some bytes have been read.                               *)

Suffix(t, k) == SubSeq(t, k + 1, Len(t))
Word(t, k) == UpTo({Suffix(t, k)}, MaxText)

LEMMA SuffixIs ==
  ASSUME NEW t \in Text, NEW k \in Nat, k <= Size(t)
  PROVE  /\ Suffix(t, k) \in Text /\ Size(Suffix(t, k)) = Size(t) - k /\ Suffix(t, 0) = t
         /\ k < Size(t) => t[k + 1] \in Byte /\ Suffix(t, k) = Lead(t[k + 1], Suffix(t, k + 1))
<1>1. t \in Seq(Byte) /\ Len(t) \in Nat /\ k <= Len(t)
  BY DEF Text, Size
<1>2. ASSUME NEW m \in Nat, m <= Len(t)
      PROVE  /\ SubSeq(t, m + 1, Len(t)) \in Seq(Byte) /\ Len(SubSeq(t, m + 1, Len(t))) = Len(t) - m
             /\ \A i \in 1..(Len(t) - m) : SubSeq(t, m + 1, Len(t))[i] = t[i + m]
  <2>1. \A i \in (m + 1)..Len(t) : t[i] \in Byte
    BY <1>1, <1>2
  <2>2. SubSeq(t, m + 1, Len(t)) \in Seq(Byte)
    BY <1>1, <1>2, <2>1
  <2>3. Len(SubSeq(t, m + 1, Len(t))) = Len(t) - m
    BY <1>1, <1>2
  <2>4. ASSUME NEW i \in 1..(Len(t) - m) PROVE SubSeq(t, m + 1, Len(t))[i] = t[i + m]
    <3>1. SubSeq(t, m + 1, Len(t))[i] = t[(m + 1) + i - 1]
      BY <1>1, <1>2
    <3>2. (m + 1) + i - 1 = i + m
      BY <1>2
    <3>. QED  BY <3>1, <3>2
  <2>. QED  BY <2>2, <2>3, <2>4
<1>3. Suffix(t, k) \in Seq(Byte) /\ Len(Suffix(t, k)) = Len(t) - k
  BY <1>1, <1>2 DEF Suffix
<1>4. Suffix(t, 0) = t
  <2>1. 0 <= Len(t) /\ Len(t) - 0 = Len(t)
    BY <1>1
  <2>2. /\ Suffix(t, 0) \in Seq(Byte) /\ Len(Suffix(t, 0)) = Len(t)
        /\ \A i \in 1..Len(t) : Suffix(t, 0)[i] = t[i + 0]
    BY <1>2, <2>1 DEF Suffix
  <2>3. \A i \in 1..Len(t) : Suffix(t, 0)[i] = t[i]
    BY <2>2
  <2>. QED  BY <1>1, <2>2, <2>3, SeqEqual
<1>5. ASSUME k < Len(t) PROVE t[k + 1] \in Byte /\ Suffix(t, k) = Lead(t[k + 1], Suffix(t, k + 1))
  <2>. DEFINE c == t[k + 1]
              u == Suffix(t, k + 1)
              v == Suffix(t, k)
  <2>0. k + 1 \in Nat /\ k + 1 <= Len(t)
    BY <1>1, <1>5
  <2>1. c \in Byte
    BY <1>1, <2>0
  <2>2. u \in Seq(Byte) /\ Len(u) = Len(t) - (k + 1) /\ \A i \in 1..(Len(t) - (k + 1)) : u[i] = t[i + (k + 1)]
    BY <1>2, <2>0 DEF Suffix
  <2>3. \A i \in 1..(Len(t) - k) : v[i] = t[i + k]
    BY <1>1, <1>2 DEF Suffix
  <2>4. v \in Seq(Byte) /\ Len(v) = Len(t) - k
    BY <1>3
  <2>. HIDE DEF c, u, v
  <2>5. <<c>> \o u \in Seq(Byte) /\ Len(<<c>> \o u) = Len(t) - k
    BY <1>1, <2>1, <2>2
  <2>6. (<<c>> \o u)[1] = c
    BY <2>1, <2>2
  <2>7. ASSUME NEW i \in 1..(Len(t) - k) PROVE v[i] = (<<c>> \o u)[i]
    <3>1. CASE i = 1
      BY <2>3, <2>6, <2>0, <3>1 DEF c
    <3>2. CASE i # 1
      <4>. DEFINE j == i - 1
      <4>1. j \in 1..(Len(t) - (k + 1)) /\ i = 1 + j /\ j + (k + 1) = i + k
        BY <1>1, <2>0, <3>2
      <4>2. u[j] = t[j + (k + 1)]
        BY <2>2, <4>1
      <4>. HIDE DEF j
      <4>3. (<<c>> \o u)[1 + j] = u[j]
        BY <2>1, <2>2, <4>1
      <4>. QED  BY <2>3, <4>1, <4>2, <4>3
    <3>. QED  BY <3>1, <3>2
  <2>8. v = <<c>> \o u
    BY <2>4, <2>5, <2>7, SeqEqual
  <2>. QED  BY <2>1, <2>8 DEF c, u, v, Lead
<1>. QED  BY <1>1, <1>3, <1>4, <1>5 DEF Text, Size

LEMMA WordIn ==
  ASSUME NEW t, NEW k, NEW u
  PROVE  u \in Word(t, k) <=> u = Suffix(t, k) /\ Size(u) <= MaxText
BY UpToIs DEF Word

LEMMA WordIs ==
  ASSUME Bounded, NEW t \in Text, NEW k \in Nat, k <= Size(t)
  PROVE  /\ Fits(Word(t, k)) /\ Lang(Word(t, k))
         /\ k < Size(t) => /\ t[k + 1] \in Byte /\ Nil \notin Word(t, k)
                           /\ Word(t, k) = Cat(One(t[k + 1]), Word(t, k + 1))
         /\ k = Size(t) => Word(t, k) = Nothing
<1>1. ASSUME NEW m \in Nat, m <= Size(t) PROVE Fits(Word(t, m)) /\ Lang(Word(t, m))
  <2>1. ASSUME NEW u \in Word(t, m) PROVE u \in Fit
    BY <1>1, WordIn, SuffixIs DEF Fit
  <2>2. Fits(Word(t, m))
    BY <2>1 DEF Fits
  <2>. QED  BY <2>2, LangFit
<1>2. ASSUME k < Size(t)
      PROVE  /\ t[k + 1] \in Byte /\ Nil \notin Word(t, k)
             /\ Word(t, k) = Cat(One(t[k + 1]), Word(t, k + 1))
  <2>. DEFINE c == t[k + 1]
              u == Suffix(t, k + 1)
              v == Suffix(t, k)
              U == Word(t, k + 1)
              V == Word(t, k)
  <2>0. k + 1 \in Nat /\ k + 1 <= Size(t)
    BY <1>2, SizeIs
  <2>1. c \in Byte /\ v = Lead(c, u) /\ u \in Text /\ v \in Text
    BY <1>2, <2>0, SuffixIs
  <2>2. \A x : x \in U <=> x = u /\ Size(x) <= MaxText
    BY WordIn
  <2>3. \A x : x \in V <=> x = v /\ Size(x) <= MaxText
    BY WordIn
  <2>4. Lang(U) /\ Fits(V)
    BY <1>1, <2>0
  <2>. HIDE DEF c, u, v, U, V
  <2>5. Nil \notin V
    BY <2>1, <2>3, LeadIs
  <2>6. ASSUME NEW x \in V PROVE x \in Cat(One(c), U)
    <3>1. x = Lead(c, u) /\ x \in Fit
      BY <2>1, <2>3, <2>4, FitsIn
    <3>2. Size(u) < MaxText
      BY <2>1, <3>1, LeadFits
    <3>3. Size(u) \in Nat
      BY <2>1, SizeIs
    <3>4. u \in U
      BY <2>2, <3>2, <3>3 DEF Bounded
    <3>5. Fits(U)
      BY <1>1, <2>0 DEF U
    <3>6. Reading(c, u, U)
      BY <2>1, <3>2, <3>5 DEF Reading
    <3>. QED  BY <2>1, <3>1, <3>4, <3>6, ReadOne
  <2>7. ASSUME NEW x \in Cat(One(c), U) PROVE x \in V
    <3>1. PICK y \in One(c), z \in U : x = Glue(y, z)
      BY CatParts
    <3>2. x \in Fit
      BY <2>1, <2>4, OneIs, CatFits, FitsIn
    <3>3. z = u
      BY <2>2
    <3>4. y = <<c>>
      BY DEF One, Single
    <3>5. x = Lead(c, u)
      BY <2>1, <3>1, <3>3, <3>4, LeadIs
    <3>. QED  BY <2>1, <2>3, <3>2, <3>5 DEF Fit
  <2>8. V = Cat(One(c), U)
    BY <2>6, <2>7
  <2>. QED  BY <2>1, <2>5, <2>8 DEF c, U, V
<1>3. ASSUME k = Size(t) PROVE Word(t, k) = Nothing
  <2>1. Suffix(t, k) \in Text /\ Size(Suffix(t, k)) = 0
    BY <1>3, SuffixIs, SizeIs
  <2>2. Suffix(t, k) = Nil
    BY <2>1, NoSize
  <2>3. \A u : u \in Word(t, k) <=> u = Nil
    BY <2>2, WordIn, NilIs DEF Bounded
  <2>. QED  BY <2>3 DEF Nothing
<1>. QED  BY <1>1, <1>2, <1>3

LEMMA WordWhole ==
  ASSUME NEW t \in Text
  PROVE  Word(t, 0) = UpTo({t}, MaxText)
<1>1. 0 <= Size(t)
  BY SizeIs
<1>2. Suffix(t, 0) = t
  BY <1>1, SuffixIs
<1>. QED  BY <1>2 DEF Word

LEMMA CatWord ==
  ASSUME Bounded, NEW t \in Text, NEW B, Lang(B)
  PROVE  Cat({t}, B) = Cat(Word(t, 0), B)
<1>. DEFINE A == {t}
            D == Word(t, 0)
<1>0. 0 \in Nat /\ 0 <= Size(t)
  BY SizeIs
<1>1. Lang(A) /\ Lang(D) /\ \A x : x \in A <=> x = t
  BY <1>0, WordIs DEF Lang
<1>2. \A x : x \in D <=> x = t /\ Size(x) <= MaxText
  BY <1>0, WordIn, SuffixIs
<1>. HIDE DEF A, D
<1>3. ASSUME NEW x \in Cat(A, B) PROVE x \in Cat(D, B)
  <2>1. PICK y \in A, z \in B : x = Glue(y, z)
    BY CatParts
  <2>2. x \in Fit /\ y \in Text /\ z \in Text
    BY <1>1, CatFits, FitsIn, LangIn
  <2>3. Size(x) <= MaxText /\ Size(x) = Size(y) + Size(z) /\ Size(y) \in Nat /\ Size(z) \in Nat
    BY <2>1, <2>2, GlueIs DEF Fit
  <2>4. y \in D
    BY <1>1, <1>2, <2>3 DEF Bounded
  <2>. QED  BY <1>1, <2>1, <2>2, <2>4, CatIn
<1>4. ASSUME NEW x \in Cat(D, B) PROVE x \in Cat(A, B)
  <2>1. PICK y \in D, z \in B : x = Glue(y, z)
    BY CatParts
  <2>2. x \in Fit /\ y \in A
    BY <1>1, <1>2, CatFits, FitsIn
  <2>. QED  BY <1>1, <2>1, <2>2, CatIn
<1>. QED  BY <1>3, <1>4 DEF A, D

-----------------------------------------------------------------------------
(* Objects with properties: i is the property that comes next, left what   *)
(* there is from it on.                                                    *)

Keyed(node, language) ==
  /\ Bounded /\ Len(node.keys) \in Nat /\ Len(node.keys) > 0
  /\ \A i \in 1..Len(node.keys) :
       /\ node.keys[i] \in Text /\ Size(node.keys[i]) >= 2
       /\ Fits(language[node.values[i]]) /\ Nil \notin language[node.values[i]]


Prop(node, language, n, later) ==
  LET i == Len(node.keys) + 1 - n
  IN  Cat({node.keys[i]}, Cat(language[node.values[i]], Onward(later, n - 1)))
        \cup (IF node.required[i] THEN {} ELSE later)

LEMMA OnwardFits ==
  ASSUME Bounded, NEW later, Fits(later), NEW left
  PROVE  Fits(Onward(later, left)) /\ Lang(Onward(later, left)) /\ Nil \notin Onward(later, left)
<1>. DEFINE A == IF left = 0 THEN {} ELSE Cat(One(","), later)
            B == later \cap One("}")
<1>1. Fits(A) /\ Nil \notin A
  <2>1. CASE left = 0
    <3>1. A = {}
      BY <2>1
    <3>. QED  BY <3>1, FitsNone
  <2>2. CASE left # 0
    <3>1. A = Cat(One(","), later)
      BY <2>2
    <3>. QED  BY <3>1, OneLed, BytesAre, LangFit
  <2>. QED  BY <2>1, <2>2
<1>2. Fits(B) /\ Nil \notin B
  <2>1. Nil \notin One("}")
    BY OneIs, BytesAre
  <2>. QED  BY <2>1 DEF Fits
<1>3. Onward(later, left) = A \cup B
  BY DEF Onward, One
<1>. HIDE DEF A, B
<1>4. Fits(A \cup B) /\ Nil \notin A \cup B
  BY <1>1, <1>2, FitUnion
<1>. QED  BY <1>3, <1>4, LangFit

LEMMA PropFits ==
  ASSUME NEW node, NEW language, Keyed(node, language), NEW n \in 1..Len(node.keys),
         NEW later, Fits(later), Nil \notin later
  PROVE  Fits(Prop(node, language, n, later)) /\ Nil \notin Prop(node, language, n, later)
<1>. DEFINE i == Len(node.keys) + 1 - n
            O == Onward(later, n - 1)
            V == language[node.values[i]]
            A == Cat({node.keys[i]}, Cat(V, O))
            B == IF node.required[i] THEN {} ELSE later
<1>0. Bounded /\ i \in 1..Len(node.keys)
  BY DEF Keyed
<1>1. node.keys[i] \in Text /\ Fits(V) /\ Nil \notin V
  BY <1>0 DEF Keyed
<1>2. Lang(O)
  BY <1>0, OnwardFits
<1>3. Lang({node.keys[i]})
  BY <1>1 DEF Lang
<1>4. Prop(node, language, n, later) = A \cup B
  BY DEF Prop
<1>5. Fits(B) /\ Nil \notin B
  BY FitsNone
<1>6. Fits(A) /\ Nil \notin A
  <2>. DEFINE K == {node.keys[i]}
              W == Cat(V, O)
  <2>0. Lang(K) /\ A = Cat(K, W)
    BY <1>3
  <2>. HIDE DEF V, O, K, i
  <2>1. Lang(W) /\ Nil \notin W
    BY <1>0, <1>1, <1>2, LangFit, CatFits, CatNil
  <2>. HIDE DEF W, A
  <2>. QED  BY <1>0, <2>0, <2>1, CatFits, CatNil
<1>. HIDE DEF A, B
<1>7. Fits(A \cup B)
  BY <1>5, <1>6, FitUnion
<1>. QED  BY <1>4, <1>5, <1>6, <1>7

LEMMA PropertiesIs ==
  ASSUME NEW node, NEW language, Keyed(node, language), NEW n \in Nat, n < Len(node.keys)
  PROVE  /\ Properties(node, language, 0) = One("}")
         /\ Properties(node, language, n + 1) = Prop(node, language, n + 1, Properties(node, language, n))
<1>. DEFINE base == Single({"}"})
            P(k, x) == Prop(node, language, k, x)
            Is(h, m) == h = [k \in 0..m |->
              IF k = 0 THEN Single({"}"})
              ELSE LET i == Len(node.keys) + 1 - k
                       later == h[k - 1]
                   IN  Cat({node.keys[i]}, Cat(language[node.values[i]], Onward(later, k - 1)))
                         \cup (IF node.required[i] THEN {} ELSE later)]
            W(m) == CHOOSE h : Is(h, m)
            Top == Len(node.keys)
<1>0. Bounded /\ Top \in Nat
  BY DEF Keyed
<1>1. ASSUME NEW m \in 0..Top PROVE \E h : Is(h, m)
  <2>. DEFINE S == {x \in SUBSET Text : Fits(x) /\ Nil \notin x}
              turn == [x \in S \X (1..m) |-> P(x[2], x[1])]
  <2>0. m \in Nat
    BY <1>0
  <2>1. turn \in [S \X (1..m) -> S]
    <3>1. ASSUME NEW x \in S \X (1..m) PROVE P(x[2], x[1]) \in S
      <4>. DEFINE y == x[1]
                  k == x[2]
      <4>1. Fits(y) /\ Nil \notin y /\ k \in 1..Top
        BY <1>0
      <4>. HIDE DEF y, k
      <4>2. Fits(P(k, y)) /\ Nil \notin P(k, y)
        BY <4>1, PropFits
      <4>3. Lang(P(k, y))
        BY <4>2, LangFit
      <4>. QED  BY <4>2, <4>3, LangSet DEF y, k
    <3>. HIDE DEF S, P
    <3>. QED  BY <3>1
  <2>2. base \in S
    <3>1. Fits(base) /\ Nil \notin base /\ Lang(base)
      BY <1>0, OneIs, BytesAre DEF One
    <3>. QED  BY <3>1, LangSet
  <2>3. PICK f \in [0..m -> S] : Steps(base, m, turn, f)
    <3>. HIDE DEF turn, S, base
    <3>. QED  BY <2>0, <2>1, <2>2, Iterated
  <2>4. ASSUME NEW k \in 0..m PROVE f[k] = IF k = 0 THEN base ELSE P(k, f[k - 1])
    <3>1. f[k] = IF k = 0 THEN base ELSE turn[<<f[k - 1], k>>]
      <4>. HIDE DEF turn, S, base
      <4>. QED  BY <2>3 DEF Steps
    <3>2. CASE k # 0
      <4>1. k \in 1..m /\ k - 1 \in 0..m
        BY <2>0, <3>2
      <4>2. <<f[k - 1], k>> \in S \X (1..m)
        <5>. HIDE DEF S
        <5>. QED  BY <4>1
      <4>3. turn[<<f[k - 1], k>>] = P(k, f[k - 1])
        <5>. HIDE DEF S, P
        <5>. QED  BY <4>2
      <4>. HIDE DEF turn, S, base, P
      <4>. QED  BY <3>1, <3>2, <4>3
    <3>. HIDE DEF turn, S, base, P
    <3>. QED  BY <3>1, <3>2
  <2>5. Is(f, m)
    <3>1. f = [k \in 0..m |-> f[k]]
      <4>. HIDE DEF S
      <4>. QED  OBVIOUS
    <3>2. f = [k \in 0..m |-> IF k = 0 THEN base ELSE P(k, f[k - 1])]
      <4>. HIDE DEF S, P, base
      <4>. QED  BY <2>4, <3>1
    <3>. HIDE DEF S
    <3>. QED  BY <3>2, Zenon DEF Prop
  <2>. HIDE DEF Is
  <2>. QED  BY <2>5
<1>2. ASSUME NEW m \in 0..Top PROVE Is(W(m), m)
  <2>1. \E h : Is(h, m)
    BY <1>1
  <2>. HIDE DEF Is
  <2>. QED  BY <2>1, Zenon
<1>3. ASSUME NEW m \in 0..Top PROVE Properties(node, language, m) = W(m)[m]
  BY Zenon DEF Properties
<1>4. ASSUME NEW m \in 0..Top, NEW k \in 0..m
      PROVE  W(m)[k] = IF k = 0 THEN base ELSE P(k, W(m)[k - 1])
  <2>. DEFINE h == W(m)
  <2>1. Is(h, m)
    BY <1>2
  <2>. HIDE DEF h
  <2>2. h[k] = IF k = 0 THEN base ELSE P(k, h[k - 1])
    BY <2>1, Zenon DEF Prop
  <2>. QED  BY <2>2 DEF h
<1>. HIDE DEF W, Is, P, base
<1>5. 0 \in 0..Top /\ n \in 0..Top /\ n + 1 \in 0..Top /\ 0 \in 0..n /\ 0 \in 0..(n + 1) /\ n \in 0..(n + 1)
  BY <1>0
<1>6. Properties(node, language, 0) = base
  BY <1>3, <1>4, <1>5
<1>7. W(n + 1)[n] = W(n)[n]
  <2>1. W(n + 1)[0] = W(n)[0]
    BY <1>4, <1>5
  <2>2. ASSUME NEW k \in 1..n, W(n + 1)[k - 1] = W(n)[k - 1] PROVE W(n + 1)[k] = W(n)[k]
    <3>1. k \in 0..n /\ k \in 0..(n + 1) /\ k # 0
      OBVIOUS
    <3>. QED  BY <1>4, <1>5, <2>2, <3>1
  <2>3. \A k \in 0..n : W(n + 1)[k] = W(n)[k]
    BY <2>1, <2>2, Agreeing
  <2>. QED  BY <2>3, <1>5
<1>8. W(n + 1)[n + 1] = P(n + 1, W(n + 1)[n])
  <2>1. n + 1 \in 0..(n + 1) /\ n + 1 # 0 /\ (n + 1) - 1 = n
    OBVIOUS
  <2>. QED  BY <1>4, <1>5, <2>1
<1>9. Properties(node, language, n + 1) = P(n + 1, Properties(node, language, n))
  BY <1>3, <1>5, <1>7, <1>8
<1>. QED  BY <1>6, <1>9 DEF P, base, One

LEMMA PropertiesFit ==
  ASSUME NEW node, NEW language, Keyed(node, language), NEW n \in 0..Len(node.keys)
  PROVE  /\ Fits(Properties(node, language, n)) /\ Lang(Properties(node, language, n))
         /\ Nil \notin Properties(node, language, n)
<1>. DEFINE P(k) == Properties(node, language, k)
            Good == {k \in 0..Len(node.keys) : Fits(P(k)) /\ Nil \notin P(k)}
<1>0. Bounded /\ Len(node.keys) \in Nat
  BY DEF Keyed
<1>1. 0 \in Good
  <2>1. 0 \in Nat /\ 0 < Len(node.keys) /\ 0 \in 0..Len(node.keys)
    BY DEF Keyed
  <2>2. P(0) = One("}")
    BY <2>1, PropertiesIs
  <2>3. Fits(P(0)) /\ Nil \notin P(0)
    BY <1>0, <2>2, OneIs, BytesAre
  <2>. QED  BY <2>1, <2>3
<1>2. ASSUME NEW m \in 1..Len(node.keys), m - 1 \in Good PROVE m \in Good
  <2>. DEFINE k == m - 1
              x == P(k)
  <2>1. k \in Nat /\ k < Len(node.keys) /\ m = k + 1 /\ m \in 0..Len(node.keys)
    BY <1>0
  <2>2. Fits(x) /\ Nil \notin x
    BY <1>2
  <2>3. P(k + 1) = Prop(node, language, k + 1, x)
    <3>. HIDE DEF k
    <3>. QED  BY <2>1, PropertiesIs
  <2>. HIDE DEF k, x
  <2>4. P(m) = Prop(node, language, m, x)
    BY <2>1, <2>3
  <2>. HIDE DEF P
  <2>5. Fits(P(m)) /\ Nil \notin P(m)
    BY <2>2, <2>4, PropFits
  <2>. QED  BY <2>1, <2>5
<1>3. n \in Good
  <2>1. \A k \in 0..Len(node.keys) : k \in Good
    <3>. HIDE DEF Good
    <3>. QED  BY <1>0, <1>1, <1>2, Counted
  <2>. QED  BY <2>1
<1>. QED  BY <1>3, LangFit

(* What is left behind the value of a property, and from within its key.   *)
Behind(node, language, i) == Onward(Properties(node, language, Len(node.keys) - i), Len(node.keys) - i)
InKey(node, language, i, k) ==
  Cat(Word(node.keys[i], k), Cat(language[node.values[i]], Behind(node, language, i)))

LEMMA BehindFits ==
  ASSUME NEW node, NEW language, Keyed(node, language), NEW i \in 1..Len(node.keys)
  PROVE  /\ Fits(Behind(node, language, i)) /\ Lang(Behind(node, language, i))
         /\ Nil \notin Behind(node, language, i)
         /\ Fits(Cat(language[node.values[i]], Behind(node, language, i)))
         /\ Nil \notin Cat(language[node.values[i]], Behind(node, language, i))
<1>. DEFINE n == Len(node.keys) - i
            B == Behind(node, language, i)
            V == language[node.values[i]]
<1>0. Bounded /\ n \in 0..Len(node.keys) /\ Fits(V) /\ Nil \notin V
  BY DEF Keyed
<1>1. Fits(Properties(node, language, n))
  <2>. HIDE DEF n
  <2>. QED  BY <1>0, PropertiesFit
<1>2. Fits(B) /\ Lang(B) /\ Nil \notin B
  <2>1. Fits(Onward(Properties(node, language, n), n)) /\ Lang(Onward(Properties(node, language, n), n))
        /\ Nil \notin Onward(Properties(node, language, n), n)
    <3>. HIDE DEF n
    <3>. QED  BY <1>0, <1>1, OnwardFits
  <2>. QED  BY <2>1 DEF Behind
<1>. HIDE DEF B, V
<1>3. Fits(Cat(V, B)) /\ Nil \notin Cat(V, B)
  BY <1>0, <1>2, LangFit, CatFits, CatNil
<1>. QED  BY <1>2, <1>3 DEF B, V

LEMMA InKeyIs ==
  ASSUME NEW node, NEW language, Keyed(node, language), NEW i \in 1..Len(node.keys),
         NEW k \in Nat, k < Size(node.keys[i])
  PROVE  /\ Fits(InKey(node, language, i, k)) /\ Nil \notin InKey(node, language, i, k)
         /\ node.keys[i][k + 1] \in Byte
         /\ InKey(node, language, i, k) = Cat(One(node.keys[i][k + 1]), InKey(node, language, i, k + 1))
         /\ Fits(InKey(node, language, i, k + 1))
         /\ InKey(node, language, i, Size(node.keys[i])) = Cat(language[node.values[i]], Behind(node, language, i))
<1>. DEFINE t == node.keys[i]
            Y == Cat(language[node.values[i]], Behind(node, language, i))
<1>0. Bounded /\ t \in Text
  BY DEF Keyed
<1>1. Fits(Y) /\ Nil \notin Y /\ Lang(Y)
  BY BehindFits, LangFit
<1>2. \A m : InKey(node, language, i, m) = Cat(Word(t, m), Y)
  BY DEF InKey
<1>. HIDE DEF t, Y
<1>3. k + 1 \in Nat /\ k + 1 <= Size(t) /\ k <= Size(t) /\ k < Size(t) /\ Size(t) \in Nat /\ Size(t) <= Size(t)
  BY <1>0, SizeIs DEF t
<1>4. /\ t[k + 1] \in Byte /\ Lang(Word(t, k)) /\ Lang(Word(t, k + 1)) /\ Nil \notin Word(t, k)
      /\ Word(t, k) = Cat(One(t[k + 1]), Word(t, k + 1))
  BY <1>0, <1>3, WordIs
<1>. DEFINE c == t[k + 1]
            D == Word(t, k)
            E == Word(t, k + 1)
<1>5. c \in Byte /\ Lang(D) /\ Lang(E) /\ Nil \notin D /\ D = Cat(One(c), E)
  BY <1>4
<1>6. Word(t, Size(t)) = Nothing
  BY <1>0, <1>3, WordIs
<1>7. Cat(Word(t, Size(t)), Y) = Y
  BY <1>0, <1>1, <1>6, CatNothing
<1>. HIDE DEF c, D, E
<1>8. Fits(Cat(D, Y)) /\ Nil \notin Cat(D, Y) /\ Fits(Cat(E, Y))
  BY <1>0, <1>1, <1>5, CatFits, CatNil
<1>9. Cat(D, Y) = Cat(One(c), Cat(E, Y))
  BY <1>0, <1>1, <1>5, OneIs, CatAssoc
<1>10. InKey(node, language, i, Size(t)) = Y
  BY <1>2, <1>7
<1>. QED  BY <1>2, <1>5, <1>8, <1>9, <1>10 DEF c, D, E, t, Y

(* The property that comes next is written, or left out if it may be.      *)
LEMMA NextProperty ==
  ASSUME NEW node, NEW language, Keyed(node, language), NEW i \in 1..Len(node.keys)
  PROVE  Properties(node, language, Len(node.keys) + 1 - i)
           = InKey(node, language, i, 0)
               \cup (IF node.required[i] THEN {}
                     ELSE Properties(node, language, Len(node.keys) + 1 - (i + 1)))
<1>. DEFINE n == Len(node.keys) - i
            P(k) == Properties(node, language, k)
            Y == Cat(language[node.values[i]], Behind(node, language, i))
            t == node.keys[i]
<1>0. /\ Bounded /\ n \in Nat /\ n < Len(node.keys) /\ Len(node.keys) + 1 - i = n + 1
      /\ Len(node.keys) + 1 - (n + 1) = i /\ (n + 1) - 1 = n /\ t \in Text
      /\ Len(node.keys) + 1 - (i + 1) = n
  <2>1. Len(node.keys) \in Nat /\ Bounded /\ t \in Text
    BY DEF Keyed
  <2>. DEFINE l == Len(node.keys)
  <2>2. l \in Nat /\ i \in 1..l
    BY <2>1
  <2>. HIDE DEF l
  <2>3. l - i \in Nat /\ l - i < l /\ l + 1 - i = (l - i) + 1 /\ l + 1 - ((l - i) + 1) = i /\ ((l - i) + 1) - 1 = l - i
        /\ l + 1 - (i + 1) = l - i
    BY <2>2
  <2>. QED  BY <2>1, <2>3 DEF l
<1>1. P(n + 1) = Prop(node, language, n + 1, P(n))
  <2>. HIDE DEF n
  <2>. QED  BY <1>0, PropertiesIs
<1>2. Lang(Y)
  BY BehindFits, LangFit
<1>3. Behind(node, language, i) = Onward(P(n), n)
  BY DEF Behind
<1>. HIDE DEF n
<1>4. Prop(node, language, n + 1, P(n)) = Cat({t}, Y) \cup (IF node.required[i] THEN {} ELSE P(n))
  BY <1>0, <1>3 DEF Prop
<1>5. Cat({t}, Y) = InKey(node, language, i, 0)
  <2>. HIDE DEF Y, t
  <2>1. Cat({t}, Y) = Cat(Word(t, 0), Y)
    BY <1>0, <1>2, CatWord
  <2>. QED  BY <2>1 DEF Y, t, InKey
<1>. QED  BY <1>0, <1>1, <1>4, <1>5

(* Only the end of an object is one byte, where nothing has to come.       *)
LEMMA EndOnly ==
  ASSUME NEW node, NEW language, Keyed(node, language), NEW i \in 1..Len(node.keys)
  PROVE  Lead("}", Nil) \in Properties(node, language, Len(node.keys) - i) <=> AllOptional(node, i + 1)
<1>. DEFINE l == Len(node.keys)
            P(k) == Properties(node, language, k)
            e == Lead("}", Nil)
            Good == {k \in 0..l : e \in P(k) <=> AllOptional(node, l + 1 - k)}
<1>0. Bounded /\ l \in Nat /\ l > 0
  BY DEF Keyed
<1>1. 0 \in Good
  <2>1. 0 \in Nat /\ 0 < l
    BY <1>0
  <2>2. P(0) = One("}")
    <3>. HIDE DEF P
    <3>. QED  BY <2>1, PropertiesIs DEF P, l
  <2>3. e \in One("}")
    <3>1. <<"}">> = e
      BY BytesAre, NilIs, LeadIs
    <3>. QED  BY <3>1 DEF One, Single
  <2>4. AllOptional(node, l + 1 - 0)
    BY <1>0 DEF AllOptional
  <2>5. 0 \in 0..l
    BY <1>0
  <2>. HIDE DEF l, P, e
  <2>. QED  BY <2>2, <2>3, <2>4, <2>5
<1>2. ASSUME NEW m \in 1..l, m - 1 \in Good PROVE m \in Good
  <2>. DEFINE j == l + 1 - m
              t == node.keys[j]
              c == t[1]
              X == InKey(node, language, j, 1)
  <2>1. j \in 1..l /\ l + 1 - j = m /\ l + 1 - (j + 1) = m - 1 /\ l + 1 - (m - 1) = j + 1 /\ m \in 0..l
    <3>. HIDE DEF l
    <3>. QED  BY <1>0
  <2>. HIDE DEF j
  <2>2. P(m) = InKey(node, language, j, 0) \cup (IF node.required[j] THEN {} ELSE P(m - 1))
    <3>1. P(l + 1 - j) = InKey(node, language, j, 0) \cup (IF node.required[j] THEN {} ELSE P(l + 1 - (j + 1)))
      <4>1. j \in 1..Len(node.keys)
        BY <2>1
      <4>. HIDE DEF e, Good, t, c, X
      <4>. QED  BY <4>1, NextProperty, Zenon
    <3>. HIDE DEF l, P
    <3>. QED  BY <2>1, <3>1
  <2>3. t \in Text /\ Size(t) >= 2 /\ Size(t) \in Nat
    <3>1. t \in Text /\ Size(t) >= 2
      BY <2>1 DEF Keyed
    <3>. QED  BY <3>1, SizeIs
  <2>4. e \notin InKey(node, language, j, 0)
    <3>1. 0 \in Nat /\ 0 < Size(t) /\ 1 \in Nat /\ 1 < Size(t) /\ 0 + 1 = 1
      BY <2>3
    <3>2. c \in Byte /\ InKey(node, language, j, 0) = Cat(One(c), X)
      BY <2>1, <3>1, InKeyIs
    <3>3. Fits(X) /\ Nil \notin X
      BY <2>1, <3>1, InKeyIs
    <3>. HIDE DEF c, X, t
    <3>4. Reading("}", Nil, X)
      <4>1. Size(Nil) < MaxText /\ Nil \in Text
        BY <1>0, NilIs DEF Bounded
      <4>. QED  BY <1>0, <3>3, <4>1, BytesAre DEF Reading
    <3>5. e \notin Cat(One(c), X)
      BY <3>2, <3>3, <3>4, ReadOne
    <3>. QED  BY <3>2, <3>5
  <2>5. AllOptional(node, j) <=> ~node.required[j] /\ AllOptional(node, j + 1)
    BY <2>1, <1>0 DEF AllOptional
  <2>6. e \in P(m - 1) <=> AllOptional(node, j + 1)
    BY <1>2, <2>1
  <2>7. AllOptional(node, l + 1 - m) <=> AllOptional(node, j)
    BY DEF j
  <2>. HIDE DEF e, P, l
  <2>8. e \in P(m) <=> AllOptional(node, l + 1 - m)
    BY <2>2, <2>4, <2>5, <2>6, <2>7
  <2>. QED  BY <2>1, <2>8
<1>3. \A k \in 0..l : k \in Good
  <2>. HIDE DEF Good, l
  <2>. QED  BY <1>0, <1>1, <1>2, Counted
<1>4. l - i \in 0..l /\ l + 1 - (l - i) = i + 1
  <2>. HIDE DEF l
  <2>1. i \in 1..l
    BY DEF l
  <2>. QED  BY <1>0, <2>1
<1>5. l - i \in Good
  BY <1>3, <1>4
<1>. QED  BY <1>4, <1>5

-----------------------------------------------------------------------------
(* The grammar of a request, and what its nodes spell.                     *)

Setting(g, L) == Bounded /\ WellFormed(g) /\ IsLanguage(g, L)

Kinds == {"literal", "string", "number", "array", "free", "object", "anyOf"}

(* What is used of a node, by its kind.                                    *)
Plan(g, node) ==
  /\ node.kind \in Kinds /\ node.min \in Nat /\ node.max \in Int /\ node.integer \in BOOLEAN
  /\ node.kind = "literal" => node.text \in Text /\ Size(node.text) > 0 /\ node.text[1] # "]"
  /\ node.kind = "array" => node.item \in DOMAIN g
  /\ node.kind = "free" => /\ node.values[1] \in DOMAIN g /\ node.values[2] \in DOMAIN g
                           /\ g[node.values[1]].kind = "string"
  /\ node.kind = "object" =>
       /\ Len(node.keys) \in Nat /\ Len(node.keys) > 0
       /\ \A i \in 1..Len(node.keys) :
            /\ node.keys[i] \in Text /\ Size(node.keys[i]) >= 2 /\ node.values[i] \in DOMAIN g
            /\ node.required[i] \in BOOLEAN

LEMMA NodeIs ==
  ASSUME NEW g, NEW L, Setting(g, L), NEW id \in DOMAIN g
  PROVE  Plan(g, g[id])
<1>. DEFINE node == g[id]
            ids == DOMAIN g
<1>1. WellFormed(g)
  BY DEF Setting
<1>2. g \in Seq(NodeOf(g))
  BY <1>1 DEF WellFormed
<1>3. node \in NodeOf(g)
  BY <1>2
<1>4. /\ node.kind = "literal" => node.text # <<>> /\ node.text[1] # "]"
      /\ node.kind = "array" => node.item # 0
      /\ node.kind = "free" => Len(node.values) = 2 /\ g[node.values[1]].kind = "string"
      /\ node.kind = "object" =>
            /\ Len(node.keys) > 0
            /\ Len(node.values) = Len(node.keys) /\ Len(node.required) = Len(node.keys)
            /\ \A i \in DOMAIN node.keys : Len(node.keys[i]) >= 2
  BY <1>1 DEF WellFormed
<1>. HIDE DEF node, ids
<1>5. /\ node.kind \in Kinds /\ node.keys \in Seq(Seq(Byte)) /\ node.values \in Seq(ids)
      /\ node.required \in Seq(BOOLEAN) /\ node.item \in ids \cup {0} /\ node.min \in Nat
      /\ node.max \in Int /\ node.integer \in BOOLEAN /\ node.text \in Seq(Byte)
  BY <1>3 DEF NodeOf, Kinds, ids
<1>6. node.kind = "literal" => node.text \in Text /\ Size(node.text) > 0 /\ node.text[1] # "]"
  <2>1. node.text \in Text
    BY <1>5 DEF Text
  <2>2. node.text # Nil => Size(node.text) > 0
    BY <2>1, SizeIs, NoSize
  <2>. QED  BY <1>4, <2>1, <2>2 DEF Nil
<1>7. node.kind = "array" => node.item \in ids
  BY <1>4, <1>5
<1>8. node.kind = "free" => node.values[1] \in ids /\ node.values[2] \in ids
  BY <1>4, <1>5
<1>9. ASSUME node.kind = "object"
      PROVE  /\ Len(node.keys) \in Nat /\ Len(node.keys) > 0
             /\ \A i \in 1..Len(node.keys) :
                  /\ node.keys[i] \in Text /\ Size(node.keys[i]) >= 2 /\ node.values[i] \in ids
                  /\ node.required[i] \in BOOLEAN
  <2>1. /\ Len(node.keys) \in Nat /\ Len(node.keys) > 0 /\ DOMAIN node.keys = 1..Len(node.keys)
        /\ Len(node.values) = Len(node.keys) /\ Len(node.required) = Len(node.keys)
    BY <1>4, <1>5, <1>9
  <2>2. ASSUME NEW i \in 1..Len(node.keys)
        PROVE  /\ node.keys[i] \in Text /\ Size(node.keys[i]) >= 2 /\ node.values[i] \in ids
               /\ node.required[i] \in BOOLEAN
    <3>1. node.keys[i] \in Seq(Byte)
      BY <1>5, <2>1
    <3>2. node.values[i] \in ids
      BY <1>5, <2>1
    <3>3. node.required[i] \in BOOLEAN
      BY <1>5, <2>1
    <3>4. Len(node.keys[i]) >= 2
      BY <1>4, <1>9, <2>1
    <3>. QED  BY <3>1, <3>2, <3>3, <3>4 DEF Text, Size
  <2>. QED  BY <2>1, <2>2
<1>. QED  BY <1>4, <1>5, <1>6, <1>7, <1>8, <1>9 DEF Plan, node, ids

(* What a choice comes down to is no choice, and any other node itself.    *)
LEMMA AlternativesAre ==
  ASSUME NEW g, NEW L, Setting(g, L), NEW id \in DOMAIN g
  PROVE  /\ \A c \in Alternatives(g, id) : c \in DOMAIN g /\ g[c].kind # "anyOf"
         /\ g[id].kind # "anyOf" => Alternatives(g, id) = {id}
<1>. DEFINE ids == DOMAIN g
            Ends == {c \in ids : g[c].kind # "anyOf"}
            Row(n, x) == [c \in ids |->
                            IF g[c].kind # "anyOf" THEN {c}
                            ELSE IF n = 0 THEN {}
                            ELSE UNION {x[option] : option \in Range(g[c].options)}]
            Is(h, m) == h = [n \in 0..m |-> Row(n, h[n - 1])]
            top == Len(g)
            W == CHOOSE h : Is(h, top)
            S == [ids -> SUBSET Ends]
<1>0. top \in Nat /\ \A c \in ids : Range(g[c].options) \subseteq ids
  <2>1. g \in Seq(NodeOf(g))
    BY DEF Setting, WellFormed
  <2>2. ASSUME NEW c \in ids PROVE Range(g[c].options) \subseteq ids
    <3>1. g[c] \in NodeOf(g)
      BY <2>1
    <3>2. g[c].options \in Seq(ids)
      BY <3>1 DEF NodeOf
    <3>. QED  BY <3>2 DEF Range
  <2>. QED  BY <2>1, <2>2
<1>1. ASSUME NEW n, NEW x \in S PROVE Row(n, x) \in S
  <2>1. ASSUME NEW c \in ids
        PROVE  (IF g[c].kind # "anyOf" THEN {c} ELSE IF n = 0 THEN {}
                ELSE UNION {x[option] : option \in Range(g[c].options)}) \in SUBSET Ends
    <3>1. \A option \in Range(g[c].options) : x[option] \in SUBSET Ends
      BY <1>0
    <3>. QED  BY <3>1
  <2>. QED  BY <2>1
<1>2. \A x, y : Row(0, x) = Row(0, y)
  OBVIOUS
<1>3. \E x : x \in S
  <2>1. [c \in ids |-> {}] \in S
    OBVIOUS
  <2>. QED  BY <2>1
<1>4. \E h : Is(h, top)
  <2>. DEFINE turn == [x \in S \X (1..top) |-> Row(x[2], x[1])]
  <2>1. PICK none : none \in S
    BY <1>3
  <2>. DEFINE base == Row(0, none)
  <2>2. base \in S
    <3>. HIDE DEF S, Row
    <3>. QED  BY <1>1, <2>1
  <2>3. turn \in [S \X (1..top) -> S]
    <3>. HIDE DEF S, Row
    <3>. QED  BY <1>1
  <2>4. PICK f \in [0..top -> S] : Steps(base, top, turn, f)
    <3>. HIDE DEF S, base, turn, top
    <3>. QED  BY <1>0, <2>2, <2>3, Iterated
  <2>5. ASSUME NEW k \in 0..top PROVE f[k] = Row(k, f[k - 1])
    <3>1. f[k] = IF k = 0 THEN base ELSE turn[<<f[k - 1], k>>]
      <4>. HIDE DEF S, base, turn, top
      <4>. QED  BY <2>4 DEF Steps
    <3>2. CASE k = 0
      <4>1. f[k] = Row(0, none)
        <5>. HIDE DEF S, turn, top, Row
        <5>. QED  BY <3>1, <3>2
      <4>2. Row(0, none) = Row(0, f[k - 1])
        <5>. HIDE DEF S, turn, top, Row
        <5>. QED  BY <1>2
      <4>. HIDE DEF S, turn, top, Row
      <4>. QED  BY <3>2, <4>1, <4>2
    <3>3. CASE k # 0
      <4>1. k \in 1..top /\ k - 1 \in 0..top
        <5>. HIDE DEF S, Row
        <5>. QED  BY <1>0, <3>3
      <4>2. <<f[k - 1], k>> \in S \X (1..top)
        <5>. HIDE DEF S, Row
        <5>. QED  BY <4>1
      <4>3. turn[<<f[k - 1], k>>] = Row(k, f[k - 1])
        <5>. HIDE DEF S, Row
        <5>. QED  BY <4>2
      <4>. HIDE DEF S, Row, turn
      <4>. QED  BY <3>1, <3>3, <4>3
    <3>. QED  BY <3>2, <3>3
  <2>6. f = [k \in 0..top |-> f[k]]
    <3>. HIDE DEF S
    <3>. QED  OBVIOUS
  <2>7. Is(f, top)
    <3>. HIDE DEF S, Row, top
    <3>. QED  BY <2>5, <2>6
  <2>. HIDE DEF Is
  <2>. QED  BY <2>7
<1>5. Is(W, top)
  <2>. HIDE DEF Is
  <2>. QED  BY <1>4, Zenon
<1>6. Alternatives(g, id) = W[top][id]
  BY Zenon DEF Alternatives
<1>. HIDE DEF W
<1>7. ASSUME NEW k \in 0..top PROVE W[k] = Row(k, W[k - 1])
  <2>. HIDE DEF Row, top
  <2>. QED  BY <1>5
<1>. DEFINE Good == {k \in 0..top : W[k] \in S}
<1>8. 0 \in Good
  <2>1. 0 \in 0..top
    BY <1>0
  <2>2. PICK none : none \in S
    BY <1>3
  <2>3. W[0] = Row(0, none)
    <3>. HIDE DEF Row, top, S
    <3>. QED  BY <1>2, <1>7, <2>1
  <2>4. W[0] \in S
    <3>. HIDE DEF Row, top, S
    <3>. QED  BY <1>1, <2>2, <2>3
  <2>. QED  BY <2>1, <2>4
<1>9. ASSUME NEW m \in 1..top, m - 1 \in Good PROVE m \in Good
  <2>. HIDE DEF Row, S
  <2>1. m \in 0..top
    BY <1>0
  <2>2. W[m - 1] \in S
    BY <1>9
  <2>. QED  BY <1>1, <1>7, <2>1, <2>2
<1>10. W[top] \in S
  <2>1. \A k \in 0..top : k \in Good
    <3>. HIDE DEF Good, top
    <3>. QED  BY <1>0, <1>8, <1>9, Counted
  <2>2. top \in 0..top
    BY <1>0
  <2>. QED  BY <2>1, <2>2
<1>11. Alternatives(g, id) \subseteq Ends
  BY <1>6, <1>10
<1>12. ASSUME g[id].kind # "anyOf" PROVE Alternatives(g, id) = {id}
  <2>1. top \in 0..top
    BY <1>0
  <2>2. W[top] = Row(top, W[top - 1])
    <3>. HIDE DEF Row, top
    <3>. QED  BY <1>7, <2>1
  <2>3. Row(top, W[top - 1])[id] = {id}
    BY <1>12
  <2>. HIDE DEF Row
  <2>. QED  BY <1>6, <2>2, <2>3
<1>13. ASSUME NEW c \in Alternatives(g, id) PROVE c \in DOMAIN g /\ g[c].kind # "anyOf"
  BY <1>11
<1>. QED  BY <1>12, <1>13

LEMMA LanguageIs ==
  ASSUME NEW g, NEW L, Setting(g, L), NEW id \in DOMAIN g
  PROVE  /\ Fits(L[id]) /\ Lang(L[id]) /\ Nil \notin L[id]
         /\ \A t : t \in L[id] <=>
              Size(t) <= MaxText /\ \E c \in Alternatives(g, id) : t \in SpelledBy(g[c], L)
<1>1. L \in [DOMAIN g -> SUBSET (Seq(Byte) \ {<<>>})] /\ L[id] = Spelled(g, L, id)
  BY DEF Setting, IsLanguage
<1>2. ASSUME NEW t
      PROVE  t \in L[id] <=>
              Size(t) <= MaxText /\ \E c \in Alternatives(g, id) : t \in SpelledBy(g[c], L)
  <2>1. t \in Spelled(g, L, id) <=>
          t \in UNION {SpelledBy(g[c], L) : c \in Alternatives(g, id)} /\ Size(t) <= MaxText
    BY UpToIs DEF Spelled
  <2>. QED  BY <1>1, <2>1
<1>3. ASSUME NEW t \in L[id] PROVE t \in Text /\ t # Nil
  <2>1. L[id] \subseteq Seq(Byte) \ {<<>>}
    BY <1>1
  <2>. QED  BY <2>1 DEF Text, Nil
<1>4. Fits(L[id]) /\ Nil \notin L[id]
  BY <1>2, <1>3 DEF Fits, Fit
<1>. QED  BY <1>2, <1>4, LangFit

(* The parts of a node are languages too.                                  *)
LEMMA PartsAre ==
  ASSUME NEW g, NEW L, Setting(g, L), NEW id \in DOMAIN g
  PROVE  /\ g[id].kind = "array" => Counts(g[id], L[g[id].item])
         /\ g[id].kind = "free" => Pair2(L[g[id].values[1]], L[g[id].values[2]])
         /\ g[id].kind = "object" => Keyed(g[id], L)
<1>. DEFINE node == g[id]
<1>0. Bounded /\ Plan(g, node)
  BY NodeIs DEF Setting
<1>1. ASSUME NEW c \in DOMAIN g PROVE Fits(L[c]) /\ Nil \notin L[c]
  BY LanguageIs
<1>. HIDE DEF node
<1>2. node.kind = "array" => Counts(node, L[node.item])
  BY <1>0, <1>1 DEF Counts, Plan
<1>3. node.kind = "free" => Pair2(L[node.values[1]], L[node.values[2]])
  BY <1>0, <1>1 DEF Pair2, Plan
<1>4. ASSUME node.kind = "object" PROVE Keyed(node, L)
  <2>1. /\ Len(node.keys) \in Nat /\ Len(node.keys) > 0
        /\ \A i \in 1..Len(node.keys) :
              node.keys[i] \in Text /\ Size(node.keys[i]) >= 2 /\ node.values[i] \in DOMAIN g
    BY <1>0, <1>4 DEF Plan
  <2>2. \A i \in 1..Len(node.keys) : Fits(L[node.values[i]]) /\ Nil \notin L[node.values[i]]
    BY <1>1, <2>1
  <2>. QED  BY <1>0, <2>1, <2>2 DEF Keyed
<1>. QED  BY <1>2, <1>3, <1>4 DEF node

(* What a node spells, for each kind of node: a first byte and a rest.     *)
Form(g, L, node) ==
  /\ node.kind = "literal" => SpelledBy(node, L) = {node.text}
  /\ node.kind = "string" => SpelledBy(node, L) = Cat(One("'"), StringBody)
  /\ node.kind = "number" => SpelledBy(node, L) = NumberRest(node.integer, 0)
  /\ node.kind = "array" => SpelledBy(node, L) = Cat(One("["), Items(node, L[node.item], 0))
  /\ node.kind = "free" => SpelledBy(node, L)
       = Cat(One("{"), One("}") \cup Members(L[node.values[1]], L[node.values[2]]))
  /\ node.kind = "object" => SpelledBy(node, L)
       = Cat(One("{"), Properties(node, L, Len(node.keys)))
  /\ Lang(SpelledBy(node, L))

LEMMA FormIs ==
  ASSUME NEW g, NEW L, Setting(g, L), NEW id \in DOMAIN g, g[id].kind # "anyOf"
  PROVE  Form(g, L, g[id])
<1>. DEFINE node == g[id]
            X == SpelledBy(node, L)
<1>0. Bounded /\ Plan(g, node)
  BY NodeIs DEF Setting
<1>1. CASE node.kind = "literal"
  <2>1. X = {node.text}
    BY <1>1 DEF SpelledBy
  <2>2. node.text \in Text
    BY <1>0, <1>1 DEF Plan
  <2>3. Lang(X)
    BY <2>1, <2>2 DEF Lang
  <2>. HIDE DEF node, X
  <2>. QED  BY <1>1, <2>1, <2>3 DEF Form, node, X
<1>2. CASE node.kind = "string"
  <2>1. X = Cat(Quote, Many(Symbols, Quote, MaxText - 2))
    BY <1>2 DEF SpelledBy
  <2>2. X = Cat(One("'"), StringBody)
    BY <1>0, <2>1, StringIs DEF One
  <2>3. Lang(X)
    BY <1>0, <2>2, BodyIs, OneLed, BytesAre
  <2>. HIDE DEF node, X
  <2>. QED  BY <1>2, <2>2, <2>3 DEF Form, node, X
<1>3. CASE node.kind = "number"
  <2>1. X = NumberRest(node.integer, 0)
    BY <1>3 DEF SpelledBy, NumberRest
  <2>2. node.integer \in BOOLEAN
    BY <1>0 DEF Plan
  <2>3. NumberParts(node.integer)
    BY <1>0, <2>2, NumberIs
  <2>4. Lang(NumberRest(node.integer, 0))
    BY <2>3 DEF NumberParts
  <2>. HIDE DEF node, X
  <2>. QED  BY <1>3, <2>1, <2>4 DEF Form, node, X
<1>4. CASE node.kind = "array"
  <2>1. X = Cat(One("["), Items(node, L[node.item], 0))
    BY <1>4 DEF SpelledBy, One
  <2>2. Counts(node, L[node.item])
    BY <1>4, PartsAre
  <2>3. Room(node, 0)
    BY <1>0 DEF Room, Plan
  <2>. HIDE DEF node, X
  <2>4. Lang(Items(node, L[node.item], 0))
    <3>1. 0 \in Nat
      OBVIOUS
    <3>. QED  BY <2>2, <2>3, <3>1, ItemsAre
  <2>5. Lang(X)
    BY <1>0, <2>1, <2>4, OneLed, BytesAre
  <2>. QED  BY <1>4, <2>1, <2>5 DEF Form, node, X
<1>5. CASE node.kind = "free"
  <2>. DEFINE key == L[node.values[1]]
              value == L[node.values[2]]
  <2>1. X = Cat(One("{"), One("}") \cup Cat(Member(key, value), MoreMembers(key, value)))
    BY <1>5 DEF SpelledBy, One
  <2>2. Pair2(key, value)
    BY <1>5, PartsAre
  <2>. HIDE DEF node, X
  <2>3. X = Cat(One("{"), One("}") \cup Members(key, value)) /\ Lang(Members(key, value))
    <3>. HIDE DEF key, value
    <3>. QED  BY <2>1, <2>2, MembersAre
  <2>4. Lang(One("}") \cup Members(key, value))
    BY <1>0, <2>3, OneIs, BytesAre, LangUnion
  <2>5. Lang(X)
    BY <1>0, <2>3, <2>4, OneLed, BytesAre
  <2>. QED  BY <1>5, <2>3, <2>5 DEF Form, node, X
<1>6. CASE node.kind = "object"
  <2>1. X = Cat(One("{"), Properties(node, L, Len(node.keys)))
    BY <1>6 DEF SpelledBy, One
  <2>2. Keyed(node, L)
    BY <1>6, PartsAre
  <2>. HIDE DEF node, X
  <2>3. Len(node.keys) \in 0..Len(node.keys)
    BY <2>2 DEF Keyed
  <2>4. Lang(Properties(node, L, Len(node.keys)))
    BY <2>2, <2>3, PropertiesFit
  <2>5. Lang(X)
    BY <1>0, <2>1, <2>4, OneLed, BytesAre
  <2>. QED  BY <1>6, <2>1, <2>5 DEF Form, node, X
<1>7. node.kind \in Kinds /\ node.kind # "anyOf"
  BY <1>0 DEF Plan
<1>. QED  BY <1>1, <1>2, <1>3, <1>4, <1>5, <1>6, <1>7 DEF Kinds

(* A text of a node is one of what it comes down to.                       *)
LEMMA ReadLanguage ==
  ASSUME NEW b, NEW w, NEW S, Reading(b, w, S), NEW g, NEW L, Setting(g, L), NEW id \in DOMAIN g
  PROVE  Lead(b, w) \in Cat(L[id], S) <=>
           \E c \in Alternatives(g, id) : Lead(b, w) \in Cat(SpelledBy(g[c], L), S)
<1>. DEFINE t == Lead(b, w)
            C == Alternatives(g, id)
            X(c) == SpelledBy(g[c], L)
            A == L[id]
<1>0. Bounded /\ Lang(S)
  BY LangFit DEF Reading
<1>1. Lang(A) /\ \A u : u \in A <=> Size(u) <= MaxText /\ \E c \in C : u \in X(c)
  BY LanguageIs
<1>2. ASSUME NEW c \in C PROVE Lang(X(c))
  <2>1. c \in DOMAIN g /\ g[c].kind # "anyOf"
    BY AlternativesAre
  <2>. QED  BY <2>1, FormIs DEF Form
<1>. HIDE DEF t, C, X, A
<1>3. ASSUME t \in Cat(A, S) PROVE \E c \in C : t \in Cat(X(c), S)
  <2>1. PICK x \in A, y \in S : t = Glue(x, y)
    BY <1>3, CatParts
  <2>2. PICK c \in C : x \in X(c)
    BY <1>1
  <2>3. t \in Fit
    BY <1>0, <1>1, <1>3, CatFits, FitsIn
  <2>4. t \in Cat(X(c), S)
    <3>. DEFINE B == X(c)
    <3>1. Lang(B) /\ x \in B
      BY <1>2, <2>2
    <3>. HIDE DEF B
    <3>2. t \in Cat(B, S)
      BY <1>0, <2>1, <2>3, <3>1, CatIn
    <3>. QED  BY <3>2 DEF B
  <2>. QED  BY <2>4
<1>4. ASSUME NEW c \in C, t \in Cat(X(c), S) PROVE t \in Cat(A, S)
  <2>. DEFINE B == X(c)
  <2>0. Lang(B) /\ t \in Cat(B, S) /\ \A x \in B : x \in X(c)
    BY <1>2, <1>4
  <2>. HIDE DEF B
  <2>1. PICK x \in B, y \in S : t = Glue(x, y)
    BY <2>0, CatParts
  <2>2. t \in Fit
    BY <1>0, <2>0, CatFits, FitsIn
  <2>3. x \in Text /\ y \in Text
    BY <1>0, <2>0, LangIn
  <2>4. Size(t) <= MaxText /\ Size(t) = Size(x) + Size(y) /\ Size(x) \in Nat /\ Size(y) \in Nat
    BY <2>1, <2>2, <2>3, GlueIs DEF Fit
  <2>5. Size(x) <= MaxText
    BY <1>0, <2>4 DEF Bounded
  <2>6. x \in A
    BY <1>1, <2>0, <2>5
  <2>. QED  BY <1>0, <1>1, <2>1, <2>2, <2>6, CatIn
<1>. QED  BY <1>3, <1>4 DEF t, C, X, A

-----------------------------------------------------------------------------
(* Frames: where in its node a frame is, and what is left of the node.     *)

Frames(g) == [node : DOMAIN g, phase : 0..8, i : Nat, k : Nat]

Place(node, f) ==
  \/ node.kind = "literal" /\ f.phase = 0 /\ f.k < Size(node.text)
  \/ node.kind # "literal" /\ f.phase = 0
  \/ node.kind = "string" /\ f.phase \in {1, 2}
  \/ node.kind = "number" /\ f.phase # 0 /\ (node.integer => f.phase <= 3)
  \/ node.kind = "array" /\ f.phase \in {1, 2} /\ Room(node, f.i)
  \/ node.kind = "free" /\ f.phase = 1
  \/ node.kind = "free" /\ f.phase \in {2, 3, 4} /\ f.i > 0
  \/ node.kind = "object" /\ f.phase \in {1, 3} /\ f.i \in 1..Len(node.keys)
  \/ node.kind = "object" /\ f.phase = 2 /\ f.i \in 1..Len(node.keys) /\ f.k < Size(node.keys[f.i])

SoundFrame(g, f) == f \in Frames(g) /\ Place(g[f.node], f)

(* A frame below others waits for what is above it.                        *)
Waiting(g, f) ==
  /\ SoundFrame(g, f)
  /\ \/ g[f.node].kind = "array" /\ f.phase = 2
     \/ g[f.node].kind = "free" /\ f.phase \in {2, 4}
     \/ g[f.node].kind = "object" /\ f.phase = 3

(* An object without members may end.                                      *)
Inside(key, value) == One("}") \cup Members(key, value)

LeftOf(node, L, f) ==
  CASE node.kind = "literal" -> Word(node.text, f.k)
    [] node.kind # "literal" /\ f.phase = 0 -> L[f.node]
    [] node.kind = "string" /\ f.phase = 1 -> StringBody
    [] node.kind = "string" /\ f.phase = 2 -> Cat(Single(Escapes), StringBody)
    [] node.kind = "number" /\ f.phase # 0 -> NumberRest(node.integer, f.phase)
    [] node.kind = "array" /\ f.phase = 1 -> Items(node, L[node.item], f.i)
    [] node.kind = "array" /\ f.phase = 2 -> MoreItems(node, L[node.item], f.i)
    [] node.kind = "free" /\ f.phase = 1 /\ f.i = 0 ->
         Inside(L[node.values[1]], L[node.values[2]])
    [] node.kind = "free" /\ f.phase = 1 /\ f.i # 0 ->
         Members(L[node.values[1]], L[node.values[2]])
    [] node.kind = "free" /\ f.phase = 2 ->
         Cat(One(":"), Cat(L[node.values[2]], MoreMembers(L[node.values[1]], L[node.values[2]])))
    [] node.kind = "free" /\ f.phase = 3 ->
         Cat(L[node.values[2]], MoreMembers(L[node.values[1]], L[node.values[2]]))
    [] node.kind = "free" /\ f.phase = 4 -> MoreMembers(L[node.values[1]], L[node.values[2]])
    [] node.kind = "object" /\ f.phase = 1 -> Properties(node, L, Len(node.keys) + 1 - f.i)
    [] node.kind = "object" /\ f.phase = 2 -> InKey(node, L, f.i, f.k)
    [] node.kind = "object" /\ f.phase = 3 -> Behind(node, L, f.i)

Rest(g, L, f) == LeftOf(g[f.node], L, f)

LEMMA FrameIs ==
  ASSUME NEW g, NEW id \in DOMAIN g, NEW at \in 0..8, NEW i \in Nat, NEW k \in Nat
  PROVE  /\ Frame(id, at, i, k) \in Frames(g)
         /\ Frame(id, at, i, k).node = id /\ Frame(id, at, i, k).phase = at
         /\ Frame(id, at, i, k).i = i /\ Frame(id, at, i, k).k = k
BY DEF Frame, Frames

LEMMA FrameOf ==
  ASSUME NEW g, NEW id, id \in DOMAIN g, NEW at, at \in 0..8, NEW i, i \in Nat, NEW k, k \in Nat,
         NEW h, h = Frame(id, at, i, k)
  PROVE  h \in Frames(g) /\ h.node = id /\ h.phase = at /\ h.i = i /\ h.k = k
BY DEF Frame, Frames

LEMMA Phases ==
  /\ 0 \in Nat /\ 0 \in 0..8 /\ 1 \in 0..8 /\ 2 \in 0..8 /\ 3 \in 0..8 /\ 4 \in 0..8
  /\ 1 \in Nat
OBVIOUS

LEMMA InFrames ==
  ASSUME NEW g, NEW f, SoundFrame(g, f)
  PROVE  /\ f \in Frames(g) /\ f.node \in DOMAIN g /\ f.phase \in 0..8 /\ f.i \in Nat /\ f.k \in Nat
         /\ Place(g[f.node], f)
BY DEF SoundFrame, Frames

LEMMA FreeParts ==
  ASSUME NEW g, NEW L, Setting(g, L), NEW id \in DOMAIN g, g[id].kind = "free"
  PROVE  LET X == Members(L[g[id].values[1]], L[g[id].values[2]])
             M == MoreMembers(L[g[id].values[1]], L[g[id].values[2]])
             V == Cat(L[g[id].values[2]], M)
             I == Inside(L[g[id].values[1]], L[g[id].values[2]])
         IN  /\ Fits(X) /\ Nil \notin X /\ Fits(M) /\ Nil \notin M
             /\ Fits(V) /\ Nil \notin V /\ Fits(Cat(One(":"), V)) /\ Nil \notin Cat(One(":"), V)
             /\ Fits(I) /\ Nil \notin I
<1>. DEFINE key == L[g[id].values[1]]
            value == L[g[id].values[2]]
            X == Members(key, value)
            M == MoreMembers(key, value)
            V == Cat(value, M)
<1>1. Pair2(key, value) /\ Bounded
  BY PartsAre DEF Setting
<1>. HIDE DEF key, value
<1>2. Fits(X) /\ Nil \notin X /\ Fits(M) /\ Lang(M) /\ Nil \notin M /\ Fits(V) /\ Fits(Cat(One(":"), V))
  BY <1>1, MembersAre
<1>3. Lang(value) /\ Nil \notin value
  BY <1>1, LangFit DEF Pair2
<1>. HIDE DEF X, M
<1>4. Nil \notin V
  BY <1>1, <1>2, <1>3, CatNil
<1>. HIDE DEF V
<1>5. Nil \notin Cat(One(":"), V)
  BY <1>1, <1>2, LangFit, OneLed, BytesAre
<1>. DEFINE E == One("}")
<1>6. Fits(E) /\ Nil \notin E
  BY <1>1, OneIs, BytesAre
<1>. HIDE DEF E
<1>7. Fits(E \cup X) /\ Nil \notin E \cup X
  BY <1>2, <1>6, FitUnion
<1>. QED  BY <1>2, <1>4, <1>5, <1>7 DEF key, value, X, M, V, E, Inside

Stops(node, f) == node.kind = "number" /\ NumberCanStop(f.phase)

LEMMA RestFits ==
  ASSUME NEW g, NEW L, Setting(g, L), NEW f, SoundFrame(g, f)
  PROVE  Fits(Rest(g, L, f)) /\ (Nil \in Rest(g, L, f) <=> Stops(g[f.node], f))
<1>. DEFINE node == g[f.node]
            R == LeftOf(node, L, f)
<1>0. /\ Bounded /\ f.node \in DOMAIN g /\ f.phase \in 0..8 /\ f.i \in Nat /\ f.k \in Nat
      /\ Place(node, f) /\ Plan(g, node)
  BY InFrames, NodeIs DEF Setting
<1>. SUFFICES Fits(R) /\ (Nil \in R <=> Stops(node, f))
  BY DEF Rest
<1>p. /\ node.kind = "array" => Counts(node, L[node.item])
      /\ node.kind = "object" => Keyed(node, L)
  BY <1>0, PartsAre
<1>l. Fits(L[f.node]) /\ Nil \notin L[f.node]
  BY <1>0, LanguageIs
<1>f. node.kind = "free" =>
        LET X == Members(L[node.values[1]], L[node.values[2]])
            M == MoreMembers(L[node.values[1]], L[node.values[2]])
            V == Cat(L[node.values[2]], M)
            I == Inside(L[node.values[1]], L[node.values[2]])
        IN  /\ Fits(X) /\ Nil \notin X /\ Fits(M) /\ Nil \notin M
            /\ Fits(V) /\ Nil \notin V /\ Fits(Cat(One(":"), V)) /\ Nil \notin Cat(One(":"), V)
            /\ Fits(I) /\ Nil \notin I
  BY <1>0, FreeParts
<1>. HIDE DEF node
<1>1. CASE node.kind = "literal"
  <2>1. node.text \in Text /\ f.k < Size(node.text) /\ f.k <= Size(node.text)
    BY <1>0, <1>1, SizeIs DEF Plan, Place
  <2>2. Fits(Word(node.text, f.k)) /\ Nil \notin Word(node.text, f.k)
    BY <1>0, <2>1, WordIs
  <2>. QED  BY <1>1, <2>2 DEF LeftOf, Stops
<1>2. CASE node.kind # "literal" /\ f.phase = 0
  <2>1. R = L[f.node] /\ ~Stops(node, f)
    BY <1>2 DEF LeftOf, Stops, NumberCanStop
  <2>. QED  BY <1>l, <2>1
<1>3. CASE node.kind = "string" /\ f.phase = 1
  <2>1. R = StringBody /\ ~Stops(node, f)
    BY <1>3 DEF LeftOf, Stops
  <2>. QED  BY <1>0, <2>1, BodyIs
<1>4. CASE node.kind = "string" /\ f.phase = 2
  <2>1. R = Cat(Single(Escapes), StringBody) /\ ~Stops(node, f)
    BY <1>4 DEF LeftOf, Stops
  <2>2. AllBytes(Escapes) /\ Lang(StringBody)
    BY <1>0, Signs, BodyIs
  <2>. DEFINE C == Escapes
  <2>3. AllBytes(C)
    BY <2>2
  <2>. HIDE DEF C
  <2>4. Fits(Cat(Single(C), StringBody)) /\ Nil \notin Cat(Single(C), StringBody)
    BY <1>0, <2>2, <2>3, Led
  <2>. QED  BY <2>1, <2>4 DEF C
<1>5. CASE node.kind = "number" /\ f.phase # 0
  <2>1. R = NumberRest(node.integer, f.phase) /\ (Stops(node, f) <=> NumberCanStop(f.phase))
    BY <1>5 DEF LeftOf, Stops
  <2>2. NumberParts(node.integer)
    BY <1>0, NumberIs DEF Plan
  <2>3. /\ Fits(NumberRest(node.integer, f.phase))
        /\ Nil \in NumberRest(node.integer, f.phase) <=> NumberCanStop(f.phase)
    BY <1>0, <2>2 DEF NumberParts
  <2>. QED  BY <2>1, <2>3
<1>6. CASE node.kind = "array" /\ f.phase \in {1, 2}
  <2>1. Room(node, f.i) /\ Counts(node, L[node.item]) /\ ~Stops(node, f)
    BY <1>0, <1>p, <1>6 DEF Place, Stops
  <2>2. CASE f.phase = 1
    <3>1. R = Items(node, L[node.item], f.i)
      BY <1>6, <2>2 DEF LeftOf
    <3>2. Fits(Items(node, L[node.item], f.i)) /\ Nil \notin Items(node, L[node.item], f.i)
      <4>. HIDE DEF R
      <4>. DEFINE item == L[node.item]
      <4>1. Counts(node, item)
        BY <2>1
      <4>. HIDE DEF item
      <4>2. Fits(Items(node, item, f.i)) /\ Nil \notin Items(node, item, f.i)
        BY <1>0, <2>1, <4>1, ItemsAre
      <4>. QED  BY <4>2 DEF item
    <3>. HIDE DEF R
    <3>. QED  BY <2>1, <3>1, <3>2
  <2>3. CASE f.phase = 2
    <3>1. R = MoreItems(node, L[node.item], f.i)
      BY <1>6, <2>3 DEF LeftOf
    <3>. QED  BY <1>0, <2>1, <3>1, MoreItemsFit
  <2>. QED  BY <1>6, <2>2, <2>3
<1>7. CASE node.kind = "free" /\ f.phase \in {1, 2, 3, 4}
  <2>. DEFINE X == Members(L[node.values[1]], L[node.values[2]])
              M == MoreMembers(L[node.values[1]], L[node.values[2]])
              V == Cat(L[node.values[2]], M)
              N == Cat(One(":"), V)
              E == Inside(L[node.values[1]], L[node.values[2]])
  <2>1. R = X \/ R = M \/ R = V \/ R = N \/ R = E
    <3>1. f.phase = 1 \/ f.phase = 2 \/ f.phase = 3 \/ f.phase = 4
      BY <1>7
    <3>2. CASE f.phase = 1 /\ f.i = 0
      BY <1>7, <3>2 DEF LeftOf
    <3>3. CASE f.phase = 1 /\ f.i # 0
      BY <1>7, <3>3 DEF LeftOf
    <3>4. CASE f.phase = 2
      BY <1>7, <3>4 DEF LeftOf
    <3>5. CASE f.phase = 3
      BY <1>7, <3>5 DEF LeftOf
    <3>6. CASE f.phase = 4
      BY <1>7, <3>6 DEF LeftOf
    <3>. HIDE DEF R, X, M, V, N, E
    <3>. QED  BY <3>1, <3>2, <3>3, <3>4, <3>5, <3>6
  <2>2. /\ Fits(X) /\ Nil \notin X /\ Fits(M) /\ Nil \notin M /\ Fits(V) /\ Nil \notin V
        /\ Fits(N) /\ Nil \notin N /\ Fits(E) /\ Nil \notin E
    BY <1>f, <1>7
  <2>3. ~Stops(node, f)
    BY <1>7 DEF Stops
  <2>. HIDE DEF X, M, V, N, E, R
  <2>. QED  BY <2>1, <2>2, <2>3
<1>8. CASE node.kind = "object" /\ f.phase \in {1, 2, 3}
  <2>1. f.i \in 1..Len(node.keys) /\ Keyed(node, L) /\ ~Stops(node, f)
    BY <1>0, <1>p, <1>8 DEF Place, Stops
  <2>2. CASE f.phase = 1
    <3>1. R = Properties(node, L, Len(node.keys) + 1 - f.i)
      BY <1>8, <2>2 DEF LeftOf
    <3>2. Len(node.keys) + 1 - f.i \in 0..Len(node.keys)
      BY <2>1 DEF Keyed
    <3>. QED  BY <2>1, <3>1, <3>2, PropertiesFit
  <2>3. CASE f.phase = 2
    <3>1. R = InKey(node, L, f.i, f.k)
      BY <1>8, <2>3 DEF LeftOf
    <3>2. f.k < Size(node.keys[f.i])
      BY <1>0, <1>8, <2>3 DEF Place
    <3>. QED  BY <1>0, <2>1, <3>1, <3>2, InKeyIs
  <2>4. CASE f.phase = 3
    <3>1. R = Behind(node, L, f.i)
      BY <1>8, <2>4 DEF LeftOf
    <3>. QED  BY <2>1, <3>1, BehindFits
  <2>. QED  BY <1>8, <2>2, <2>3, <2>4
<1>9. \/ node.kind = "literal"
      \/ node.kind # "literal" /\ f.phase = 0
      \/ node.kind = "string" /\ f.phase = 1
      \/ node.kind = "string" /\ f.phase = 2
      \/ node.kind = "number" /\ f.phase # 0
      \/ node.kind = "array" /\ f.phase \in {1, 2}
      \/ node.kind = "free" /\ f.phase \in {1, 2, 3, 4}
      \/ node.kind = "object" /\ f.phase \in {1, 2, 3}
  BY <1>0 DEF Place
<1>. QED  BY <1>1, <1>2, <1>3, <1>4, <1>5, <1>6, <1>7, <1>8, <1>9

-----------------------------------------------------------------------------
(* Stacks of frames, the last one the innermost.                           *)

Push(s, f) == Append(s, f)
Empty == <<>>

Sound(g, s) ==
  /\ s \in Seq(Frames(g))
  /\ \A i \in 1..Len(s) : SoundFrame(g, s[i]) /\ (i < Len(s) => Waiting(g, s[i]))

Below(g, s) == s \in Seq(Frames(g)) /\ \A i \in 1..Len(s) : Waiting(g, s[i])

Rests(g, L, s) ==
  LET rests[n \in 0..Len(s)] ==
        IF n = 0 THEN Nothing ELSE Cat(Rest(g, L, s[n]), rests[n - 1])
  IN  rests[Len(s)]

LEMMA PushIs ==
  ASSUME NEW g, NEW s \in Seq(Frames(g)), NEW f \in Frames(g)
  PROVE  /\ Push(s, f) \in Seq(Frames(g)) /\ Len(s) \in Nat /\ Len(Push(s, f)) = Len(s) + 1
         /\ Push(s, f)[Len(s) + 1] = f /\ \A i \in 1..Len(s) : Push(s, f)[i] = s[i]
<1>. DEFINE T == Frames(g)
<1>1. s \in Seq(T) /\ f \in T
  OBVIOUS
<1>. HIDE DEF T
<1>2. Append(s, f) \in Seq(T) /\ Len(s) \in Nat /\ Len(Append(s, f)) = Len(s) + 1
  BY <1>1
<1>3. Append(s, f)[Len(s) + 1] = f /\ \A i \in 1..Len(s) : Append(s, f)[i] = s[i]
  BY <1>1
<1>. QED  BY <1>2, <1>3 DEF Push, T

LEMMA PopIs ==
  ASSUME NEW g, NEW s \in Seq(Frames(g)), s # Empty
  PROVE  /\ Front(s) \in Seq(Frames(g)) /\ Last(s) \in Frames(g) /\ s = Push(Front(s), Last(s))
         /\ Len(s) \in Nat /\ Len(s) > 0 /\ Len(Front(s)) = Len(s) - 1 /\ Last(s) = s[Len(s)]
         /\ \A i \in 1..(Len(s) - 1) : Front(s)[i] = s[i]
<1>. DEFINE T == Frames(g)
            n == Len(s)
            u == SubSeq(s, 1, n - 1)
            f == s[n]
<1>0. s \in Seq(T) /\ s # <<>>
  BY DEF Empty
<1>. HIDE DEF T
<1>1. n \in Nat /\ n > 0
  BY <1>0
<1>2. f \in T
  BY <1>0, <1>1
<1>3. u \in Seq(T) /\ Len(u) = n - 1 /\ \A i \in 1..(n - 1) : u[i] = s[i]
  <2>1. \A i \in 1..(n - 1) : s[i] \in T
    BY <1>0, <1>1
  <2>. DEFINE m == n - 1
  <2>2. SubSeq(s, 1, m) \in Seq(T) /\ Len(SubSeq(s, 1, m)) = m
    <3>1. m \in Nat /\ m <= Len(s) /\ \A i \in 1..m : s[i] \in T
      BY <1>1, <2>1
    <3>. HIDE DEF m, n
    <3>2. SubSeq(s, 1, m) \in Seq(T)
      BY <1>0, <3>1
    <3>3. Len(SubSeq(s, 1, m)) = m
      BY <1>0, <3>1
    <3>. QED  BY <3>2, <3>3
  <2>3. ASSUME NEW i \in 1..(n - 1) PROVE u[i] = s[i]
    <3>1. u[i] = s[1 + i - 1]
      BY <1>0, <1>1
    <3>2. 1 + i - 1 = i
      OBVIOUS
    <3>. QED  BY <3>1, <3>2
  <2>. QED  BY <2>2, <2>3
<1>. HIDE DEF u
<1>4. Append(u, f) \in Seq(T) /\ Len(Append(u, f)) = n /\ Append(u, f)[n] = f
  <2>1. Len(Append(u, f)) = Len(u) + 1 /\ Append(u, f)[Len(u) + 1] = f /\ Append(u, f) \in Seq(T)
    BY <1>2, <1>3
  <2>2. Len(u) + 1 = n
    BY <1>1, <1>3
  <2>. QED  BY <2>1, <2>2
<1>5. ASSUME NEW i \in 1..n PROVE s[i] = Append(u, f)[i]
  <2>1. CASE i = n
    BY <1>4, <2>1
  <2>2. CASE i # n
    <3>1. i \in 1..(n - 1) /\ i \in 1..Len(u)
      BY <1>1, <1>3, <2>2
    <3>2. Append(u, f)[i] = u[i]
      BY <1>2, <1>3, <3>1
    <3>. QED  BY <1>3, <3>1, <3>2
  <2>. QED  BY <2>1, <2>2
<1>6. s = Append(u, f)
  BY <1>0, <1>4, <1>5, SeqEqual
<1>7. Front(s) = u /\ Last(s) = f
  BY DEF Front, Last, u
<1>. QED  BY <1>1, <1>2, <1>3, <1>6, <1>7 DEF Push, T

LEMMA PushSound ==
  ASSUME NEW g, NEW s, Below(g, s), NEW f
  PROVE  /\ Sound(g, s)
         /\ SoundFrame(g, f) => Sound(g, Push(s, f)) /\ Push(s, f) # Empty
         /\ Waiting(g, f) => Below(g, Push(s, f)) /\ SoundFrame(g, f)
<1>0. s \in Seq(Frames(g)) /\ \A i \in 1..Len(s) : Waiting(g, s[i])
  BY DEF Below
<1>1. \A x : Waiting(g, x) => SoundFrame(g, x)
  BY DEF Waiting
<1>2. \A x : SoundFrame(g, x) => x \in Frames(g)
  BY DEF SoundFrame
<1>3. Sound(g, s)
  BY <1>0, <1>1 DEF Sound
<1>4. ASSUME SoundFrame(g, f)
      PROVE  /\ Push(s, f) \in Seq(Frames(g)) /\ Push(s, f) # Empty /\ Len(Push(s, f)) = Len(s) + 1
             /\ \A i \in 1..Len(Push(s, f)) :
                  IF i = Len(s) + 1 THEN Push(s, f)[i] = f ELSE i \in 1..Len(s) /\ Push(s, f)[i] = s[i]
  <2>1. f \in Frames(g)
    BY <1>2, <1>4
  <2>. DEFINE p == Push(s, f)
  <2>2. /\ p \in Seq(Frames(g)) /\ Len(s) \in Nat /\ Len(p) = Len(s) + 1
        /\ p[Len(s) + 1] = f /\ \A i \in 1..Len(s) : p[i] = s[i]
    BY <1>0, <2>1, PushIs
  <2>. HIDE DEF p
  <2>3. p # Empty
    <3>1. Len(Empty) = 0
      BY DEF Empty
    <3>. QED  BY <2>2, <3>1
  <2>4. ASSUME NEW i \in 1..Len(p), i # Len(s) + 1 PROVE i \in 1..Len(s)
    BY <2>2, <2>4
  <2>. QED  BY <2>2, <2>3, <2>4 DEF p
<1>5. ASSUME SoundFrame(g, f) PROVE Sound(g, Push(s, f))
  <2>. DEFINE p == Push(s, f)
  <2>1. /\ p \in Seq(Frames(g)) /\ Len(p) = Len(s) + 1
        /\ \A i \in 1..Len(p) : IF i = Len(s) + 1 THEN p[i] = f ELSE i \in 1..Len(s) /\ p[i] = s[i]
    BY <1>4, <1>5
  <2>. HIDE DEF p
  <2>2. ASSUME NEW i \in 1..Len(p) PROVE SoundFrame(g, p[i]) /\ (i < Len(p) => Waiting(g, p[i]))
    <3>1. CASE i = Len(s) + 1
      BY <1>5, <2>1, <3>1
    <3>2. CASE i # Len(s) + 1
      BY <1>0, <1>1, <2>1, <3>2
    <3>. QED  BY <3>1, <3>2
  <2>3. Sound(g, p)
    BY <2>1, <2>2 DEF Sound
  <2>. QED  BY <2>3 DEF p
<1>6. ASSUME Waiting(g, f) PROVE Below(g, Push(s, f))
  <2>. DEFINE p == Push(s, f)
  <2>1. /\ p \in Seq(Frames(g)) /\ Len(p) = Len(s) + 1
        /\ \A i \in 1..Len(p) : IF i = Len(s) + 1 THEN p[i] = f ELSE i \in 1..Len(s) /\ p[i] = s[i]
    BY <1>1, <1>4, <1>6
  <2>. HIDE DEF p
  <2>2. ASSUME NEW i \in 1..Len(p) PROVE Waiting(g, p[i])
    BY <1>0, <1>6, <2>1
  <2>3. Below(g, p)
    BY <2>1, <2>2 DEF Below
  <2>. QED  BY <2>3 DEF p
<1>. QED  BY <1>1, <1>3, <1>4, <1>5, <1>6

LEMMA PopSound ==
  ASSUME NEW g, NEW s, s # Empty
  PROVE  /\ Sound(g, s) => /\ Below(g, Front(s)) /\ SoundFrame(g, Last(s))
                           /\ s = Push(Front(s), Last(s))
         /\ Below(g, s) => /\ Below(g, Front(s)) /\ Waiting(g, Last(s))
                           /\ s = Push(Front(s), Last(s))
<1>1. ASSUME s \in Seq(Frames(g))
      PROVE  /\ Front(s) \in Seq(Frames(g)) /\ s = Push(Front(s), Last(s))
             /\ Len(s) \in Nat /\ Len(s) > 0 /\ Len(Front(s)) = Len(s) - 1 /\ Last(s) = s[Len(s)]
             /\ \A i \in 1..(Len(s) - 1) : Front(s)[i] = s[i]
  BY <1>1, PopIs
<1>. DEFINE u == Front(s)
            f == Last(s)
<1>2. ASSUME s \in Seq(Frames(g)), \A i \in 1..Len(s) : i < Len(s) => Waiting(g, s[i])
      PROVE  Below(g, u)
  <2>1. /\ u \in Seq(Frames(g)) /\ Len(s) \in Nat /\ Len(u) = Len(s) - 1
        /\ \A i \in 1..(Len(s) - 1) : u[i] = s[i]
    BY <1>1, <1>2
  <2>. HIDE DEF u
  <2>2. ASSUME NEW i \in 1..Len(u) PROVE Waiting(g, u[i])
    <3>1. i \in 1..(Len(s) - 1) /\ i \in 1..Len(s) /\ i < Len(s)
      BY <2>1
    <3>. QED  BY <1>2, <2>1, <3>1
  <2>. QED  BY <2>1, <2>2 DEF Below
<1>3. ASSUME Sound(g, s) PROVE Below(g, u) /\ SoundFrame(g, f) /\ s = Push(u, f)
  <2>1. s \in Seq(Frames(g)) /\ \A i \in 1..Len(s) : SoundFrame(g, s[i]) /\ (i < Len(s) => Waiting(g, s[i]))
    BY <1>3 DEF Sound
  <2>2. Len(s) \in 1..Len(s)
    BY <1>1, <2>1
  <2>. QED  BY <1>1, <1>2, <2>1, <2>2
<1>4. ASSUME Below(g, s) PROVE Below(g, u) /\ Waiting(g, f) /\ s = Push(u, f)
  <2>1. s \in Seq(Frames(g)) /\ \A i \in 1..Len(s) : Waiting(g, s[i])
    BY <1>4 DEF Below
  <2>2. Len(s) \in 1..Len(s)
    BY <1>1, <2>1
  <2>. QED  BY <1>1, <1>2, <2>1, <2>2
<1>. QED  BY <1>3, <1>4

LEMMA RestsEmpty ==
  ASSUME NEW g, NEW L, Bounded
  PROVE  Rests(g, L, Empty) = Nothing
<1>. DEFINE Is(h) == h = [n \in 0..0 |-> IF n = 0 THEN Nothing ELSE Cat(Rest(g, L, Empty[n]), h[n - 1])]
            W == CHOOSE h : Is(h)
            f0 == [n \in 0..0 |-> Nothing]
<1>1. Len(Empty) = 0
  BY DEF Empty
<1>2. Rests(g, L, Empty) = W[0]
  BY <1>1, Zenon DEF Rests
<1>3. Is(f0)
  OBVIOUS
<1>4. Is(W)
  <2>. HIDE DEF Is, f0
  <2>. QED  BY <1>3, Zenon
<1>. DEFINE h == W
<1>5. Is(h)
  BY <1>4
<1>. HIDE DEF W, h
<1>6. h[0] = Nothing
  BY <1>5
<1>. QED  BY <1>2, <1>6 DEF h

(* What is left of a stack: of its last frame, and then of those below.    *)
LEMMA RestsAre ==
  ASSUME NEW g, NEW L, Setting(g, L), NEW s, Below(g, s), NEW f, SoundFrame(g, f)
  PROVE  /\ Rests(g, L, Empty) = Nothing
         /\ Rests(g, L, Push(s, f)) = Cat(Rest(g, L, f), Rests(g, L, s))
         /\ Fits(Rests(g, L, s)) /\ Fits(Rests(g, L, Push(s, f)))
<1>. DEFINE Is(h, t) == h = [n \in 0..Len(t) |->
                               IF n = 0 THEN Nothing ELSE Cat(Rest(g, L, t[n]), h[n - 1])]
            W(t) == CHOOSE h : Is(h, t)
<1>0. Bounded
  BY DEF Setting
<1>1. ASSUME NEW t, Sound(g, t) PROVE \E h : Is(h, t)
  <2>. DEFINE m == Len(t)
              S == SUBSET Text
              Turn(k, x) == Cat(Rest(g, L, t[k]), x)
              turn == [x \in S \X (1..m) |-> Turn(x[2], x[1])]
  <2>0. m \in Nat /\ \A k \in 1..m : Lang(Rest(g, L, t[k]))
    <3>1. t \in Seq(Frames(g)) /\ \A k \in 1..m : SoundFrame(g, t[k])
      BY <1>1 DEF Sound
    <3>. HIDE DEF m
    <3>2. \A k \in 1..m : Lang(Rest(g, L, t[k]))
      BY <3>1, RestFits, LangFit
    <3>. QED  BY <3>1, <3>2 DEF m
  <2>. HIDE DEF m
  <2>1. turn \in [S \X (1..m) -> S]
    <3>1. ASSUME NEW x \in S \X (1..m) PROVE Turn(x[2], x[1]) \in S
      <4>1. x[1] \in S /\ x[2] \in 1..m
        OBVIOUS
      <4>2. Lang(x[1]) /\ Lang(Rest(g, L, t[x[2]]))
        BY <2>0, <4>1, LangSet
      <4>. QED  BY <1>0, <4>2, CatFits, LangSet
    <3>. HIDE DEF Turn, S
    <3>. QED  BY <3>1
  <2>2. Nothing \in S
    BY LangNothing, LangSet
  <2>3. PICK f0 \in [0..m -> S] : Steps(Nothing, m, turn, f0)
    <3>. HIDE DEF turn, S
    <3>. QED  BY <2>0, <2>1, <2>2, Iterated
  <2>4. ASSUME NEW k \in 0..m PROVE f0[k] = IF k = 0 THEN Nothing ELSE Cat(Rest(g, L, t[k]), f0[k - 1])
    <3>1. f0[k] = IF k = 0 THEN Nothing ELSE turn[<<f0[k - 1], k>>]
      <4>. HIDE DEF turn, S
      <4>. QED  BY <2>3 DEF Steps
    <3>2. CASE k # 0
      <4>1. k \in 1..m /\ k - 1 \in 0..m
        BY <2>0, <3>2
      <4>2. <<f0[k - 1], k>> \in S \X (1..m)
        <5>. HIDE DEF S
        <5>. QED  BY <4>1
      <4>3. turn[<<f0[k - 1], k>>] = Turn(k, f0[k - 1])
        <5>. HIDE DEF S, Turn
        <5>. QED  BY <4>2
      <4>. QED  BY <3>1, <3>2, <4>3
    <3>. QED  BY <3>1, <3>2
  <2>5. Is(f0, t)
    <3>1. f0 = [k \in 0..m |-> f0[k]]
      <4>. HIDE DEF S
      <4>. QED  OBVIOUS
    <3>2. f0 = [n \in 0..m |-> IF n = 0 THEN Nothing ELSE Cat(Rest(g, L, t[n]), f0[n - 1])]
      <4>. HIDE DEF S
      <4>. QED  BY <2>4, <3>1
    <3>. QED  BY <3>2 DEF m
  <2>. HIDE DEF Is
  <2>. QED  BY <2>5
<1>2. ASSUME NEW t, Sound(g, t) PROVE Is(W(t), t) /\ Rests(g, L, t) = W(t)[Len(t)]
  <2>1. Is(W(t), t)
    <3>1. \E h : Is(h, t)
      BY <1>1, <1>2
    <3>. HIDE DEF Is
    <3>. QED  BY <3>1, Zenon
  <2>2. Rests(g, L, t) = W(t)[Len(t)]
    BY Zenon DEF Rests
  <2>. QED  BY <2>1, <2>2
<1>3. ASSUME NEW t, Sound(g, t), NEW k \in 0..Len(t)
      PROVE  W(t)[k] = IF k = 0 THEN Nothing ELSE Cat(Rest(g, L, t[k]), W(t)[k - 1])
  <2>. DEFINE h == W(t)
  <2>1. Is(h, t)
    BY <1>2, <1>3
  <2>. HIDE DEF h
  <2>2. h[k] = IF k = 0 THEN Nothing ELSE Cat(Rest(g, L, t[k]), h[k - 1])
    BY <2>1, Zenon
  <2>. QED  BY <2>2 DEF h
<1>. HIDE DEF W, Is
<1>. DEFINE p == Push(s, f)
<1>4. Sound(g, p) /\ Sound(g, s) /\ Sound(g, Empty) /\ Len(Empty) = 0 /\ s \in Seq(Frames(g)) /\ f \in Frames(g)
  <2>1. Sound(g, p) /\ Sound(g, s)
    BY PushSound
  <2>2. Sound(g, Empty) /\ Len(Empty) = 0
    BY DEF Sound, Empty
  <2>. QED  BY <2>1, <2>2 DEF Below, SoundFrame
<1>5. Rests(g, L, Empty) = Nothing
  BY <1>2, <1>3, <1>4
<1>. DEFINE n == Len(s)
<1>6. n \in Nat /\ Len(p) = n + 1 /\ p[n + 1] = f /\ \A i \in 1..n : p[i] = s[i]
  BY <1>4, PushIs
<1>. HIDE DEF n, p
<1>7. W(p)[n] = W(s)[n]
  <2>0. \A k \in 0..n : k \in 0..Len(p) /\ k \in 0..Len(s)
    BY <1>6 DEF n
  <2>1. W(p)[0] = W(s)[0]
    <3>1. 0 \in 0..Len(p) /\ 0 \in 0..Len(s)
      BY <1>6, <2>0
    <3>. QED  BY <1>3, <1>4, <3>1
  <2>2. ASSUME NEW k \in 1..n, W(p)[k - 1] = W(s)[k - 1] PROVE W(p)[k] = W(s)[k]
    <3>1. k \in 0..Len(p) /\ k \in 0..Len(s) /\ k # 0 /\ p[k] = s[k]
      BY <1>6, <2>0
    <3>. QED  BY <1>3, <1>4, <2>2, <3>1
  <2>3. \A k \in 0..n : W(p)[k] = W(s)[k]
    BY <1>6, <2>1, <2>2, Agreeing
  <2>. QED  BY <1>6, <2>3
<1>8. Rests(g, L, p) = Cat(Rest(g, L, f), W(p)[n])
  <2>1. n + 1 \in 0..Len(p) /\ n + 1 # 0 /\ (n + 1) - 1 = n
    BY <1>6
  <2>2. W(p)[n + 1] = Cat(Rest(g, L, p[n + 1]), W(p)[n])
    BY <1>3, <1>4, <2>1
  <2>. QED  BY <1>2, <1>4, <1>6, <2>2
<1>9. Rests(g, L, s) = W(s)[n]
  BY <1>2, <1>4 DEF n
<1>10. ASSUME NEW k \in 1..n PROVE Lang(Rest(g, L, s[k]))
  <2>1. SoundFrame(g, s[k])
    BY <1>4, <1>10 DEF Sound, n
  <2>. QED  BY <2>1, RestFits, LangFit
<1>11. Fits(W(s)[n])
  <2>. DEFINE Good == {k \in 0..n : Fits(W(s)[k])}
  <2>1. 0 \in Good
    <3>1. 0 \in 0..n /\ 0 \in 0..Len(s)
      BY <1>6 DEF n
    <3>2. W(s)[0] = Nothing
      BY <1>3, <1>4, <3>1
    <3>. QED  BY <1>0, <3>1, <3>2, NothingFits
  <2>2. ASSUME NEW m \in 1..n, m - 1 \in Good PROVE m \in Good
    <3>1. m \in 0..n /\ m \in 0..Len(s) /\ m # 0
      BY <1>6 DEF n
    <3>2. W(s)[m] = Cat(Rest(g, L, s[m]), W(s)[m - 1])
      BY <1>3, <1>4, <3>1
    <3>3. Lang(W(s)[m - 1])
      BY <2>2, LangFit
    <3>4. Fits(W(s)[m])
      BY <1>0, <1>10, <3>2, <3>3, CatFits
    <3>. QED  BY <3>1, <3>4
  <2>3. \A k \in 0..n : k \in Good
    <3>. HIDE DEF Good
    <3>. QED  BY <1>6, <2>1, <2>2, Counted
  <2>4. n \in 0..n
    BY <1>6
  <2>. QED  BY <2>3, <2>4
<1>12. Fits(Rests(g, L, p))
  <2>1. Lang(Rest(g, L, f)) /\ Lang(W(s)[n])
    BY <1>11, RestFits, LangFit
  <2>. QED  BY <1>0, <1>7, <1>8, <2>1, CatFits
<1>. QED  BY <1>5, <1>7, <1>8, <1>9, <1>11, <1>12 DEF p

-----------------------------------------------------------------------------
(* Sets of stacks: what can be spelled from one of them, and where a byte  *)
(* leads from the texts of a set.                                          *)

Spells(g, L, T, w) == \E t \in T : w \in Rests(g, L, t)

Leads(g, L, T, b, w, A) ==
  /\ \A t \in T : Sound(g, t)
  /\ Spells(g, L, T, w) <=> Lead(b, w) \in A

(* A byte, and a text that may come behind it.                             *)
Byting(g, L, b, w) ==
  Setting(g, L) /\ b \in Byte /\ w \in Text /\ Size(w) < MaxText

(* A byte that is one of some, and then a stack.                           *)
Taken(b, C, s) == IF b \in C THEN {s} ELSE {}

LEMMA LeadsNone ==
  ASSUME NEW g, NEW L, NEW b, NEW w
  PROVE  Leads(g, L, {}, b, w, {})
BY DEF Leads, Spells

LEMMA LeadsOr ==
  ASSUME NEW g, NEW L, NEW b, NEW w, NEW T, NEW A, Leads(g, L, T, b, w, A),
         NEW U, NEW B, Leads(g, L, U, b, w, B)
  PROVE  Leads(g, L, T \cup U, b, w, A \cup B)
BY DEF Leads, Spells

LEMMA LeadsTaken ==
  ASSUME NEW g, NEW L, NEW b, NEW w, Byting(g, L, b, w), NEW C, AllBytes(C),
         NEW s, Sound(g, s), Fits(Rests(g, L, s))
  PROVE  Leads(g, L, Taken(b, C, s), b, w, Cat(Single(C), Rests(g, L, s)))
<1>. DEFINE S == Rests(g, L, s)
<1>1. Reading(b, w, S)
  BY DEF Byting, Setting, Reading
<1>2. Lead(b, w) \in Cat(Single(C), S) <=> b \in C /\ w \in S
  <2>. HIDE DEF S
  <2>. QED  BY <1>1, ReadSingle
<1>3. Spells(g, L, Taken(b, C, s), w) <=> b \in C /\ w \in S
  BY DEF Spells, Taken
<1>4. \A t \in Taken(b, C, s) : Sound(g, t)
  BY DEF Taken
<1>. HIDE DEF S
<1>. QED  BY <1>2, <1>3, <1>4 DEF Leads, S

(* The frame is done, and the stack below it is left.                      *)
LEMMA LeadsBelow ==
  ASSUME NEW g, NEW L, NEW b, NEW w, Byting(g, L, b, w), NEW C, AllBytes(C),
         NEW s, Below(g, s), Fits(Rests(g, L, s))
  PROVE  Leads(g, L, Taken(b, C, s), b, w, Cat(Single(C), Rests(g, L, s)))
BY LeadsTaken, PushSound

(* The frame goes on.                                                      *)
LEMMA LeadsFrame ==
  ASSUME NEW g, NEW L, NEW b, NEW w, Byting(g, L, b, w), NEW C, AllBytes(C),
         NEW s, Below(g, s), NEW f, SoundFrame(g, f)
  PROVE  Leads(g, L, Taken(b, C, Push(s, f)), b, w,
               Cat(Cat(Single(C), Rest(g, L, f)), Rests(g, L, s)))
<1>. DEFINE p == Push(s, f)
            S == Rests(g, L, s)
            R == Rest(g, L, f)
<1>0. Setting(g, L) /\ Bounded
  BY DEF Byting, Setting
<1>1. Rests(g, L, p) = Cat(R, S) /\ Fits(S) /\ Fits(Rests(g, L, p))
  BY <1>0, RestsAre
<1>2. Sound(g, p)
  BY PushSound
<1>3. Lang(R) /\ Lang(S) /\ Lang(Single(C))
  BY <1>0, <1>1, RestFits, LangFit, LangSingle
<1>. HIDE DEF p
<1>4. Leads(g, L, Taken(b, C, p), b, w, Cat(Single(C), Rests(g, L, p)))
  BY <1>1, <1>2, LeadsTaken
<1>. HIDE DEF S, R
<1>5. Cat(Single(C), Cat(R, S)) = Cat(Cat(Single(C), R), S)
  BY <1>0, <1>3, CatAssoc
<1>. QED  BY <1>1, <1>4, <1>5 DEF S, R, p

-----------------------------------------------------------------------------
(* Literals and strings.                                                   *)

LEMMA LiteralLeads ==
  ASSUME NEW g, NEW L, NEW b, NEW w, Byting(g, L, b, w), NEW s, Below(g, s),
         NEW f, SoundFrame(g, f), g[f.node].kind = "literal"
  PROVE  Leads(g, L, StepLiteral(s, f, g[f.node], b), b, w, Cat(Rest(g, L, f), Rests(g, L, s)))
<1>. DEFINE node == g[f.node]
            t == node.text
            n == f.k + 1
            S == Rests(g, L, s)
            T == StepLiteral(s, f, node, b)
<1>0. Setting(g, L) /\ Bounded /\ f.node \in DOMAIN g /\ f.i \in Nat /\ f.k \in Nat
      /\ Place(node, f) /\ Plan(g, node)
  BY InFrames, NodeIs DEF Byting, Setting
<1>1. t \in Text /\ f.k < Size(t) /\ f.phase = 0
  BY <1>0 DEF Place, Plan
<1>2. Fits(S) /\ Lang(S) /\ Rest(g, L, f) = Word(t, f.k)
  BY <1>0, RestsAre, LangFit DEF Rest, LeftOf
<1>3. n \in Nat /\ n <= Size(t) /\ f.k <= Size(t) /\ Size(t) \in Nat /\ Size(t) = Len(t)
  BY <1>0, <1>1, SizeIs DEF Size
<1>. DEFINE c == t[n]
            C == {c}
<1>4. c \in Byte /\ Word(t, f.k) = Cat(One(c), Word(t, n))
  BY <1>0, <1>1, <1>3, WordIs
<1>5. AllBytes(C) /\ One(c) = Single(C)
  BY <1>4, OneBytes DEF One
<1>. HIDE DEF node, n, C, c
<1>6. CASE n = Size(t)
  <2>1. T = Taken(b, C, s)
    BY <1>3, <1>6 DEF StepLiteral, Taken, n, c, C, node
  <2>2. Leads(g, L, Taken(b, C, s), b, w, Cat(Single(C), S))
    BY <1>2, <1>5, LeadsBelow
  <2>3. Word(t, n) = Nothing
    BY <1>0, <1>1, <1>3, <1>6, WordIs
  <2>4. Cat(One(c), Nothing) = One(c)
    BY <1>0, <1>4, OneIs, CatLast
  <2>. HIDE DEF T
  <2>. QED  BY <1>2, <1>4, <1>5, <2>1, <2>2, <2>3, <2>4 DEF T, node
<1>7. CASE n # Size(t)
  <2>. DEFINE h == Frame(f.node, 0, f.i, n)
  <2>1. T = Taken(b, C, Push(s, h))
    BY <1>3, <1>7 DEF StepLiteral, Taken, With, Push, n, c, C, node
  <2>2. SoundFrame(g, h) /\ Rest(g, L, h) = Word(t, n)
    <3>1. h \in Frames(g) /\ h.node = f.node /\ h.phase = 0 /\ h.k = n
      <4>. DEFINE id == f.node
                  i == f.i
      <4>1. id \in DOMAIN g /\ i \in Nat /\ n \in Nat /\ h = Frame(id, 0, i, n)
        BY <1>0, <1>3
      <4>. HIDE DEF id, i, h
      <4>2. h \in Frames(g) /\ h.node = id /\ h.phase = 0 /\ h.k = n
        BY <4>1, FrameOf, Phases
      <4>. QED  BY <4>2 DEF id
    <3>. HIDE DEF h
    <3>2. node.kind = "literal" /\ n < Size(t)
      BY <1>3, <1>7 DEF node
    <3>3. Place(node, h)
      BY <3>1, <3>2 DEF Place
    <3>4. LeftOf(node, L, h) = Word(t, n)
      BY <3>1, <3>2 DEF LeftOf
    <3>. QED  BY <3>1, <3>3, <3>4 DEF SoundFrame, Rest, node
  <2>. HIDE DEF h
  <2>3. Leads(g, L, Taken(b, C, Push(s, h)), b, w, Cat(Cat(Single(C), Rest(g, L, h)), S))
    BY <1>5, <2>2, LeadsFrame
  <2>. HIDE DEF T
  <2>. QED  BY <1>2, <1>4, <1>5, <2>1, <2>2, <2>3 DEF T, node
<1>. QED  BY <1>6, <1>7

LEMMA StringLeads ==
  ASSUME NEW g, NEW L, NEW b, NEW w, Byting(g, L, b, w), NEW s, Below(g, s),
         NEW f, SoundFrame(g, f), g[f.node].kind = "string", f.phase # 0
  PROVE  Leads(g, L, StepString(s, f, b), b, w, Cat(Rest(g, L, f), Rests(g, L, s)))
<1>. DEFINE node == g[f.node]
            S == Rests(g, L, s)
            T == StepString(s, f, b)
            one == Frame(f.node, 1, 0, 0)
            two == Frame(f.node, 2, 0, 0)
            Mark == {"'"}
            Slash == {"\\"}
            Esc == Escapes
            Body == StringBody
<1>0. /\ Setting(g, L) /\ Bounded /\ f.node \in DOMAIN g /\ Place(node, f) /\ node.kind = "string"
      /\ f.phase \in {1, 2}
  <2>1. Setting(g, L) /\ Bounded /\ f.node \in DOMAIN g /\ Place(node, f) /\ node.kind = "string"
    BY InFrames DEF Byting, Setting
  <2>. QED  BY <2>1 DEF Place
<1>1. Fits(S) /\ Lang(S) /\ AllBytes(Mark) /\ AllBytes(Slash) /\ AllBytes(Esc) /\ AllBytes(Plain)
  BY <1>0, RestsAre, LangFit, Signs, PlainIs
<1>2. /\ Body = (Single(Mark) \cup Cat(Single(Plain), Body)) \cup Cat(Single(Slash), Cat(Single(Esc), Body))
      /\ Fits(Body) /\ Lang(Body)
  BY <1>0, BodyIs
<1>3. SoundFrame(g, one) /\ Rest(g, L, one) = Body /\ SoundFrame(g, two) /\ Rest(g, L, two) = Cat(Single(Esc), Body)
  <2>. DEFINE id == f.node
  <2>0. id \in DOMAIN g /\ one = Frame(id, 1, 0, 0) /\ two = Frame(id, 2, 0, 0)
    BY <1>0
  <2>. HIDE DEF id, one, two
  <2>1. one \in Frames(g) /\ one.node = id /\ one.phase = 1
    BY <2>0, FrameOf, Phases
  <2>2. two \in Frames(g) /\ two.node = id /\ two.phase = 2
    BY <2>0, FrameOf, Phases
  <2>. USE DEF id
  <2>. HIDE DEF one, two, node
  <2>3. Place(node, one) /\ Place(node, two)
    BY <1>0, <2>1, <2>2 DEF Place
  <2>4. LeftOf(node, L, one) = Body
    BY <1>0, <2>1 DEF LeftOf
  <2>5. LeftOf(node, L, two) = Cat(Single(Esc), Body)
    BY <1>0, <2>2 DEF LeftOf
  <2>. QED  BY <2>1, <2>2, <2>3, <2>4, <2>5 DEF SoundFrame, Rest, node
<1>. DEFINE X1 == Taken(b, Mark, s)
            X2 == Taken(b, Plain, Push(s, one))
            X3 == Taken(b, Slash, Push(s, two))
            X4 == Taken(b, Esc, Push(s, one))
<1>4. f.phase = 1 => T = (X1 \cup X2) \cup X3
  <2>1. "'" # "\\" /\ "'" \notin Plain /\ "\\" \notin Plain
    BY DEF Plain
  <2>2. CASE b = "'"
    BY <2>1, <2>2 DEF StepString, Taken
  <2>3. CASE b = "\\"
    BY <2>1, <2>3 DEF StepString, Taken, With, Push
  <2>4. CASE b \in Plain
    BY <2>1, <2>4 DEF StepString, Taken, With, Push, Plain
  <2>5. CASE b # "'" /\ b # "\\" /\ b \notin Plain
    BY <2>5 DEF StepString, Taken, Plain
  <2>. QED  BY <2>2, <2>3, <2>4, <2>5
<1>5. f.phase = 2 => T = X4
  BY DEF StepString, Taken, With, Push
<1>6. f.phase = 1 => Rest(g, L, f) = Body
  BY <1>0 DEF Rest, LeftOf
<1>7. f.phase = 2 => Rest(g, L, f) = Cat(Single(Esc), Body)
  BY <1>0 DEF Rest, LeftOf
<1>. HIDE DEF one, two, Mark, Slash, Esc, Body, T
<1>8. /\ Leads(g, L, X1, b, w, Cat(Single(Mark), S))
      /\ Leads(g, L, X2, b, w, Cat(Cat(Single(Plain), Body), S))
      /\ Leads(g, L, X3, b, w, Cat(Cat(Single(Slash), Cat(Single(Esc), Body)), S))
      /\ Leads(g, L, X4, b, w, Cat(Cat(Single(Esc), Body), S))
  <2>1. Leads(g, L, X1, b, w, Cat(Single(Mark), S))
    BY <1>1, LeadsBelow
  <2>2. Leads(g, L, X2, b, w, Cat(Cat(Single(Plain), Rest(g, L, one)), S))
    BY <1>1, <1>3, LeadsFrame
  <2>3. Leads(g, L, X3, b, w, Cat(Cat(Single(Slash), Rest(g, L, two)), S))
    BY <1>1, <1>3, LeadsFrame
  <2>4. Leads(g, L, X4, b, w, Cat(Cat(Single(Esc), Rest(g, L, one)), S))
    BY <1>1, <1>3, LeadsFrame
  <2>. QED  BY <1>3, <2>1, <2>2, <2>3, <2>4
<1>. HIDE DEF X1, X2, X3, X4, S
<1>9. CASE f.phase = 1
  <2>. DEFINE A1 == Single(Mark)
              A2 == Cat(Single(Plain), Body)
              A3 == Cat(Single(Slash), Cat(Single(Esc), Body))
  <2>1. Lang(A1) /\ Lang(A2) /\ Lang(A3)
    BY <1>0, <1>1, <1>2, Led, LangSingle
  <2>2. /\ Body = (A1 \cup A2) \cup A3 /\ Leads(g, L, X1, b, w, Cat(A1, S))
        /\ Leads(g, L, X2, b, w, Cat(A2, S)) /\ Leads(g, L, X3, b, w, Cat(A3, S))
    BY <1>2, <1>8
  <2>. HIDE DEF A1, A2, A3
  <2>3. Leads(g, L, (X1 \cup X2) \cup X3, b, w, (Cat(A1, S) \cup Cat(A2, S)) \cup Cat(A3, S))
    BY <2>2, LeadsOr
  <2>4. Cat(Body, S) = (Cat(A1, S) \cup Cat(A2, S)) \cup Cat(A3, S)
    <3>1. Lang(A1 \cup A2)
      BY <2>1, LangUnion
    <3>2. Cat(A1 \cup A2, S) = Cat(A1, S) \cup Cat(A2, S)
      BY <1>0, <1>1, <2>1, CatUnion
    <3>3. Cat((A1 \cup A2) \cup A3, S) = Cat(A1 \cup A2, S) \cup Cat(A3, S)
      BY <1>0, <1>1, <2>1, <3>1, CatUnion
    <3>. QED  BY <2>2, <3>2, <3>3
  <2>. QED  BY <1>4, <1>6, <1>9, <2>3, <2>4 DEF T, S
<1>10. CASE f.phase = 2
  BY <1>5, <1>7, <1>8, <1>10 DEF T, S
<1>. QED  BY <1>0, <1>9, <1>10

-----------------------------------------------------------------------------
(* A frame of some part of a node, above a stack: where the byte leads.    *)

Site(g, L, b, w, s) == Byting(g, L, b, w) /\ Below(g, s)

On(g, L, b, w, s, T, A) == Leads(g, L, T, b, w, Cat(A, Rests(g, L, s)))

LEMMA SiteIs ==
  ASSUME NEW g, NEW L, NEW b, NEW w, NEW s, Site(g, L, b, w, s)
  PROVE  /\ Setting(g, L) /\ Bounded /\ b \in Byte /\ w \in Text
         /\ Below(g, s) /\ Sound(g, s) /\ Fits(Rests(g, L, s)) /\ Lang(Rests(g, L, s))
         /\ Reading(b, w, Rests(g, L, s)) /\ Byting(g, L, b, w)
<1>1. Setting(g, L) /\ Bounded /\ Below(g, s) /\ b \in Byte /\ w \in Text /\ Size(w) < MaxText
  BY DEF Site, Byting, Setting
<1>2. Sound(g, s)
  BY <1>1, PushSound
<1>3. Fits(Rests(g, L, s))
  <2>1. CASE s = Empty
    <3>1. Rests(g, L, Empty) = Nothing
      BY <1>1, RestsEmpty
    <3>. QED  BY <1>1, <2>1, <3>1, NothingFits
  <2>2. CASE s # Empty
    <3>1. Below(g, Front(s)) /\ Waiting(g, Last(s)) /\ s = Push(Front(s), Last(s))
      BY <1>1, <2>2, PopSound
    <3>2. SoundFrame(g, Last(s))
      BY <3>1 DEF Waiting
    <3>. DEFINE u == Front(s)
                f == Last(s)
    <3>3. Below(g, u) /\ SoundFrame(g, f) /\ s = Push(u, f)
      BY <3>1, <3>2
    <3>. HIDE DEF u, f
    <3>. QED  BY <1>1, <3>3, RestsAre
  <2>. QED  BY <2>1, <2>2
<1>. QED  BY <1>1, <1>2, <1>3, LangFit DEF Reading, Site

LEMMA OnNone ==
  ASSUME NEW g, NEW L, NEW b, NEW w, NEW s, Site(g, L, b, w, s)
  PROVE  On(g, L, b, w, s, {}, {})
<1>1. Cat({}, Rests(g, L, s)) = {}
  BY SiteIs, CatEmpty
<1>. QED  BY <1>1, LeadsNone DEF On

LEMMA OnOr ==
  ASSUME NEW g, NEW L, NEW b, NEW w, NEW s, Site(g, L, b, w, s),
         NEW T, NEW A, On(g, L, b, w, s, T, A), Fits(A),
         NEW U, NEW B, On(g, L, b, w, s, U, B), Fits(B)
  PROVE  On(g, L, b, w, s, T \cup U, A \cup B)
<1>. DEFINE S == Rests(g, L, s)
<1>1. Lang(S) /\ Bounded /\ Lang(A) /\ Lang(B)
  BY SiteIs, LangFit
<1>. HIDE DEF S
<1>2. Cat(A \cup B, S) = Cat(A, S) \cup Cat(B, S)
  BY <1>1, CatUnion
<1>. DEFINE X == Cat(A, S)
            Y == Cat(B, S)
<1>3. Leads(g, L, T, b, w, X) /\ Leads(g, L, U, b, w, Y)
  BY DEF On, S
<1>. HIDE DEF X, Y
<1>4. Leads(g, L, T \cup U, b, w, X \cup Y)
  BY <1>3, LeadsOr
<1>. QED  BY <1>2, <1>4 DEF On, S, X, Y

LEMMA OnUnless ==
  ASSUME NEW g, NEW L, NEW b, NEW w, NEW s, Site(g, L, b, w, s), NEW p,
         NEW T, NEW A, On(g, L, b, w, s, T, A), Fits(A)
  PROVE  /\ On(g, L, b, w, s, IF p THEN {} ELSE T, IF p THEN {} ELSE A)
         /\ Fits(IF p THEN {} ELSE A)
<1>1. CASE p
  BY <1>1, OnNone, FitsNone
<1>2. CASE ~p
  BY <1>2
<1>. QED  BY <1>1, <1>2

(* The frame ends by the byte.                                             *)
LEMMA OnEnd ==
  ASSUME NEW g, NEW L, NEW b, NEW w, NEW s, Site(g, L, b, w, s), NEW c \in Byte
  PROVE  On(g, L, b, w, s, Taken(b, {c}, s), One(c)) /\ Fits(One(c))
<1>. DEFINE C == {c}
<1>1. AllBytes(C) /\ One(c) = Single(C)
  BY OneBytes DEF One
<1>2. Byting(g, L, b, w) /\ Sound(g, s) /\ Fits(Rests(g, L, s)) /\ Bounded
  BY SiteIs
<1>. HIDE DEF C
<1>3. Leads(g, L, Taken(b, C, s), b, w, Cat(Single(C), Rests(g, L, s)))
  BY <1>1, <1>2, LeadsTaken
<1>. QED  BY <1>1, <1>2, <1>3, OneIs DEF On, C

(* The byte leads on to another frame, f.                                  *)
LEMMA OnFrame ==
  ASSUME NEW g, NEW L, NEW b, NEW w, NEW s, Site(g, L, b, w, s), NEW c \in Byte,
         NEW f, SoundFrame(g, f), NEW A, Rest(g, L, f) = A
  PROVE  On(g, L, b, w, s, Taken(b, {c}, Push(s, f)), Cat(One(c), A)) /\ Fits(Cat(One(c), A))
<1>. DEFINE C == {c}
<1>1. AllBytes(C) /\ One(c) = Single(C)
  BY OneBytes DEF One
<1>2. Byting(g, L, b, w) /\ Below(g, s) /\ Fits(Rests(g, L, s)) /\ Bounded /\ Setting(g, L)
  BY SiteIs
<1>3. Lang(A)
  BY <1>2, RestFits, LangFit
<1>. HIDE DEF C
<1>4. Leads(g, L, Taken(b, C, Push(s, f)), b, w, Cat(Cat(Single(C), A), Rests(g, L, s)))
  BY <1>1, <1>2, LeadsFrame
<1>. QED  BY <1>1, <1>2, <1>3, <1>4, OneLed DEF On, C

(* Another phase of the node that a frame is of.                           *)
IsMoved(g, L, s, f, at, i, k, h) ==
  /\ h \in Frames(g) /\ h.node = f.node /\ h.phase = at /\ h.i = i /\ h.k = k
  /\ Place(g[f.node], h) => SoundFrame(g, h)
  /\ Rest(g, L, h) = LeftOf(g[f.node], L, h)
  /\ With(s, f, at, i, k) = {Push(s, h)}

LEMMA Moved ==
  ASSUME NEW g, NEW L, NEW f, SoundFrame(g, f), NEW at, at \in 0..8, NEW i, i \in Nat,
         NEW k, k \in Nat, NEW s
  PROVE  IsMoved(g, L, s, f, at, i, k, Frame(f.node, at, i, k))
<1>. DEFINE id == f.node
            h == Frame(id, at, i, k)
<1>1. id \in DOMAIN g /\ h = Frame(id, at, i, k)
  BY InFrames
<1>2. With(s, f, at, i, k) = {Push(s, h)}
  BY <1>1 DEF With, Push
<1>. HIDE DEF id, h
<1>3. h \in Frames(g) /\ h.node = id /\ h.phase = at /\ h.i = i /\ h.k = k
  BY <1>1, FrameOf
<1>4. /\ Place(g[id], h) => SoundFrame(g, h)
      /\ Rest(g, L, h) = LeftOf(g[id], L, h)
  BY <1>3 DEF SoundFrame, Rest
<1>. QED  BY <1>2, <1>3, <1>4 DEF id, h, IsMoved

-----------------------------------------------------------------------------
(* The byte behind a value.                                                *)

BehindItem(s, f, node, b) ==
  (IF b = "," /\ ~Full(node, f.i) THEN With(s, f, 1, f.i, 0) ELSE {})
    \cup (IF b = "]" /\ f.i >= node.min THEN {s} ELSE {})

BehindMember(s, f, b) ==
  IF f.phase = 2 THEN IF b = ":" THEN With(s, f, 3, f.i, 0) ELSE {}
  ELSE (IF b = "," THEN With(s, f, 1, f.i, 0) ELSE {}) \cup (IF b = "}" THEN {s} ELSE {})

BehindProperty(s, f, node, b) ==
  (IF b = "," /\ f.i < Len(node.keys) THEN With(s, f, 1, f.i + 1, 0) ELSE {})
    \cup CloseObject(s, node, f.i + 1, b)

LEMMA ArrayFollow ==
  ASSUME NEW g, NEW L, NEW b, NEW w, NEW s, Site(g, L, b, w, s),
         NEW f, SoundFrame(g, f), g[f.node].kind = "array", f.phase = 2
  PROVE  On(g, L, b, w, s, BehindItem(s, f, g[f.node], b), Rest(g, L, f))
<1>. DEFINE T == BehindItem(s, f, g[f.node], b)
            node == g[f.node]
            item == L[node.item]
            full == Full(node, f.i)
            few == f.i < node.min
            h == Frame(f.node, 1, f.i, 0)
            Go == Taken(b, {","}, Push(s, h))
            Out == Taken(b, {"]"}, s)
            I == Items(node, item, f.i)
            M == MoreItems(node, item, f.i)
            Br == Bracket(node, f.i)
<1>0. /\ Setting(g, L) /\ Bounded /\ f.node \in DOMAIN g /\ f.i \in Nat /\ Place(node, f)
  BY SiteIs, InFrames
<1>b. "," \in Byte /\ "]" \in Byte
  BY BytesAre
<1>1. Room(node, f.i) /\ Counts(node, item) /\ node.min \in Nat
  <2>1. Counts(node, item)
    BY <1>0, PartsAre
  <2>2. Room(node, f.i)
    BY <1>0 DEF Place
  <2>. QED  BY <2>1, <2>2 DEF Counts
<1>2. /\ M = Br \cup (IF full THEN {} ELSE Cat(One(","), I)) /\ Fits(I)
  <2>. HIDE DEF node, item
  <2>. QED  BY <1>0, <1>1, ItemsAre
<1>3. /\ h \in Frames(g) /\ h.node = f.node /\ h.phase = 1 /\ h.i = f.i
      /\ Place(node, h) => SoundFrame(g, h)
      /\ Rest(g, L, h) = LeftOf(node, L, h)
      /\ With(s, f, 1, f.i, 0) = {Push(s, h)}
  <2>. DEFINE i == f.i
  <2>1. i \in Nat
    BY <1>0
  <2>. HIDE DEF i
  <2>2. IsMoved(g, L, s, f, 1, i, 0, Frame(f.node, 1, i, 0))
    BY <2>1, Moved, Phases
  <2>. QED  BY <2>2 DEF i, IsMoved
<1>. HIDE DEF h
<1>4. SoundFrame(g, h) /\ Rest(g, L, h) = I
  <2>1. Place(node, h)
    BY <1>1, <1>3 DEF Place
  <2>2. LeftOf(node, L, h) = I
    BY <1>3 DEF LeftOf
  <2>. QED  BY <1>3, <2>1, <2>2
<1>5. Rest(g, L, f) = M
  BY DEF Rest, LeftOf
<1>6. T = (IF few THEN {} ELSE Out) \cup (IF full THEN {} ELSE Go)
  <2>1. few <=> ~(f.i >= node.min)
    <3>. DEFINE x == f.i
                y == node.min
    <3>1. x \in Nat /\ y \in Nat
      BY <1>0, <1>1
    <3>. HIDE DEF x, y
    <3>2. x < y <=> ~(x >= y)
      BY <3>1
    <3>. QED  BY <3>2 DEF x, y
  <2>. DEFINE P1 == Push(s, h)
  <2>2. T = (IF b = "," /\ ~full THEN {P1} ELSE {}) \cup (IF b = "]" /\ ~few THEN {s} ELSE {})
    BY <1>3, <2>1 DEF BehindItem
  <2>. HIDE DEF few, full, P1
  <2>. QED  BY <2>2 DEF Taken, P1
<1>. HIDE DEF full, few, Go, Out, I, M, node, item, T
<1>7. On(g, L, b, w, s, Out, One("]")) /\ Fits(One("]"))
  BY <1>b, OnEnd DEF Out
<1>8. On(g, L, b, w, s, Go, Cat(One(","), I)) /\ Fits(Cat(One(","), I))
  BY <1>0, <1>4, <1>b, OnFrame DEF Go
<1>. DEFINE A1 == IF few THEN {} ELSE One("]")
            A2 == IF full THEN {} ELSE Cat(One(","), I)
            T1 == IF few THEN {} ELSE Out
            T2 == IF full THEN {} ELSE Go
<1>9. On(g, L, b, w, s, T1, A1) /\ Fits(A1)
  BY <1>7, OnUnless
<1>10. On(g, L, b, w, s, T2, A2) /\ Fits(A2)
  BY <1>8, OnUnless
<1>11. T = T1 \cup T2 /\ M = A1 \cup A2
  BY <1>2, <1>6 DEF Bracket, few, Br
<1>. HIDE DEF A1, A2, T1, T2
<1>12. On(g, L, b, w, s, T1 \cup T2, A1 \cup A2)
  BY <1>9, <1>10, OnOr
<1>. QED  BY <1>5, <1>11, <1>12 DEF T

LEMMA FreeFollow ==
  ASSUME NEW g, NEW L, NEW b, NEW w, NEW s, Site(g, L, b, w, s),
         NEW f, SoundFrame(g, f), g[f.node].kind = "free", f.phase \in {2, 4}
  PROVE  On(g, L, b, w, s, BehindMember(s, f, b), Rest(g, L, f))
<1>. DEFINE T == BehindMember(s, f, b)
            node == g[f.node]
            key == L[node.values[1]]
            value == L[node.values[2]]
            M == MoreMembers(key, value)
            X == Members(key, value)
            V == Cat(value, M)
            i == f.i
            h == Frame(f.node, 1, i, 0)
            v == Frame(f.node, 3, i, 0)
<1>0. /\ Setting(g, L) /\ Bounded /\ f.node \in DOMAIN g /\ i \in Nat /\ Place(node, f)
  BY SiteIs, InFrames
<1>b. "," \in Byte /\ ":" \in Byte /\ "}" \in Byte
  BY BytesAre
<1>1. Pair2(key, value) /\ i > 0 /\ i # 0
  <2>1. Pair2(key, value)
    BY <1>0, PartsAre
  <2>2. f.i > 0
    BY <1>0 DEF Place
  <2>3. i > 0
    BY <2>2
  <2>. HIDE DEF i
  <2>. QED  BY <1>0, <2>1, <2>3
<1>2. M = One("}") \cup Cat(One(","), X) /\ Fits(X) /\ Fits(V)
  <2>. HIDE DEF key, value
  <2>. QED  BY <1>1, MembersAre
<1>. HIDE DEF i
<1>3. /\ h \in Frames(g) /\ h.node = f.node /\ h.phase = 1 /\ h.i = i
      /\ Place(node, h) => SoundFrame(g, h)
      /\ Rest(g, L, h) = LeftOf(node, L, h)
      /\ With(s, f, 1, i, 0) = {Push(s, h)}
  <2>1. IsMoved(g, L, s, f, 1, i, 0, Frame(f.node, 1, i, 0))
    BY <1>0, Moved, Phases
  <2>. QED  BY <2>1 DEF IsMoved
<1>4. /\ v \in Frames(g) /\ v.node = f.node /\ v.phase = 3 /\ v.i = i
      /\ Place(node, v) => SoundFrame(g, v)
      /\ Rest(g, L, v) = LeftOf(node, L, v)
      /\ With(s, f, 3, i, 0) = {Push(s, v)}
  <2>1. IsMoved(g, L, s, f, 3, i, 0, Frame(f.node, 3, i, 0))
    BY <1>0, Moved, Phases
  <2>. QED  BY <2>1 DEF IsMoved
<1>. HIDE DEF h, v
<1>5. SoundFrame(g, h) /\ Rest(g, L, h) = X
  <2>1. Place(node, h)
    BY <1>1, <1>3 DEF Place
  <2>3. LeftOf(node, L, h) = X
    BY <1>1, <1>3 DEF LeftOf
  <2>. QED  BY <1>3, <2>1, <2>3
<1>6. SoundFrame(g, v) /\ Rest(g, L, v) = V
  <2>1. Place(node, v)
    BY <1>1, <1>4 DEF Place
  <2>2. LeftOf(node, L, v) = V
    BY <1>4 DEF LeftOf
  <2>. QED  BY <1>4, <2>1, <2>2
<1>7. CASE f.phase = 2
  <2>1. Rest(g, L, f) = Cat(One(":"), V)
    BY <1>7 DEF Rest, LeftOf
  <2>2. T = Taken(b, {":"}, Push(s, v))
    BY <1>4, <1>7 DEF Taken, i, BehindMember
  <2>. HIDE DEF V
  <2>3. On(g, L, b, w, s, Taken(b, {":"}, Push(s, v)), Cat(One(":"), V))
    BY <1>b, <1>6, OnFrame
  <2>. QED  BY <2>1, <2>2, <2>3
<1>8. CASE f.phase = 4
  <2>1. Rest(g, L, f) = M
    BY <1>8 DEF Rest, LeftOf
  <2>. DEFINE Go == Taken(b, {","}, Push(s, h))
              Out == Taken(b, {"}"}, s)
              A == Cat(One(","), X)
              E == One("}")
  <2>2. T = Out \cup Go
    <3>1. T = (IF b = "," THEN {Push(s, h)} ELSE {}) \cup (IF b = "}" THEN {s} ELSE {})
      <4>1. T = (IF b = "," THEN With(s, f, 1, f.i, 0) ELSE {}) \cup (IF b = "}" THEN {s} ELSE {})
        <5>1. f.phase # 2
          BY <1>8
        <5>. QED  BY <5>1 DEF BehindMember
      <4>2. With(s, f, 1, f.i, 0) = {Push(s, h)}
        BY <1>3 DEF i
      <4>. HIDE DEF T
      <4>. QED  BY <4>1, <4>2
    <3>. HIDE DEF T
    <3>. QED  BY <3>1 DEF Taken
  <2>. HIDE DEF X
  <2>3. On(g, L, b, w, s, Go, A) /\ Fits(A)
    BY <1>b, <1>5, OnFrame
  <2>4. On(g, L, b, w, s, Out, E) /\ Fits(E)
    BY <1>b, OnEnd
  <2>5. M = E \cup A
    BY <1>2
  <2>. HIDE DEF A, E, Go, Out, M
  <2>6. On(g, L, b, w, s, Out \cup Go, E \cup A)
    BY <2>3, <2>4, OnOr
  <2>. QED  BY <2>1, <2>2, <2>5, <2>6
<1>. QED  BY <1>7, <1>8

(* Behind a property: a comma where more could follow, or the end.         *)
LEMMA BehindIs ==
  ASSUME NEW node, NEW L, Keyed(node, L), NEW i \in 1..Len(node.keys)
  PROVE  /\ Behind(node, L, i)
              = (IF i >= Len(node.keys) THEN {}
                 ELSE Cat(One(","), Properties(node, L, Len(node.keys) + 1 - (i + 1))))
                  \cup (IF ~AllOptional(node, i + 1) THEN {} ELSE One("}"))
         /\ i < Len(node.keys) => Fits(Properties(node, L, Len(node.keys) + 1 - (i + 1)))
<1>. DEFINE n == Len(node.keys)
            later == Properties(node, L, n - i)
            E == Single({"}"})
<1>0. Bounded /\ n \in Nat /\ i \in Nat /\ i <= n
  BY DEF Keyed
<1>1. n + 1 - (i + 1) = n - i /\ n - i \in 0..n /\ (n - i = 0 <=> i >= n)
  <2>. HIDE DEF n
  <2>. QED  BY <1>0
<1>2. Fits(later)
  BY <1>1, PropertiesFit
<1>3. Lead("}", Nil) \in later <=> AllOptional(node, i + 1)
  BY EndOnly
<1>. DEFINE C == {"}"}
<1>4. AllBytes(C) /\ C = {"}"}
  BY Signs
<1>. HIDE DEF C
<1>5. \A x : x \in Single(C) <=> x = Lead("}", Nil)
  <2>1. \A x : x \in Single(C) <=> \E c \in C : x = Lead(c, Nil)
    BY <1>4, SingleIs
  <2>. QED  BY <1>4, <2>1
<1>. HIDE DEF n, later
<1>6. later \cap E = IF ~AllOptional(node, i + 1) THEN {} ELSE One("}")
  BY <1>3, <1>4, <1>5 DEF One
<1>7. Behind(node, L, i) = (IF n - i = 0 THEN {} ELSE Cat(Single({","}), later)) \cup (later \cap E)
  BY DEF Behind, Onward, n, later
<1>. QED  BY <1>1, <1>2, <1>6, <1>7 DEF One, n, later

LEMMA ObjectFollow ==
  ASSUME NEW g, NEW L, NEW b, NEW w, NEW s, Site(g, L, b, w, s),
         NEW f, SoundFrame(g, f), g[f.node].kind = "object", f.phase = 3
  PROVE  On(g, L, b, w, s, BehindProperty(s, f, g[f.node], b), Rest(g, L, f))
<1>. DEFINE T == BehindProperty(s, f, g[f.node], b)
            node == g[f.node]
            i == f.i
            n == Len(node.keys)
            j == i + 1
            h == Frame(f.node, 1, j, 0)
            last == i >= n
            more == ~AllOptional(node, j)
            P == Properties(node, L, n + 1 - j)
            Go == Taken(b, {","}, Push(s, h))
            Out == Taken(b, {"}"}, s)
<1>0. /\ Setting(g, L) /\ Bounded /\ f.node \in DOMAIN g /\ i \in Nat /\ Place(node, f)
  BY SiteIs, InFrames
<1>b. "," \in Byte /\ "}" \in Byte
  BY BytesAre
<1>1. Keyed(node, L) /\ i \in 1..n /\ n \in Nat
  <2>1. Keyed(node, L)
    BY <1>0, PartsAre
  <2>2. i \in 1..n
    BY <1>0 DEF Place
  <2>. QED  BY <2>1, <2>2 DEF Keyed
<1>2. /\ Behind(node, L, i) = (IF last THEN {} ELSE Cat(One(","), P)) \cup (IF more THEN {} ELSE One("}"))
      /\ ~last => Fits(P)
  <2>1. /\ Behind(node, L, i) = (IF i >= n THEN {} ELSE Cat(One(","), P)) \cup (IF more THEN {} ELSE One("}"))
        /\ i < n => Fits(P)
    <3>. HIDE DEF node, i
    <3>. QED  BY <1>1, BehindIs
  <2>2. last <=> ~(i < n)
    <3>. HIDE DEF i, n
    <3>. QED  BY <1>0, <1>1
  <2>. QED  BY <2>1, <2>2
<1>3. Rest(g, L, f) = Behind(node, L, i)
  BY DEF Rest, LeftOf
<1>4. j \in Nat
  <2>. HIDE DEF i
  <2>. QED  BY <1>0
<1>. HIDE DEF i, j
<1>5. /\ h \in Frames(g) /\ h.node = f.node /\ h.phase = 1 /\ h.i = j
      /\ Place(node, h) => SoundFrame(g, h)
      /\ Rest(g, L, h) = LeftOf(node, L, h)
      /\ With(s, f, 1, j, 0) = {Push(s, h)}
  <2>1. IsMoved(g, L, s, f, 1, j, 0, Frame(f.node, 1, j, 0))
    BY <1>0, <1>4, Moved, Phases
  <2>. QED  BY <2>1 DEF IsMoved
<1>. HIDE DEF h
<1>6. ~last => SoundFrame(g, h) /\ Rest(g, L, h) = P
  <2>1. ~last => j \in 1..n
    <3>. HIDE DEF n
    <3>. QED  BY <1>0, <1>1, <1>4 DEF j
  <2>. HIDE DEF last
  <2>2. ~last => Place(node, h)
    BY <1>5, <2>1 DEF Place
  <2>3. LeftOf(node, L, h) = P
    BY <1>5 DEF LeftOf
  <2>. QED  BY <1>5, <2>2, <2>3
<1>7. T = (IF last THEN {} ELSE Go) \cup (IF more THEN {} ELSE Out)
  <2>1. last <=> ~(i < n)
    <3>. HIDE DEF n
    <3>. QED  BY <1>0, <1>1
  <2>. DEFINE P1 == Push(s, h)
              under == i < n
  <2>2. T = (IF b = "," /\ under THEN {P1} ELSE {}) \cup (IF b = "}" /\ ~more THEN {s} ELSE {})
    BY <1>5 DEF CloseObject, i, j, BehindProperty
  <2>. HIDE DEF last, more, P1, under
  <2>. QED  BY <2>1, <2>2 DEF Taken, P1, under
<1>. HIDE DEF last, more, Go, Out, P, node, n, T
<1>8. On(g, L, b, w, s, Out, One("}")) /\ Fits(One("}"))
  BY <1>b, OnEnd DEF Out
<1>. DEFINE A1 == IF last THEN {} ELSE Cat(One(","), P)
            A2 == IF more THEN {} ELSE One("}")
            T1 == IF last THEN {} ELSE Go
            T2 == IF more THEN {} ELSE Out
<1>9. On(g, L, b, w, s, T1, A1) /\ Fits(A1)
  <2>1. CASE last
    BY <2>1, OnNone, FitsNone
  <2>2. CASE ~last
    <3>1. On(g, L, b, w, s, Go, Cat(One(","), P)) /\ Fits(Cat(One(","), P))
      BY <1>0, <1>6, <2>2, <1>b, OnFrame DEF Go
    <3>. QED  BY <2>2, <3>1
  <2>. QED  BY <2>1, <2>2
<1>10. On(g, L, b, w, s, T2, A2) /\ Fits(A2)
  BY <1>8, OnUnless
<1>11. T = T1 \cup T2 /\ Behind(node, L, i) = A1 \cup A2
  BY <1>2, <1>7
<1>. HIDE DEF A1, A2, T1, T2
<1>12. On(g, L, b, w, s, T1 \cup T2, A1 \cup A2)
  BY <1>9, <1>10, OnOr
<1>. QED  BY <1>3, <1>11, <1>12 DEF T, node

(* What waits for a value, and is given the byte behind it.                *)
LEMMA FollowLast ==
  ASSUME NEW g, NEW L, NEW b, NEW w, NEW t, t # Empty, NEW s, s = Front(t), Site(g, L, b, w, s),
         NEW f, f = Last(t), Waiting(g, f)
  PROVE  On(g, L, b, w, s, Follow(g, t, b), Rest(g, L, f))
<1>. DEFINE node == g[f.node]
            T == Follow(g, t, b)
<1>1. SoundFrame(g, f)
  BY DEF Waiting
<1>2. CASE node.kind = "array" /\ f.phase = 2
  <2>1. T = BehindItem(s, f, node, b)
    BY <1>2 DEF Follow, Empty, BehindItem
  <2>2. On(g, L, b, w, s, BehindItem(s, f, node, b), Rest(g, L, f))
    BY <1>1, <1>2, ArrayFollow
  <2>. QED  BY <2>1, <2>2
<1>3. CASE node.kind = "free" /\ f.phase \in {2, 4}
  <2>1. T = BehindMember(s, f, b)
    BY <1>3 DEF Follow, Empty, BehindMember
  <2>2. On(g, L, b, w, s, BehindMember(s, f, b), Rest(g, L, f))
    BY <1>1, <1>3, FreeFollow
  <2>. QED  BY <2>1, <2>2
<1>4. CASE node.kind = "object" /\ f.phase = 3
  <2>1. T = BehindProperty(s, f, node, b)
    BY <1>4 DEF Follow, Empty, BehindProperty
  <2>2. On(g, L, b, w, s, BehindProperty(s, f, node, b), Rest(g, L, f))
    BY <1>1, <1>4, ObjectFollow
  <2>. QED  BY <2>1, <2>2
<1>. QED  BY <1>2, <1>3, <1>4 DEF Waiting

(* The same for a whole stack of what waits.                               *)
LEMMA FollowLeads ==
  ASSUME NEW g, NEW L, NEW b, NEW w, NEW s, Site(g, L, b, w, s)
  PROVE  Leads(g, L, Follow(g, s, b), b, w, Rests(g, L, s))
<1>0. Below(g, s) /\ Setting(g, L) /\ Bounded /\ Byting(g, L, b, w) /\ b \in Byte /\ w \in Text
  BY SiteIs
<1>1. CASE s = Empty
  <2>1. Rests(g, L, s) = Nothing /\ Follow(g, s, b) = {}
    BY <1>0, <1>1, RestsEmpty DEF Follow, Empty
  <2>2. Lead(b, w) \notin Nothing
    BY <1>0, LeadIs, LangNothing
  <2>. QED  BY <2>1, <2>2 DEF Leads, Spells
<1>2. CASE s # Empty
  <2>. DEFINE u == Front(s)
              f == Last(s)
  <2>1. Below(g, u) /\ Waiting(g, f) /\ s = Push(u, f) /\ SoundFrame(g, f)
    BY <1>0, <1>2, PopSound DEF Waiting
  <2>2. Site(g, L, b, w, u)
    BY <1>0, <2>1 DEF Site
  <2>3. On(g, L, b, w, u, Follow(g, s, b), Rest(g, L, f))
    <3>1. u = Front(s) /\ f = Last(s)
      OBVIOUS
    <3>. HIDE DEF u, f
    <3>. QED  BY <1>2, <2>1, <2>2, <3>1, FollowLast
  <2>. HIDE DEF u, f
  <2>4. Rests(g, L, s) = Cat(Rest(g, L, f), Rests(g, L, u))
    BY <1>0, <2>1, RestsAre
  <2>. QED  BY <2>3, <2>4 DEF On
<1>. QED  BY <1>1, <1>2

-----------------------------------------------------------------------------
(* Numbers, and the first byte of a value.                                 *)

LEMMA NumberPhaseIn ==
  ASSUME NEW at \in 0..8, NEW b, NEW integer \in BOOLEAN, NEW k \in NumberPhase(at, b, integer)
  PROVE  k \in 0..8 /\ k # 0 /\ (integer /\ at <= 3 => k <= 3)
BY DEF NumberPhase

LEMMA NumberLeads ==
  ASSUME NEW g, NEW L, NEW b, NEW w, NEW s, Site(g, L, b, w, s),
         NEW f, SoundFrame(g, f), g[f.node].kind = "number", g[f.node].integer => f.phase <= 3
  PROVE  On(g, L, b, w, s,
            StepNumber(s, f, g[f.node], b)
              \cup IF NumberCanStop(f.phase) THEN Follow(g, s, b) ELSE {},
            NumberRest(g[f.node].integer, f.phase))
<1>. DEFINE node == g[f.node]
            integer == node.integer
            at == f.phase
            S == Rests(g, L, s)
            H(k) == Frame(f.node, k, 0, 0)
            T == StepNumber(s, f, node, b)
            F == Follow(g, s, b)
            C == NumberCanStop(at)
            U == IF C THEN F ELSE {}
            NP == NumberPhase(at, b, integer)
<1>0. /\ Setting(g, L) /\ Bounded /\ Below(g, s) /\ f.node \in DOMAIN g /\ at \in 0..8
      /\ integer \in BOOLEAN /\ Reading(b, w, S) /\ (integer => at <= 3)
  <2>1. /\ Setting(g, L) /\ Bounded /\ Below(g, s) /\ f.node \in DOMAIN g /\ at \in 0..8
        /\ Reading(b, w, S)
    BY SiteIs, InFrames
  <2>2. integer \in BOOLEAN
    BY <2>1, NodeIs DEF Plan
  <2>. QED  BY <2>1, <2>2
<1>1. ASSUME NEW k \in NP
      PROVE  /\ SoundFrame(g, H(k)) /\ With(s, f, k, 0, 0) = {Push(s, H(k))}
             /\ Rests(g, L, Push(s, H(k))) = Cat(NumberRest(integer, k), S)
  <2>1. k \in 0..8 /\ k # 0 /\ (integer => k <= 3)
    <3>. HIDE DEF integer, at
    <3>. QED  BY <1>0, <1>1, NumberPhaseIn
  <2>2. IsMoved(g, L, s, f, k, 0, 0, H(k))
    BY <2>1, Moved, Phases
  <2>. DEFINE h == H(k)
  <2>3. /\ h.node = f.node /\ h.phase = k /\ (Place(node, h) => SoundFrame(g, h))
        /\ Rest(g, L, h) = LeftOf(node, L, h) /\ With(s, f, k, 0, 0) = {Push(s, h)}
    BY <2>2 DEF IsMoved
  <2>. HIDE DEF h
  <2>4. Place(node, h)
    BY <2>1, <2>3 DEF Place
  <2>5. LeftOf(node, L, h) = NumberRest(integer, k)
    BY <2>1, <2>3 DEF LeftOf
  <2>6. Rests(g, L, Push(s, h)) = Cat(Rest(g, L, h), S)
    BY <1>0, <2>3, <2>4, RestsAre
  <2>. QED  BY <2>3, <2>4, <2>5, <2>6 DEF h
<1>2. T = UNION {With(s, f, k, 0, 0) : k \in NP}
  BY DEF StepNumber
<1>3. \A t : t \in T <=> \E k \in NP : t = Push(s, H(k))
  <2>. HIDE DEF H, T, NP
  <2>. QED  BY <1>1, <1>2
<1>4. \A t \in T : Sound(g, t)
  <2>. HIDE DEF H, T, NP
  <2>. QED  BY <1>0, <1>1, <1>3, PushSound
<1>5. Spells(g, L, T, w) <=> \E k \in NP : There(w, S, integer, k)
  <2>. HIDE DEF H, T, NP, S, integer
  <2>. QED  BY <1>1, <1>3 DEF Spells, There
<1>6. Leads(g, L, F, b, w, S)
  BY FollowLeads
<1>. HIDE DEF integer, at, S, NP, T, F
<1>7. Here(b, w, S, NumberRest(integer, at))
        <=> \/ \E k \in NP : There(w, S, integer, k)
            \/ C /\ Lead(b, w) \in S
  BY <1>0, NumberReads DEF NP
<1>. HIDE DEF C
<1>8. Spells(g, L, U, w) <=> C /\ Lead(b, w) \in S
  BY <1>6 DEF Leads, Spells
<1>9. \A t \in U : Sound(g, t)
  BY <1>6 DEF Leads
<1>10. Spells(g, L, T \cup U, w) <=> Spells(g, L, T, w) \/ Spells(g, L, U, w)
  BY DEF Spells
<1>11. \A t \in T \cup U : Sound(g, t)
  BY <1>4, <1>9
<1>. HIDE DEF U
<1>12. Leads(g, L, T \cup U, b, w, Cat(NumberRest(integer, at), S))
  BY <1>5, <1>7, <1>8, <1>10, <1>11 DEF Leads, Here
<1>. QED  BY <1>12 DEF On, S, T, U, C, F, integer, at, node

(* A value that starts at its node.                                        *)
LEMMA Started ==
  ASSUME NEW g, NEW c \in DOMAIN g
  PROVE  /\ Frame(c, 0, 0, 0).node = c /\ Frame(c, 0, 0, 0).phase = 0
         /\ Frame(c, 0, 0, 0).i = 0 /\ Frame(c, 0, 0, 0).k = 0
         /\ g[c].kind # "literal" => SoundFrame(g, Frame(c, 0, 0, 0))
         /\ g[c].kind = "literal" /\ 0 < Size(g[c].text) => SoundFrame(g, Frame(c, 0, 0, 0))
<1>. DEFINE h == Frame(c, 0, 0, 0)
<1>1. h \in Frames(g) /\ h.node = c /\ h.phase = 0 /\ h.i = 0 /\ h.k = 0
  BY FrameOf, Phases
<1>. HIDE DEF h
<1>2. g[c].kind # "literal" => Place(g[c], h)
  BY <1>1 DEF Place
<1>3. g[c].kind = "literal" /\ 0 < Size(g[c].text) => Place(g[c], h)
  BY <1>1 DEF Place
<1>. QED  BY <1>1, <1>2, <1>3 DEF h, SoundFrame

LEMMA OpenBracket ==
  ASSUME NEW g, NEW L, NEW b, NEW w, NEW s, Site(g, L, b, w, s),
         NEW c \in DOMAIN g, g[c].kind \in {"string", "array", "free", "object"},
         NEW o \in Byte, NEW i \in Nat, NEW A,
         Place(g[c], Frame(c, 1, i, 0)), LeftOf(g[c], L, Frame(c, 1, i, 0)) = A
  PROVE  On(g, L, b, w, s, IF b = o THEN With(s, Frame(c, 0, 0, 0), 1, i, 0) ELSE {}, Cat(One(o), A))
<1>. DEFINE f == Frame(c, 0, 0, 0)
            h == Frame(c, 1, i, 0)
<1>1. SoundFrame(g, f) /\ f.node = c
  BY Started
<1>. HIDE DEF f
<1>2. IsMoved(g, L, s, f, 1, i, 0, Frame(f.node, 1, i, 0))
  BY <1>1, Moved, Phases
<1>3. IsMoved(g, L, s, f, 1, i, 0, h)
  BY <1>1, <1>2
<1>4. SoundFrame(g, h) /\ Rest(g, L, h) = A /\ With(s, f, 1, i, 0) = {Push(s, h)}
  BY <1>1, <1>3 DEF IsMoved
<1>. HIDE DEF h
<1>5. On(g, L, b, w, s, Taken(b, {o}, Push(s, h)), Cat(One(o), A))
  BY <1>4, OnFrame
<1>6. (IF b = o THEN With(s, f, 1, i, 0) ELSE {}) = Taken(b, {o}, Push(s, h))
  BY <1>4 DEF Taken
<1>. QED  BY <1>5, <1>6 DEF f

LEMMA OpenNodeLeads ==
  ASSUME NEW g, NEW L, NEW b, NEW w, NEW s, Site(g, L, b, w, s),
         NEW c \in DOMAIN g, g[c].kind # "anyOf"
  PROVE  On(g, L, b, w, s, OpenNode(s, Frame(c, 0, 0, 0), g[c], b), SpelledBy(g[c], L))
<1>. DEFINE node == g[c]
            f == Frame(c, 0, 0, 0)
            T == OpenNode(s, f, node, b)
            A == SpelledBy(node, L)
<1>0. Setting(g, L) /\ Bounded /\ Plan(g, node) /\ Form(g, L, node) /\ node.kind \in Kinds
  <2>1. Setting(g, L) /\ Bounded
    BY SiteIs
  <2>2. Plan(g, node)
    BY <2>1, NodeIs
  <2>3. Form(g, L, node)
    BY <2>1, FormIs
  <2>. QED  BY <2>1, <2>2, <2>3 DEF Plan
<1>m. "'" \in Byte /\ "[" \in Byte /\ "{" \in Byte
  BY BytesAre
<1>f. f.node = c /\ f.phase = 0 /\ f.i = 0 /\ f.k = 0
  BY Started
<1>1. CASE node.kind = "literal"
  <2>1. node.text \in Text /\ 0 < Size(node.text)
    <3>1. node.text \in Text /\ Size(node.text) > 0
      BY <1>0, <1>1 DEF Plan
    <3>2. Size(node.text) \in Nat
      BY <3>1, SizeIs
    <3>. QED  BY <3>1, <3>2
  <2>2. SoundFrame(g, f)
    BY <1>1, <2>1, Started
  <2>3. T = StepLiteral(s, f, node, b)
    BY <1>1 DEF OpenNode
  <2>4. A = {node.text}
    BY <1>0, <1>1 DEF Form
  <2>. HIDE DEF f
  <2>5. Rest(g, L, f) = Word(node.text, 0)
    BY <1>1, <1>f DEF Rest, LeftOf
  <2>6. Leads(g, L, StepLiteral(s, f, g[f.node], b), b, w, Cat(Rest(g, L, f), Rests(g, L, s)))
    <3>1. Byting(g, L, b, w) /\ Below(g, s)
      BY SiteIs
    <3>2. g[f.node].kind = "literal"
      BY <1>1, <1>f
    <3>. QED  BY <2>2, <3>1, <3>2, LiteralLeads
  <2>. DEFINE t == node.text
              S == Rests(g, L, s)
  <2>7. Cat({t}, S) = Cat(Word(t, 0), S)
    <3>1. Lang(S) /\ t \in Text
      BY <2>1, SiteIs
    <3>. HIDE DEF t, S
    <3>. QED  BY <1>0, <3>1, CatWord
  <2>8. Leads(g, L, T, b, w, Cat(Word(t, 0), S))
    BY <1>f, <2>3, <2>5, <2>6
  <2>. QED  BY <2>4, <2>7, <2>8 DEF On, f
<1>2. CASE node.kind = "number"
  <2>1. SoundFrame(g, f)
    BY <1>2, Started
  <2>2. T = StepNumber(s, f, node, b)
    BY <1>2 DEF OpenNode
  <2>3. A = NumberRest(node.integer, 0)
    BY <1>0, <1>2 DEF Form
  <2>. HIDE DEF f
  <2>. DEFINE U == StepNumber(s, f, g[f.node], b)
                     \cup IF NumberCanStop(f.phase) THEN Follow(g, s, b) ELSE {}
  <2>4. On(g, L, b, w, s, U, NumberRest(g[f.node].integer, f.phase))
    <3>1. g[f.node].kind = "number" /\ f.phase <= 3
      BY <1>2, <1>f
    <3>. QED  BY <2>1, <3>1, NumberLeads
  <2>5. U = T
    <3>1. ~NumberCanStop(f.phase)
      BY <1>f DEF NumberCanStop
    <3>. QED  BY <1>f, <2>2, <3>1
  <2>. HIDE DEF U
  <2>. QED  BY <1>f, <2>3, <2>4, <2>5 DEF f
<1>3. CASE node.kind = "string"
  <2>. DEFINE h == Frame(c, 1, 0, 0)
  <2>1. h.phase = 1 /\ h.i = 0
    BY FrameOf, Phases
  <2>2. T = IF b = "'" THEN With(s, f, 1, 0, 0) ELSE {}
    BY <1>3 DEF OpenNode
  <2>3. A = Cat(One("'"), StringBody)
    BY <1>0, <1>3 DEF Form
  <2>. HIDE DEF h
  <2>4. Place(node, h)
    BY <1>3, <2>1 DEF Place
  <2>5. LeftOf(node, L, h) = StringBody
    BY <1>3, <2>1 DEF LeftOf
  <2>6. On(g, L, b, w, s, IF b = "'" THEN With(s, f, 1, 0, 0) ELSE {}, Cat(One("'"), StringBody))
    BY <1>3, <1>m, <2>4, <2>5, OpenBracket, Phases DEF h
  <2>. QED  BY <2>2, <2>3, <2>6
<1>4. CASE node.kind = "array"
  <2>. DEFINE h == Frame(c, 1, 0, 0)
              I == Items(node, L[node.item], 0)
  <2>1. h.phase = 1 /\ h.i = 0
    BY FrameOf, Phases
  <2>2. T = IF b = "[" THEN With(s, f, 1, 0, 0) ELSE {}
    BY <1>4 DEF OpenNode
  <2>3. A = Cat(One("["), I)
    BY <1>0, <1>4 DEF Form
  <2>. HIDE DEF h
  <2>4. Place(node, h)
    <3>1. node.max \in Int
      BY <1>0 DEF Plan
    <3>2. Room(node, 0)
      BY <3>1 DEF Room
    <3>. QED  BY <1>4, <2>1, <3>2 DEF Place
  <2>5. LeftOf(node, L, h) = I
    BY <1>4, <2>1 DEF LeftOf
  <2>. HIDE DEF I
  <2>6. On(g, L, b, w, s, IF b = "[" THEN With(s, f, 1, 0, 0) ELSE {}, Cat(One("["), I))
    BY <1>4, <1>m, <2>4, <2>5, OpenBracket, Phases DEF h
  <2>. QED  BY <2>2, <2>3, <2>6
<1>5. CASE node.kind = "free"
  <2>. DEFINE h == Frame(c, 1, 0, 0)
              I == Inside(L[node.values[1]], L[node.values[2]])
  <2>1. h.phase = 1 /\ h.i = 0
    BY FrameOf, Phases
  <2>2. T = IF b = "{" THEN With(s, f, 1, 0, 0) ELSE {}
    BY <1>5 DEF OpenNode
  <2>3. A = Cat(One("{"), I)
    BY <1>0, <1>5 DEF Form, Inside
  <2>. HIDE DEF h
  <2>4. Place(node, h)
    BY <1>5, <2>1 DEF Place
  <2>5. LeftOf(node, L, h) = I
    BY <1>5, <2>1 DEF LeftOf
  <2>. HIDE DEF I
  <2>6. On(g, L, b, w, s, IF b = "{" THEN With(s, f, 1, 0, 0) ELSE {}, Cat(One("{"), I))
    BY <1>5, <1>m, <2>4, <2>5, OpenBracket, Phases DEF h
  <2>. QED  BY <2>2, <2>3, <2>6
<1>6. CASE node.kind = "object"
  <2>. DEFINE h == Frame(c, 1, 1, 0)
              n == Len(node.keys)
              I == Properties(node, L, n)
  <2>1. h.phase = 1 /\ h.i = 1
    BY FrameOf, Phases
  <2>2. T = IF b = "{" THEN With(s, f, 1, 1, 0) ELSE {}
    BY <1>6 DEF OpenNode
  <2>3. A = Cat(One("{"), I)
    BY <1>0, <1>6 DEF Form
  <2>0. n \in Nat /\ n > 0
    BY <1>0, <1>6 DEF Plan
  <2>. HIDE DEF h
  <2>4. Place(node, h)
    <3>1. 1 \in 1..n
      <4>. HIDE DEF n
      <4>. QED  BY <2>0
    <3>. QED  BY <1>6, <2>1, <3>1 DEF Place
  <2>5. LeftOf(node, L, h) = I
    <3>1. n + 1 - 1 = n
      <4>. HIDE DEF n
      <4>. QED  BY <2>0
    <3>2. LeftOf(node, L, h) = Properties(node, L, n + 1 - h.i)
      BY <1>6, <2>1 DEF LeftOf
    <3>. QED  BY <2>1, <3>1, <3>2
  <2>. HIDE DEF I
  <2>6. On(g, L, b, w, s, IF b = "{" THEN With(s, f, 1, 1, 0) ELSE {}, Cat(One("{"), I))
    BY <1>6, <1>m, <2>4, <2>5, OpenBracket, Phases DEF h
  <2>. QED  BY <2>2, <2>3, <2>6
<1>. QED  BY <1>0, <1>1, <1>2, <1>3, <1>4, <1>5, <1>6 DEF Kinds

LEMMA OpenLeads ==
  ASSUME NEW g, NEW L, NEW b, NEW w, NEW s, Site(g, L, b, w, s), NEW id \in DOMAIN g
  PROVE  On(g, L, b, w, s, Open(g, s, id, b), L[id])
<1>. DEFINE S == Rests(g, L, s)
            Alt == Alternatives(g, id)
            O(c) == OpenNode(s, Frame(c, 0, 0, 0), g[c], b)
            D(c) == SpelledBy(g[c], L)
<1>0. Setting(g, L) /\ Reading(b, w, S)
  BY SiteIs
<1>1. \A c \in Alt : c \in DOMAIN g /\ g[c].kind # "anyOf"
  BY <1>0, AlternativesAre
<1>2. ASSUME NEW c \in Alt PROVE Leads(g, L, O(c), b, w, Cat(D(c), S))
  BY <1>1, OpenNodeLeads DEF On
<1>3. Lead(b, w) \in Cat(L[id], S) <=> \E c \in Alt : Lead(b, w) \in Cat(D(c), S)
  <2>. HIDE DEF S
  <2>. QED  BY <1>0, ReadLanguage
<1>4. \A t : t \in Open(g, s, id, b) <=> \E c \in Alt : t \in O(c)
  BY DEF Open
<1>. HIDE DEF S, Alt, O, D
<1>5. \A t \in Open(g, s, id, b) : Sound(g, t)
  BY <1>2, <1>4 DEF Leads
<1>6. Spells(g, L, Open(g, s, id, b), w) <=> \E c \in Alt : Spells(g, L, O(c), w)
  BY <1>4 DEF Spells
<1>7. \A c \in Alt : Spells(g, L, O(c), w) <=> Lead(b, w) \in Cat(D(c), S)
  BY <1>2 DEF Leads
<1>8. Spells(g, L, Open(g, s, id, b), w) <=> Lead(b, w) \in Cat(L[id], S)
  BY <1>3, <1>6, <1>7
<1>. QED  BY <1>5, <1>8 DEF Leads, On, S

-----------------------------------------------------------------------------
(* Values within values.                                                   *)

LEMMA OnBelow ==
  ASSUME NEW g, NEW L, NEW b, NEW w, NEW s, Site(g, L, b, w, s), NEW h, Waiting(g, h),
         NEW T, NEW A, Lang(A), On(g, L, b, w, Push(s, h), T, A)
  PROVE  On(g, L, b, w, s, T, Cat(A, Rest(g, L, h)))
<1>. DEFINE S == Rests(g, L, s)
            R == Rest(g, L, h)
<1>1. SoundFrame(g, h)
  BY DEF Waiting
<1>2. Setting(g, L) /\ Bounded /\ Below(g, s) /\ Lang(S)
  BY SiteIs
<1>3. Rests(g, L, Push(s, h)) = Cat(R, S) /\ Lang(R)
  BY <1>1, <1>2, RestsAre, RestFits, LangFit
<1>. HIDE DEF S, R
<1>4. Cat(Cat(A, R), S) = Cat(A, Cat(R, S))
  BY <1>2, <1>3, CatAssoc
<1>. QED  BY <1>3, <1>4 DEF On, S, R

LEMMA SitePush ==
  ASSUME NEW g, NEW L, NEW b, NEW w, NEW s, Site(g, L, b, w, s), NEW h, Waiting(g, h)
  PROVE  Site(g, L, b, w, Push(s, h))
<1>1. Byting(g, L, b, w) /\ Below(g, s)
  BY SiteIs
<1>2. Below(g, Push(s, h))
  BY <1>1, PushSound
<1>. QED  BY <1>1, <1>2 DEF Site

LEMMA DescendLeads ==
  ASSUME NEW g, NEW L, NEW b, NEW w, NEW s, Site(g, L, b, w, s), NEW f,
         NEW at, NEW i, NEW h, h = Frame(f.node, at, i, 0), Waiting(g, h),
         NEW child \in DOMAIN g, NEW A, Rest(g, L, h) = A
  PROVE  On(g, L, b, w, s, Descend(g, s, f, at, i, child, b), Cat(L[child], A))
<1>. DEFINE p == Push(s, h)
            T == Open(g, p, child, b)
<1>1. Site(g, L, b, w, p)
  BY SitePush
<1>2. Descend(g, s, f, at, i, child, b) = T
  BY DEF Descend, Push
<1>3. Setting(g, L)
  BY SiteIs
<1>4. Lang(L[child])
  BY <1>3, LanguageIs
<1>. HIDE DEF p
<1>5. On(g, L, b, w, p, T, L[child])
  BY <1>1, OpenLeads
<1>. HIDE DEF T
<1>6. On(g, L, b, w, s, T, Cat(L[child], Rest(g, L, h)))
  BY <1>4, <1>5, OnBelow DEF p
<1>. QED  BY <1>2, <1>6

(* No value starts like the end of an array, no key like that of an object. *)
LEMMA OpenNot ==
  ASSUME NEW g, NEW L, Setting(g, L), NEW id \in DOMAIN g, NEW p
  PROVE  /\ Open(g, p, id, "]") = {}
         /\ g[id].kind = "string" => Open(g, p, id, "}") = {}
<1>1. ASSUME NEW c \in Alternatives(g, id) PROVE OpenNode(p, Frame(c, 0, 0, 0), g[c], "]") = {}
  <2>. DEFINE f == Frame(c, 0, 0, 0)
              node == g[c]
              T == OpenNode(p, f, node, "]")
  <2>. SUFFICES T = {}
    OBVIOUS
  <2>1. c \in DOMAIN g /\ node.kind # "anyOf"
    BY AlternativesAre
  <2>2. Plan(g, node)
    BY <2>1, NodeIs
  <2>3. f.phase = 0 /\ f.k = 0
    BY <2>1, Started
  <2>. HIDE DEF f, node
  <2>4. CASE node.kind = "literal"
    <3>1. node.text[1] # "]"
      BY <2>2, <2>4 DEF Plan
    <3>2. f.k + 1 = 1
      BY <2>3
    <3>3. T = StepLiteral(p, f, node, "]")
      BY <2>4 DEF OpenNode
    <3>. HIDE DEF T
    <3>. QED  BY <3>1, <3>2, <3>3 DEF StepLiteral, T
  <2>5. CASE node.kind = "number"
    <3>1. NumberPhase(f.phase, "]", node.integer) = {}
      BY <2>3 DEF NumberPhase, Digit
    <3>2. T = StepNumber(p, f, node, "]")
      BY <2>5 DEF OpenNode
    <3>. HIDE DEF T
    <3>. QED  BY <3>1, <3>2 DEF StepNumber, T
  <2>6. CASE node.kind # "literal" /\ node.kind # "number"
    BY <2>2, <2>6 DEF OpenNode, Plan
  <2>. QED  BY <2>4, <2>5, <2>6
<1>2. ASSUME g[id].kind = "string", NEW c \in Alternatives(g, id)
      PROVE  OpenNode(p, Frame(c, 0, 0, 0), g[c], "}") = {}
  <2>1. c = id
    <3>1. Alternatives(g, id) = {id}
      BY <1>2, AlternativesAre
    <3>. QED  BY <1>2, <3>1
  <2>. QED  BY <1>2, <2>1 DEF OpenNode
<1>. QED  BY <1>1, <1>2 DEF Open

LEMMA ArrayLeads ==
  ASSUME NEW g, NEW L, NEW b, NEW w, NEW s, Site(g, L, b, w, s),
         NEW f, SoundFrame(g, f), g[f.node].kind = "array", f.phase = 1
  PROVE  On(g, L, b, w, s, StepArray(g, s, f, g[f.node], b), Rest(g, L, f))
<1>. DEFINE T == StepArray(g, s, f, g[f.node], b)
            node == g[f.node]
            item == L[node.item]
            i == f.i
            full == Full(node, i)
            few == i < node.min
            j == i + 1
            h == Frame(f.node, 2, j, 0)
            Out == Taken(b, {"]"}, s)
            Go == Descend(g, s, f, 2, j, node.item, b)
            I == Items(node, item, i)
            M == MoreItems(node, item, j)
            Br == Bracket(node, i)
<1>0. Setting(g, L) /\ Bounded /\ f.node \in DOMAIN g /\ i \in Nat /\ Place(node, f)
  BY SiteIs, InFrames
<1>b. "]" \in Byte
  BY BytesAre
<1>1. /\ Room(node, i) /\ Counts(node, item) /\ node.min \in Nat /\ node.max \in Int
      /\ node.item \in DOMAIN g
  <2>1. Counts(node, item)
    BY <1>0, PartsAre
  <2>2. Room(node, f.i)
    BY <1>0 DEF Place
  <2>3. node.item \in DOMAIN g
    <3>1. Plan(g, node)
      BY <1>0, NodeIs
    <3>. QED  BY <3>1 DEF Plan
  <2>. QED  BY <2>1, <2>2, <2>3 DEF Counts
<1>2. I = Br \cup (IF full THEN {} ELSE Cat(item, M))
  <2>. HIDE DEF node, item, i
  <2>. QED  BY <1>0, <1>1, ItemsAre
<1>3. Rest(g, L, f) = I
  BY DEF Rest, LeftOf
<1>4. j \in Nat /\ (~full => Room(node, j))
  <2>. HIDE DEF i, node
  <2>. QED  BY <1>0, <1>1 DEF Full, Room
<1>. HIDE DEF j
<1>5. ~full => Waiting(g, h) /\ Rest(g, L, h) = M
  <2>1. IsMoved(g, L, s, f, 2, j, 0, Frame(f.node, 2, j, 0))
    BY <1>4, Moved, Phases
  <2>2. /\ h.node = f.node /\ h.phase = 2 /\ h.i = j
        /\ Place(node, h) => SoundFrame(g, h)
        /\ Rest(g, L, h) = LeftOf(node, L, h)
    BY <2>1 DEF IsMoved
  <2>. HIDE DEF h
  <2>3. ~full => Place(node, h)
    BY <1>4, <2>2 DEF Place
  <2>4. LeftOf(node, L, h) = M
    BY <2>2 DEF LeftOf
  <2>5. ~full => Waiting(g, h)
    BY <2>2, <2>3 DEF Waiting
  <2>. QED  BY <2>2, <2>4, <2>5
<1>6. On(g, L, b, w, s, Out, One("]")) /\ Fits(One("]"))
  BY <1>b, OnEnd
<1>7. ~full => On(g, L, b, w, s, Go, Cat(item, M)) /\ Fits(Cat(item, M))
  <2>1. ASSUME ~full PROVE On(g, L, b, w, s, Go, Cat(item, M))
    <3>. HIDE DEF h, M
    <3>. QED  BY <1>1, <1>5, <2>1, DescendLeads DEF h
  <2>2. ASSUME ~full PROVE Fits(Cat(item, M))
    <3>1. Lang(item)
      BY <1>1, LangFit DEF Counts
    <3>2. Lang(M)
      <4>1. SoundFrame(g, h)
        BY <1>5, <2>2 DEF Waiting
      <4>. QED  BY <1>0, <1>5, <2>2, <4>1, RestFits, LangFit
    <3>. QED  BY <1>0, <3>1, <3>2, CatFits
  <2>. QED  BY <2>1, <2>2
<1>8. b = "]" => Go = {}
  BY <1>0, <1>1, OpenNot DEF Descend
<1>9. T = (IF few THEN {} ELSE Out) \cup (IF full THEN {} ELSE Go)
  <2>1. few <=> ~(i >= node.min)
    <3>. DEFINE y == node.min
    <3>1. y \in Nat
      BY <1>1
    <3>. HIDE DEF i, y
    <3>2. i < y <=> ~(i >= y)
      BY <1>0, <3>1
    <3>. QED  BY <3>2 DEF y
  <2>2. T = IF b = "]" /\ ~few THEN {s} ELSE IF full THEN {} ELSE Go
    BY <2>1 DEF StepArray, j
  <2>3. Out = IF b = "]" THEN {s} ELSE {}
    BY DEF Taken
  <2>. HIDE DEF T, few, Out, Go, full
  <2>. QED  BY <1>8, <2>2, <2>3
<1>. HIDE DEF full, few, Go, Out, I, M, node, item, T
<1>. DEFINE A1 == IF few THEN {} ELSE One("]")
            A2 == IF full THEN {} ELSE Cat(item, M)
            T1 == IF few THEN {} ELSE Out
            T2 == IF full THEN {} ELSE Go
<1>10. On(g, L, b, w, s, T1, A1) /\ Fits(A1)
  BY <1>6, OnUnless
<1>11. On(g, L, b, w, s, T2, A2) /\ Fits(A2)
  <2>1. CASE full
    BY <2>1, OnNone, FitsNone
  <2>2. CASE ~full
    BY <1>7, <2>2
  <2>. QED  BY <2>1, <2>2
<1>12. T = T1 \cup T2 /\ I = A1 \cup A2
  BY <1>2, <1>9 DEF Bracket, few, Br
<1>. HIDE DEF A1, A2, T1, T2
<1>13. On(g, L, b, w, s, T1 \cup T2, A1 \cup A2)
  BY <1>10, <1>11, OnOr
<1>. QED  BY <1>3, <1>12, <1>13 DEF T, node

LEMMA FreeLeads ==
  ASSUME NEW g, NEW L, NEW b, NEW w, NEW s, Site(g, L, b, w, s),
         NEW f, SoundFrame(g, f), g[f.node].kind = "free", f.phase \in {1, 3}
  PROVE  On(g, L, b, w, s, StepFree(g, s, f, g[f.node], b), Rest(g, L, f))
<1>. DEFINE T == StepFree(g, s, f, g[f.node], b)
            node == g[f.node]
            kid == node.values[1]
            vid == node.values[2]
            key == L[kid]
            value == L[vid]
            M == MoreMembers(key, value)
            V == Cat(value, M)
            K == Cat(One(":"), V)
            X == Members(key, value)
            i == f.i
            j == i + 1
            h == Frame(f.node, 2, j, 0)
            v == Frame(f.node, 4, i, 0)
            Go == Descend(g, s, f, 2, j, kid, b)
            Out == Taken(b, {"}"}, s)
<1>0. Setting(g, L) /\ Bounded /\ f.node \in DOMAIN g /\ i \in Nat /\ Place(node, f)
  BY SiteIs, InFrames
<1>b. "}" \in Byte
  BY BytesAre
<1>1. Pair2(key, value) /\ kid \in DOMAIN g /\ vid \in DOMAIN g /\ g[kid].kind = "string"
  <2>1. Pair2(key, value)
    BY <1>0, PartsAre
  <2>2. Plan(g, node)
    BY <1>0, NodeIs
  <2>. QED  BY <2>1, <2>2 DEF Plan
<1>2. Fits(X) /\ X = Cat(key, K)
  <2>. HIDE DEF key, value
  <2>. QED  BY <1>1, MembersAre DEF Members
<1>3. j \in Nat /\ j > 0
  <2>. HIDE DEF i
  <2>. QED  BY <1>0
<1>. HIDE DEF j
<1>4. CASE f.phase = 1
  <2>1. Waiting(g, h) /\ Rest(g, L, h) = K
    <3>1. IsMoved(g, L, s, f, 2, j, 0, Frame(f.node, 2, j, 0))
      BY <1>3, Moved, Phases
    <3>2. /\ h.node = f.node /\ h.phase = 2 /\ h.i = j
          /\ Place(node, h) => SoundFrame(g, h)
          /\ Rest(g, L, h) = LeftOf(node, L, h)
      BY <3>1 DEF IsMoved
    <3>. HIDE DEF h
    <3>3. Place(node, h)
      BY <1>3, <3>2 DEF Place
    <3>4. LeftOf(node, L, h) = K
      BY <3>2 DEF LeftOf
    <3>. QED  BY <3>2, <3>3, <3>4 DEF Waiting
  <2>. HIDE DEF K, kid, X
  <2>2. On(g, L, b, w, s, Go, Cat(L[kid], K))
    <3>. HIDE DEF h
    <3>. QED  BY <1>1, <2>1, DescendLeads DEF h
  <2>3. b = "}" => Go = {}
    BY <1>0, <1>1, OpenNot DEF Descend
  <2>4. On(g, L, b, w, s, Out, One("}")) /\ Fits(One("}"))
    BY <1>b, OnEnd
  <2>5. T = IF b = "}" /\ i = 0 THEN {s} ELSE Go
    BY <1>4 DEF StepFree, j, kid
  <2>6. Out = IF b = "}" THEN {s} ELSE {}
    BY DEF Taken
  <2>7. On(g, L, b, w, s, Go, X)
    BY <1>2, <2>2
  <2>. HIDE DEF Go, Out, T
  <2>8. CASE i = 0
    <3>1. Rest(g, L, f) = One("}") \cup X
      <4>1. f.i = 0
        BY <2>8
      <4>. QED  BY <1>4, <4>1 DEF Rest, LeftOf, Inside, X, kid
    <3>2. T = Out \cup Go
      BY <2>3, <2>5, <2>6, <2>8
    <3>3. On(g, L, b, w, s, Out \cup Go, One("}") \cup X)
      BY <1>2, <2>4, <2>7, OnOr
    <3>. QED  BY <3>1, <3>2, <3>3 DEF T
  <2>9. CASE i # 0
    <3>1. Rest(g, L, f) = X
      <4>1. f.i # 0
        BY <2>9
      <4>. QED  BY <1>4, <4>1 DEF Rest, LeftOf, X, kid
    <3>2. T = Go
      BY <2>5, <2>9
    <3>. QED  BY <2>7, <3>1, <3>2 DEF T
  <2>. QED  BY <2>8, <2>9
<1>5. CASE f.phase = 3
  <2>0. i > 0
    BY <1>0, <1>5 DEF Place
  <2>1. Waiting(g, v) /\ Rest(g, L, v) = M
    <3>. HIDE DEF i
    <3>1. IsMoved(g, L, s, f, 4, i, 0, Frame(f.node, 4, i, 0))
      BY <1>0, Moved, Phases
    <3>2. /\ v.node = f.node /\ v.phase = 4 /\ v.i = i
          /\ Place(node, v) => SoundFrame(g, v)
          /\ Rest(g, L, v) = LeftOf(node, L, v)
      BY <3>1 DEF IsMoved
    <3>. HIDE DEF v
    <3>3. Place(node, v)
      BY <2>0, <3>2 DEF Place
    <3>4. LeftOf(node, L, v) = M
      BY <3>2 DEF LeftOf
    <3>. QED  BY <3>2, <3>3, <3>4 DEF Waiting
  <2>2. T = Descend(g, s, f, 4, i, vid, b)
    BY <1>5 DEF StepFree
  <2>3. Rest(g, L, f) = V
    BY <1>5 DEF Rest, LeftOf
  <2>. HIDE DEF v, M, vid
  <2>4. On(g, L, b, w, s, Descend(g, s, f, 4, i, vid, b), Cat(L[vid], M))
    BY <1>1, <2>1, DescendLeads DEF v
  <2>. HIDE DEF T
  <2>. QED  BY <2>2, <2>3, <2>4 DEF T
<1>. QED  BY <1>4, <1>5

-----------------------------------------------------------------------------
(* Objects with properties: the keys that may come next.                   *)

NextKeys(s, f, node, i, b) ==
  CloseObject(s, node, i, b)
    \cup UNION {With(s, f, 2, j, 1) : j \in {m \in Candidates(node, i) : node.keys[m][1] = b}}

LEMMA CandidatesAre ==
  ASSUME NEW node, Len(node.keys) \in Nat, NEW i \in 1..Len(node.keys), node.required[i] \in BOOLEAN
  PROVE  /\ Candidates(node, Len(node.keys) + 1) = {} /\ AllOptional(node, Len(node.keys) + 1)
         /\ Candidates(node, i) = {i} \cup (IF node.required[i] THEN {} ELSE Candidates(node, i + 1))
         /\ AllOptional(node, i) <=> ~node.required[i] /\ AllOptional(node, i + 1)
<1>. DEFINE n == Len(node.keys)
            r == node.required
<1>1. n \in Nat /\ i \in Nat /\ i <= n /\ 1 <= i
  OBVIOUS
<1>2. \A k : Candidates(node, k) = {m \in k..n : \A j \in k..(m - 1) : ~r[j]}
  BY DEF Candidates
<1>3. \A k : AllOptional(node, k) <=> \A m \in k..n : ~r[m]
  BY DEF AllOptional
<1>. HIDE DEF n, r
<1>4. Candidates(node, n + 1) = {} /\ AllOptional(node, n + 1)
  BY <1>1, <1>2, <1>3
<1>5. AllOptional(node, i) <=> ~r[i] /\ AllOptional(node, i + 1)
  BY <1>1, <1>3
<1>6. ASSUME NEW m PROVE m \in Candidates(node, i) <=> m = i \/ (~r[i] /\ m \in Candidates(node, i + 1))
  <2>0. i + 1 \in Nat /\ i \in i..n /\ \A j \in i..(i - 1) : ~r[j]
    BY <1>1
  <2>1. CASE m = i
    <3>1. m \in Candidates(node, i)
      BY <1>2, <2>0, <2>1
    <3>. QED  BY <2>1, <3>1
  <2>2. CASE m # i
    <3>1. m \in i..n <=> m \in (i + 1)..n
      BY <1>1, <2>2
    <3>2. m \in i..n => ((\A j \in i..(m - 1) : ~r[j]) <=> ~r[i] /\ \A j \in (i + 1)..(m - 1) : ~r[j])
      BY <1>1, <2>2
    <3>. QED  BY <1>2, <2>2, <3>1, <3>2
  <2>. QED  BY <2>1, <2>2
<1>7. Candidates(node, i) = {i} \cup (IF r[i] THEN {} ELSE Candidates(node, i + 1))
  BY <1>6
<1>. QED  BY <1>4, <1>5, <1>7 DEF n, r

NextKeyed(s, f, node, i, b) ==
  /\ NextKeys(s, f, node, Len(node.keys) + 1, b) = Taken(b, {"}"}, s)
  /\ NextKeys(s, f, node, i, b)
       = (IF b = node.keys[i][1] THEN With(s, f, 2, i, 1) ELSE {})
           \cup (IF node.required[i] THEN {} ELSE NextKeys(s, f, node, i + 1, b))

LEMMA NextKeysAre ==
  ASSUME NEW s, NEW f, NEW node, NEW b, Len(node.keys) \in Nat, NEW i \in 1..Len(node.keys),
         node.required[i] \in BOOLEAN
  PROVE  NextKeyed(s, f, node, i, b)
<1>. DEFINE n == Len(node.keys)
            r == node.required[i]
            Fit1(m) == node.keys[m][1] = b
            W(j) == With(s, f, 2, j, 1)
            Keys(k) == UNION {W(j) : j \in {m \in Candidates(node, k) : Fit1(m)}}
            Close(k) == CloseObject(s, node, k, b)
<1>1. /\ Candidates(node, n + 1) = {} /\ AllOptional(node, n + 1)
      /\ Candidates(node, i) = {i} \cup (IF r THEN {} ELSE Candidates(node, i + 1))
      /\ AllOptional(node, i) <=> ~r /\ AllOptional(node, i + 1)
  BY CandidatesAre
<1>2. \A k : Close(k) = IF b = "}" /\ AllOptional(node, k) THEN {s} ELSE {}
  BY DEF CloseObject
<1>3. \A k : NextKeys(s, f, node, k, b) = Close(k) \cup Keys(k)
  BY DEF NextKeys
<1>. HIDE DEF n, r, Fit1, W, Close
<1>4. Keys(n + 1) = {}
  BY <1>1
<1>5. Keys(i) = (IF Fit1(i) THEN W(i) ELSE {}) \cup (IF r THEN {} ELSE Keys(i + 1))
  <2>1. \A k, t : t \in Keys(k) <=> \E j \in Candidates(node, k) : Fit1(j) /\ t \in W(j)
    OBVIOUS
  <2>2. \A j : j \in Candidates(node, i) <=> j = i \/ (~r /\ j \in Candidates(node, i + 1))
    BY <1>1
  <2>. HIDE DEF Keys
  <2>3. \A t : t \in Keys(i) <=> (Fit1(i) /\ t \in W(i)) \/ (~r /\ t \in Keys(i + 1))
    BY <2>1, <2>2
  <2>. QED  BY <2>3
<1>. HIDE DEF Keys
<1>6. Close(i) = IF r THEN {} ELSE Close(i + 1)
  BY <1>1, <1>2
<1>7. NextKeys(s, f, node, n + 1, b) = Taken(b, {"}"}, s)
  BY <1>1, <1>2, <1>3, <1>4 DEF Taken
<1>8. NextKeys(s, f, node, i, b)
        = (IF Fit1(i) THEN W(i) ELSE {}) \cup (IF r THEN {} ELSE NextKeys(s, f, node, i + 1, b))
  BY <1>3, <1>5, <1>6
<1>. QED  BY <1>7, <1>8 DEF n, r, Fit1, W, NextKeyed

LEMMA NextKeysLeads ==
  ASSUME NEW g, NEW L, NEW b, NEW w, NEW s, Site(g, L, b, w, s),
         NEW f, SoundFrame(g, f), g[f.node].kind = "object", NEW i \in 1..Len(g[f.node].keys)
  PROVE  On(g, L, b, w, s, NextKeys(s, f, g[f.node], i, b),
            Properties(g[f.node], L, Len(g[f.node].keys) + 1 - i))
<1>. DEFINE node == g[f.node]
            n == Len(node.keys)
            At(k) == NextKeys(s, f, node, k, b)
            P(m) == Properties(node, L, m)
            Good == {m \in 0..n : On(g, L, b, w, s, At(n + 1 - m), P(m))}
<1>0. Setting(g, L) /\ Bounded /\ f.node \in DOMAIN g
  BY SiteIs, InFrames
<1>b. "}" \in Byte
  BY BytesAre
<1>1. Keyed(node, L) /\ n \in Nat /\ \A k \in 1..n : node.required[k] \in BOOLEAN
  <2>1. Keyed(node, L)
    BY <1>0, PartsAre
  <2>2. Plan(g, node)
    BY <1>0, NodeIs
  <2>. QED  BY <2>1, <2>2 DEF Plan, Keyed
<1>2. At(n + 1) = Taken(b, {"}"}, s)
  <2>1. n \in Nat /\ i \in 1..n /\ node.required[i] \in BOOLEAN
    BY <1>1
  <2>2. NextKeyed(s, f, node, i, b)
    <3>. HIDE DEF node
    <3>. QED  BY <2>1, NextKeysAre
  <2>. QED  BY <2>2 DEF NextKeyed
<1>3. 0 \in Good
  <2>1. P(0) = One("}")
    <3>1. 0 \in Nat /\ 0 < n
      BY <1>1 DEF Keyed
    <3>. HIDE DEF node
    <3>. QED  BY <1>1, <3>1, PropertiesIs
  <2>2. On(g, L, b, w, s, Taken(b, {"}"}, s), One("}"))
    BY <1>b, OnEnd
  <2>3. n + 1 - 0 = n + 1 /\ 0 \in 0..n
    <3>. HIDE DEF n
    <3>. QED  BY <1>1
  <2>. HIDE DEF At, P, n
  <2>. QED  BY <1>2, <2>1, <2>2, <2>3
<1>4. ASSUME NEW k \in 1..n, On(g, L, b, w, s, At(k + 1), P(n + 1 - (k + 1)))
      PROVE  On(g, L, b, w, s, At(k), P(n + 1 - k))
  <2>. DEFINE r == node.required[k]
              key == node.keys[k]
              c == key[1]
              h == Frame(f.node, 2, k, 1)
              J == InKey(node, L, k, 1)
              J0 == InKey(node, L, k, 0)
              Go == Taken(b, {c}, Push(s, h))
              Q == P(n + 1 - (k + 1))
              A2 == IF r THEN {} ELSE Q
              T2 == IF r THEN {} ELSE At(k + 1)
  <2>1. k \in Nat /\ key \in Text /\ Size(key) >= 2 /\ Size(key) \in Nat /\ 0 < Size(key) /\ 1 < Size(key)
    <3>1. key \in Text /\ Size(key) >= 2
      BY <1>1 DEF Keyed
    <3>2. Size(key) \in Nat
      BY <3>1, SizeIs
    <3>. DEFINE z == Size(key)
    <3>3. z \in Nat /\ z >= 2
      BY <3>1, <3>2
    <3>. HIDE DEF z, n
    <3>4. 0 < z /\ 1 < z /\ k \in Nat
      BY <1>1, <3>3
    <3>. QED  BY <3>1, <3>2, <3>4 DEF z
  <2>2. c \in Byte /\ J0 = Cat(One(c), J) /\ Fits(J)
    <3>. HIDE DEF node
    <3>1. 0 \in Nat /\ 0 < Size(node.keys[k])
      BY <2>1
    <3>2. /\ node.keys[k][0 + 1] \in Byte
          /\ J0 = Cat(One(node.keys[k][0 + 1]), InKey(node, L, k, 0 + 1))
          /\ Fits(InKey(node, L, k, 0 + 1))
      BY <1>1, <3>1, InKeyIs
    <3>3. 0 + 1 = 1
      OBVIOUS
    <3>. QED  BY <3>2, <3>3
  <2>3. P(n + 1 - k) = J0 \cup A2
    <3>. HIDE DEF node
    <3>. QED  BY <1>1, NextProperty
  <2>4. At(k) = (IF b = c THEN With(s, f, 2, k, 1) ELSE {}) \cup T2
    <3>1. n \in Nat /\ k \in 1..n /\ node.required[k] \in BOOLEAN
      BY <1>1
    <3>2. NextKeyed(s, f, node, k, b)
      <4>. HIDE DEF node
      <4>. QED  BY <3>1, NextKeysAre
    <3>. QED  BY <3>2 DEF NextKeyed
  <2>5. SoundFrame(g, h) /\ Rest(g, L, h) = J /\ With(s, f, 2, k, 1) = {Push(s, h)}
    <3>1. IsMoved(g, L, s, f, 2, k, 1, Frame(f.node, 2, k, 1))
      BY <2>1, Moved, Phases
    <3>2. /\ h.node = f.node /\ h.phase = 2 /\ h.i = k /\ h.k = 1
          /\ Place(node, h) => SoundFrame(g, h)
          /\ Rest(g, L, h) = LeftOf(node, L, h) /\ With(s, f, 2, k, 1) = {Push(s, h)}
      BY <3>1 DEF IsMoved
    <3>. HIDE DEF h
    <3>3. h.i \in 1..Len(node.keys) /\ h.k < Size(node.keys[h.i])
      BY <2>1, <3>2
    <3>4. Place(node, h)
      BY <3>2, <3>3 DEF Place
    <3>5. LeftOf(node, L, h) = J
      BY <3>2 DEF LeftOf
    <3>. QED  BY <3>2, <3>4, <3>5
  <2>6. Go = IF b = c THEN With(s, f, 2, k, 1) ELSE {}
    BY <2>5 DEF Taken
  <2>7. On(g, L, b, w, s, Go, Cat(One(c), J)) /\ Fits(Cat(One(c), J))
    <3>. HIDE DEF c, h, J
    <3>. QED  BY <2>2, <2>5, OnFrame
  <2>8. Fits(Q)
    <3>1. n + 1 - (k + 1) \in 0..n
      <4>. HIDE DEF n
      <4>. QED  BY <1>1, <2>1
    <3>. DEFINE m == n + 1 - (k + 1)
    <3>2. m \in 0..Len(node.keys)
      BY <3>1
    <3>. HIDE DEF m, node
    <3>3. Fits(Properties(node, L, m))
      BY <1>1, <3>2, PropertiesFit
    <3>. QED  BY <3>3 DEF m
  <2>. HIDE DEF At, Q
  <2>9. On(g, L, b, w, s, T2, A2) /\ Fits(A2)
    <3>1. On(g, L, b, w, s, At(k + 1), Q)
      BY <1>4 DEF Q
    <3>. QED  BY <2>8, <3>1, OnUnless
  <2>. HIDE DEF T2, A2, Go, J, J0, c
  <2>10. On(g, L, b, w, s, Go \cup T2, Cat(One(c), J) \cup A2)
    BY <2>7, <2>9, OnOr
  <2>. HIDE DEF P
  <2>. QED  BY <2>2, <2>3, <2>4, <2>6, <2>10
<1>5. ASSUME NEW m \in 1..n, m - 1 \in Good PROVE m \in Good
  <2>. DEFINE k == n + 1 - m
  <2>1. k \in 1..n /\ n + 1 - (m - 1) = k + 1 /\ m - 1 = n + 1 - (k + 1) /\ m = n + 1 - k /\ m \in 0..n
    <3>. HIDE DEF n
    <3>. QED  BY <1>1
  <2>. HIDE DEF k, n
  <2>2. On(g, L, b, w, s, At(k + 1), P(n + 1 - (k + 1)))
    <3>1. On(g, L, b, w, s, At(n + 1 - (m - 1)), P(m - 1))
      BY <1>5
    <3>. HIDE DEF At, P
    <3>. QED  BY <2>1, <3>1
  <2>3. On(g, L, b, w, s, At(k), P(n + 1 - k))
    BY <1>4, <2>1, <2>2
  <2>. HIDE DEF At, P
  <2>. QED  BY <2>1, <2>3 DEF k
<1>6. \A m \in 0..n : m \in Good
  <2>. HIDE DEF Good, n
  <2>. QED  BY <1>1, <1>3, <1>5, Counted
<1>. DEFINE m == n + 1 - i
<1>7. m \in 0..n /\ n + 1 - m = i
  <2>1. i \in 1..n
    OBVIOUS
  <2>. HIDE DEF n
  <2>. QED  BY <1>1, <2>1
<1>. HIDE DEF n, m
<1>8. On(g, L, b, w, s, At(n + 1 - m), P(m))
  BY <1>6, <1>7
<1>9. On(g, L, b, w, s, At(i), P(m))
  <2>. HIDE DEF At, P
  <2>. QED  BY <1>7, <1>8
<1>. QED  BY <1>9 DEF m, n

(* All of a node is left where it starts.                                  *)
LEMMA RestStart ==
  ASSUME NEW g, NEW L, Setting(g, L), NEW id \in DOMAIN g
  PROVE  /\ SoundFrame(g, Frame(id, 0, 0, 0)) /\ Rest(g, L, Frame(id, 0, 0, 0)) = L[id]
<1>. DEFINE h == Frame(id, 0, 0, 0)
            node == g[id]
            t == node.text
<1>1. h.node = id /\ h.phase = 0 /\ h.k = 0
  BY Started
<1>2. Plan(g, node)
  BY NodeIs
<1>3. node.kind = "literal" => t \in Text /\ 0 < Size(t)
  <2>1. ASSUME node.kind = "literal" PROVE t \in Text /\ Size(t) > 0
    BY <1>2, <2>1 DEF Plan
  <2>2. ASSUME node.kind = "literal" PROVE Size(t) \in Nat
    BY <2>1, <2>2, SizeIs
  <2>. QED  BY <2>1, <2>2
<1>4. SoundFrame(g, h)
  BY <1>3, Started
<1>5. CASE node.kind # "literal"
  <2>. HIDE DEF h
  <2>. QED  BY <1>1, <1>4, <1>5 DEF Rest, LeftOf, h
<1>6. CASE node.kind = "literal"
  <2>1. Rest(g, L, h) = Word(t, 0)
    <3>. HIDE DEF h
    <3>. QED  BY <1>1, <1>6 DEF Rest, LeftOf
  <2>2. Alternatives(g, id) = {id}
    BY <1>6, AlternativesAre
  <2>3. SpelledBy(node, L) = {t}
    <3>1. node.kind # "anyOf"
      BY <1>6
    <3>2. Form(g, L, node)
      BY <3>1, FormIs
    <3>. QED  BY <1>6, <3>2 DEF Form
  <2>4. Word(t, 0) = UpTo({t}, MaxText)
    <3>1. t \in Text
      BY <1>3, <1>6
    <3>. HIDE DEF t
    <3>. QED  BY <3>1, WordWhole
  <2>5. \A x : x \in UpTo({t}, MaxText) <=> x \in {t} /\ Size(x) <= MaxText
    <3>. HIDE DEF t
    <3>. QED  BY UpToIs
  <2>6. \A x : x \in L[id] <=> Size(x) <= MaxText /\ \E c \in Alternatives(g, id) : x \in SpelledBy(g[c], L)
    BY LanguageIs
  <2>7. \A x : x \in L[id] <=> x \in Word(t, 0)
    <3>. HIDE DEF t
    <3>. QED  BY <2>2, <2>3, <2>4, <2>5, <2>6
  <2>8. \A x : x \in L[id] => x \in Text
    BY LanguageIs DEF Lang
  <2>9. L[id] = Word(t, 0)
    <3>. HIDE DEF t
    <3>. QED  BY <2>7
  <2>. QED  BY <1>4, <2>1, <2>9
<1>. QED  BY <1>4, <1>5, <1>6

LEMMA ObjectLeads ==
  ASSUME NEW g, NEW L, NEW b, NEW w, NEW s, Site(g, L, b, w, s),
         NEW f, SoundFrame(g, f), g[f.node].kind = "object", f.phase \in {1, 2}
  PROVE  On(g, L, b, w, s, StepObject(s, f, g[f.node], b), Rest(g, L, f))
<1>. DEFINE T == StepObject(s, f, g[f.node], b)
            node == g[f.node]
            i == f.i
            k == f.k
            n == Len(node.keys)
<1>0. Setting(g, L) /\ Bounded /\ f.node \in DOMAIN g /\ i \in Nat /\ k \in Nat /\ Place(node, f)
  BY SiteIs, InFrames
<1>1. Keyed(node, L) /\ i \in 1..n /\ node.values[i] \in DOMAIN g
  <2>1. Keyed(node, L)
    BY <1>0, PartsAre
  <2>2. f.i \in 1..Len(node.keys)
    BY <1>0 DEF Place
  <2>3. Plan(g, node)
    BY <1>0, NodeIs
  <2>. QED  BY <2>1, <2>2, <2>3 DEF Plan
<1>2. CASE f.phase = 1
  <2>1. T = NextKeys(s, f, node, i, b)
    BY <1>2 DEF StepObject, NextKeys
  <2>2. Rest(g, L, f) = Properties(node, L, n + 1 - i)
    BY <1>2 DEF Rest, LeftOf
  <2>3. On(g, L, b, w, s, NextKeys(s, f, node, i, b), Properties(node, L, n + 1 - i))
    <3>. HIDE DEF i
    <3>. QED  BY <1>1, NextKeysLeads
  <2>. HIDE DEF T
  <2>. QED  BY <2>1, <2>2, <2>3 DEF T
<1>3. CASE f.phase = 2
  <2>. DEFINE key == node.keys[i]
              j == k + 1
              c == key[j]
              J == InKey(node, L, i, j)
              vid == node.values[i]
              h == Frame(f.node, 2, i, j)
              wait == Frame(f.node, 3, i, 0)
              v == Frame(vid, 0, 0, 0)
              S == Rests(g, L, s)
  <2>1. k < Size(key) /\ key \in Text /\ Size(key) \in Nat
    <3>1. f.k < Size(node.keys[f.i])
      BY <1>0, <1>3 DEF Place
    <3>2. key \in Text
      BY <1>1 DEF Keyed
    <3>. QED  BY <3>1, <3>2, SizeIs
  <2>2. Rest(g, L, f) = InKey(node, L, i, k)
    BY <1>3 DEF Rest, LeftOf
  <2>3. /\ c \in Byte /\ InKey(node, L, i, k) = Cat(One(c), J) /\ Fits(J)
        /\ InKey(node, L, i, Size(key)) = Cat(L[vid], Behind(node, L, i))
    <3>1. k < Size(node.keys[i])
      BY <2>1
    <3>. HIDE DEF node, k, i
    <3>. QED  BY <1>0, <1>1, <3>1, InKeyIs
  <2>4. j \in Nat /\ (j < Size(key) \/ j = Size(key)) /\ ~(j < Size(key) /\ j = Size(key))
    <3>. DEFINE z == Size(key)
    <3>1. z \in Nat /\ k < z
      BY <2>1
    <3>. HIDE DEF z, k
    <3>2. j \in Nat /\ (j < z \/ j = z) /\ ~(j < z /\ j = z)
      BY <1>0, <3>1
    <3>. QED  BY <3>2 DEF z
  <2>5. T = IF key[j] # b THEN {}
            ELSE IF j < Size(key) THEN With(s, f, 2, i, j)
            ELSE {Push(Push(s, wait), v)}
    BY <1>3 DEF StepObject, Size, Push
  <2>. HIDE DEF j
  <2>6. CASE j < Size(key)
    <3>1. SoundFrame(g, h) /\ Rest(g, L, h) = J /\ With(s, f, 2, i, j) = {Push(s, h)}
      <4>1. IsMoved(g, L, s, f, 2, i, j, Frame(f.node, 2, i, j))
        <5>. HIDE DEF i
        <5>. QED  BY <1>0, <2>4, Moved, Phases
      <4>2. /\ h.node = f.node /\ h.phase = 2 /\ h.i = i /\ h.k = j
            /\ Place(node, h) => SoundFrame(g, h)
            /\ Rest(g, L, h) = LeftOf(node, L, h) /\ With(s, f, 2, i, j) = {Push(s, h)}
        BY <4>1 DEF IsMoved
      <4>. HIDE DEF h
      <4>3. h.i \in 1..Len(node.keys) /\ h.k < Size(node.keys[h.i])
        BY <1>1, <2>6, <4>2
      <4>4. Place(node, h)
        BY <4>2, <4>3 DEF Place
      <4>5. LeftOf(node, L, h) = J
        BY <4>2 DEF LeftOf
      <4>. QED  BY <4>2, <4>4, <4>5
    <3>. DEFINE Go == Taken(b, {c}, Push(s, h))
    <3>2. T = Go
      <4>1. T = IF c # b THEN {} ELSE {Push(s, h)}
        BY <2>5, <2>6, <3>1
      <4>. HIDE DEF T, c, h
      <4>. QED  BY <4>1 DEF Taken
    <3>. HIDE DEF c, h, J
    <3>3. On(g, L, b, w, s, Go, Cat(One(c), J))
      BY <2>3, <3>1, OnFrame
    <3>. HIDE DEF T, Go
    <3>. QED  BY <2>2, <2>3, <3>2, <3>3 DEF T
  <2>7. CASE j = Size(key)
    <3>1. Waiting(g, wait) /\ Rest(g, L, wait) = Behind(node, L, i)
      <4>1. IsMoved(g, L, s, f, 3, i, 0, Frame(f.node, 3, i, 0))
        <5>. HIDE DEF i
        <5>. QED  BY <1>0, Moved, Phases
      <4>2. /\ wait.node = f.node /\ wait.phase = 3 /\ wait.i = i
            /\ Place(node, wait) => SoundFrame(g, wait)
            /\ Rest(g, L, wait) = LeftOf(node, L, wait)
        BY <4>1 DEF IsMoved
      <4>. HIDE DEF wait
      <4>3. wait.i \in 1..Len(node.keys)
        BY <1>1, <4>2
      <4>4. Place(node, wait)
        BY <4>2, <4>3 DEF Place
      <4>5. LeftOf(node, L, wait) = Behind(node, L, i)
        BY <4>2 DEF LeftOf
      <4>. QED  BY <4>2, <4>4, <4>5 DEF Waiting
    <3>2. SoundFrame(g, v) /\ Rest(g, L, v) = L[vid]
      <4>1. vid \in DOMAIN g
        BY <1>1
      <4>. HIDE DEF vid
      <4>. QED  BY <1>0, <4>1, RestStart
    <3>. DEFINE p == Push(s, wait)
                Go == Taken(b, {c}, Push(p, v))
                A == L[vid]
    <3>3. Site(g, L, b, w, p)
      BY <3>1, SitePush
    <3>4. T = Go
      <4>1. T = IF c # b THEN {} ELSE {Push(p, v)}
        BY <2>4, <2>5, <2>7
      <4>. HIDE DEF T, c, p, v
      <4>. QED  BY <4>1 DEF Taken
    <3>5. Lang(A)
      BY <1>0, <1>1, LanguageIs
    <3>. HIDE DEF c, v, A
    <3>6. On(g, L, b, w, p, Go, Cat(One(c), A))
      <4>1. Rest(g, L, v) = A /\ c \in Byte /\ SoundFrame(g, v)
        BY <2>3, <3>2 DEF A
      <4>. HIDE DEF p
      <4>. QED  BY <3>3, <4>1, OnFrame
    <3>. HIDE DEF Go, wait
    <3>7. Lang(Cat(One(c), A)) /\ Lang(One(c))
      BY <1>0, <2>3, <3>5, OneLed, OneIs
    <3>. DEFINE B == Cat(One(c), A)
                R == Rest(g, L, wait)
    <3>8. Lang(B) /\ On(g, L, b, w, p, Go, B)
      BY <3>6, <3>7
    <3>. HIDE DEF B
    <3>9. On(g, L, b, w, s, Go, Cat(B, R))
      BY <3>1, <3>8, OnBelow
    <3>10. Lang(R)
      BY <1>0, <3>1, RestFits, LangFit DEF Waiting
    <3>. HIDE DEF R
    <3>11. Cat(B, R) = Cat(One(c), Cat(A, R))
      BY <1>0, <3>5, <3>7, <3>10, CatAssoc DEF B
    <3>12. J = Cat(A, R)
      BY <2>3, <2>7, <3>1 DEF A, R
    <3>. HIDE DEF T
    <3>. QED  BY <2>2, <2>3, <3>4, <3>9, <3>11, <3>12 DEF T
  <2>. QED  BY <2>4, <2>6, <2>7
<1>. QED  BY <1>2, <1>3

-----------------------------------------------------------------------------
(* One byte: what the stacks behind it can spell is what could follow it.  *)
LEMMA StepLeads ==
  ASSUME NEW g, NEW L, NEW b, NEW w, Byting(g, L, b, w), NEW t, Sound(g, t)
  PROVE  Leads(g, L, Step(g, t, b), b, w, Rests(g, L, t))
<1>0. Setting(g, L) /\ Bounded /\ b \in Byte /\ w \in Text
  BY DEF Byting, Setting
<1>1. CASE t = Empty
  <2>1. Rests(g, L, t) = Nothing /\ Step(g, t, b) = {}
    BY <1>0, <1>1, RestsEmpty DEF Step, Empty
  <2>2. Lead(b, w) \notin Nothing
    BY <1>0, LeadIs, LangNothing
  <2>. QED  BY <2>1, <2>2 DEF Leads, Spells
<1>2. CASE t # Empty
  <2>. DEFINE s == Front(t)
              f == Last(t)
              node == g[f.node]
              T == Step(g, t, b)
  <2>1. Below(g, s) /\ SoundFrame(g, f) /\ t = Push(s, f)
    BY <1>2, PopSound
  <2>2. Site(g, L, b, w, s)
    BY <2>1 DEF Site
  <2>3. f.node \in DOMAIN g /\ Place(node, f) /\ f.phase \in 0..8
    BY <2>1, InFrames
  <2>. SUFFICES On(g, L, b, w, s, T, Rest(g, L, f))
    <3>. HIDE DEF s, f
    <3>1. Rests(g, L, Push(s, f)) = Cat(Rest(g, L, f), Rests(g, L, s))
      BY <1>0, <2>1, RestsAre
    <3>. QED  BY <2>1, <3>1 DEF On
  <2>n. t # <<>>
    BY <1>2 DEF Empty
  <2>4. CASE node.kind = "literal"
    <3>1. T = StepLiteral(s, f, node, b)
      BY <2>n, <2>4 DEF Step
    <3>2. Leads(g, L, StepLiteral(s, f, node, b), b, w, Cat(Rest(g, L, f), Rests(g, L, s)))
      <4>. HIDE DEF s, f
      <4>. QED  BY <2>1, <2>4, LiteralLeads
    <3>. QED  BY <3>1, <3>2 DEF On
  <2>5. CASE node.kind # "literal" /\ f.phase = 0
    <3>1. T = Open(g, s, f.node, b)
      BY <2>n, <2>5 DEF Step
    <3>2. Rest(g, L, f) = L[f.node]
      BY <2>5 DEF Rest, LeftOf
    <3>3. On(g, L, b, w, s, Open(g, s, f.node, b), L[f.node])
      <4>. DEFINE id == f.node
      <4>1. id \in DOMAIN g
        BY <2>3
      <4>. HIDE DEF s, f, id
      <4>2. On(g, L, b, w, s, Open(g, s, id, b), L[id])
        BY <2>2, <4>1, OpenLeads
      <4>. QED  BY <4>2 DEF id
    <3>. QED  BY <3>1, <3>2, <3>3
  <2>6. CASE node.kind = "string" /\ f.phase # 0
    <3>1. T = StepString(s, f, b)
      BY <2>n, <2>6 DEF Step
    <3>2. Leads(g, L, StepString(s, f, b), b, w, Cat(Rest(g, L, f), Rests(g, L, s)))
      <4>. HIDE DEF s, f
      <4>. QED  BY <2>1, <2>6, StringLeads
    <3>. QED  BY <3>1, <3>2 DEF On
  <2>7. CASE node.kind = "number" /\ f.phase # 0
    <3>. DEFINE U == StepNumber(s, f, node, b) \cup IF NumberCanStop(f.phase) THEN Follow(g, s, b) ELSE {}
    <3>1. T = U
      BY <2>n, <2>7 DEF Step
    <3>2. Rest(g, L, f) = NumberRest(node.integer, f.phase)
      BY <2>7 DEF Rest, LeftOf
    <3>3. node.integer => f.phase <= 3
      <4>. HIDE DEF s, f, node
      <4>. QED  BY <2>3, <2>7 DEF Place
    <3>4. On(g, L, b, w, s, U, NumberRest(node.integer, f.phase))
      <4>. HIDE DEF s, f
      <4>. QED  BY <2>1, <2>2, <2>7, <3>3, NumberLeads
    <3>. HIDE DEF U, T
    <3>. QED  BY <3>1, <3>2, <3>4
  <2>8. CASE node.kind = "array" /\ f.phase = 1
    <3>1. T = StepArray(g, s, f, node, b)
      BY <2>n, <2>8 DEF Step
    <3>2. On(g, L, b, w, s, StepArray(g, s, f, node, b), Rest(g, L, f))
      <4>. HIDE DEF s, f
      <4>. QED  BY <2>1, <2>2, <2>8, ArrayLeads
    <3>. QED  BY <3>1, <3>2
  <2>9. CASE node.kind = "free" /\ f.phase \in {1, 3}
    <3>1. T = StepFree(g, s, f, node, b)
      BY <2>n, <2>9 DEF Step
    <3>2. On(g, L, b, w, s, StepFree(g, s, f, node, b), Rest(g, L, f))
      <4>. HIDE DEF s, f
      <4>. QED  BY <2>1, <2>2, <2>9, FreeLeads
    <3>. QED  BY <3>1, <3>2
  <2>10. CASE node.kind = "object" /\ f.phase \in {1, 2}
    <3>1. T = StepObject(s, f, node, b)
      BY <2>n, <2>10 DEF Step
    <3>2. On(g, L, b, w, s, StepObject(s, f, node, b), Rest(g, L, f))
      <4>. HIDE DEF s, f
      <4>. QED  BY <2>1, <2>2, <2>10, ObjectLeads
    <3>. QED  BY <3>1, <3>2
  <2>11. ASSUME \/ node.kind = "array" /\ f.phase = 2
                \/ node.kind = "free" /\ f.phase \in {2, 4}
                \/ node.kind = "object" /\ f.phase = 3
         PROVE  On(g, L, b, w, s, T, Rest(g, L, f))
    <3>1. T = Follow(g, t, b)
      BY <2>n, <2>11 DEF Step
    <3>2. Waiting(g, f)
      BY <2>1, <2>11 DEF Waiting
    <3>3. s = Front(t) /\ f = Last(t)
      OBVIOUS
    <3>4. On(g, L, b, w, s, Follow(g, t, b), Rest(g, L, f))
      <4>. HIDE DEF s, f
      <4>. QED  BY <1>2, <2>2, <3>2, <3>3, FollowLast
    <3>. QED  BY <3>1, <3>4
  <2>12. \/ node.kind = "literal"
         \/ node.kind # "literal" /\ f.phase = 0
         \/ node.kind = "string" /\ f.phase # 0
         \/ node.kind = "number" /\ f.phase # 0
         \/ node.kind = "array" /\ f.phase = 1
         \/ node.kind = "free" /\ f.phase \in {1, 3}
         \/ node.kind = "object" /\ f.phase \in {1, 2}
         \/ node.kind = "array" /\ f.phase = 2
         \/ node.kind = "free" /\ f.phase \in {2, 4}
         \/ node.kind = "object" /\ f.phase = 3
    <3>. HIDE DEF s, f, node, T
    <3>. QED  BY <2>3 DEF Place
  <2>. HIDE DEF s, f, node, T
  <2>. QED  BY <2>4, <2>5, <2>6, <2>7, <2>8, <2>9, <2>10, <2>11, <2>12
<1>. QED  BY <1>1, <1>2

-----------------------------------------------------------------------------
(* All stacks at once, and all the bytes of a text.                        *)

AllSound(g, T) == \A t \in T : Sound(g, t)

LEMMA AdvanceLeads ==
  ASSUME NEW g, NEW L, NEW b, NEW w, Byting(g, L, b, w), NEW T, AllSound(g, T)
  PROVE  /\ AllSound(g, Advance(g, T, b))
         /\ Spells(g, L, Advance(g, T, b), w) <=> Spells(g, L, T, Lead(b, w))
<1>. DEFINE U == Advance(g, T, b)
            v == Lead(b, w)
<1>1. \A u : u \in U <=> \E t \in T : u \in Step(g, t, b)
  BY DEF Advance
<1>. HIDE DEF U, v
<1>2. ASSUME NEW t \in T
      PROVE  /\ \A u \in Step(g, t, b) : Sound(g, u)
             /\ (\E u \in Step(g, t, b) : w \in Rests(g, L, u)) <=> v \in Rests(g, L, t)
  <2>1. Leads(g, L, Step(g, t, b), b, w, Rests(g, L, t))
    BY StepLeads DEF AllSound
  <2>. QED  BY <2>1 DEF Leads, Spells, v
<1>3. AllSound(g, U)
  BY <1>1, <1>2 DEF AllSound
<1>4. (\E u \in U : w \in Rests(g, L, u)) <=> \E t \in T : v \in Rests(g, L, t)
  BY <1>1, <1>2
<1>. QED  BY <1>3, <1>4 DEF Spells, U, v

LEMMA AdvanceSound ==
  ASSUME NEW g, NEW L, Setting(g, L), NEW b \in Byte, NEW T, AllSound(g, T)
  PROVE  AllSound(g, Advance(g, T, b))
<1>1. Byting(g, L, b, Nil)
  BY NilIs DEF Byting, Setting, Bounded
<1>. QED  BY <1>1, AdvanceLeads

(* The texts of what is still to come, after k bytes of t.                 *)
Onto(g, T, t, h) ==
  h = [n \in 0..Size(t) |-> IF n = 0 THEN T ELSE Advance(g, h[n - 1], t[n])]

LEMMA ByteAt ==
  ASSUME NEW t \in Text, NEW n \in 1..Size(t)
  PROVE  t[n] \in Byte /\ Size(t) \in Nat
BY DEF Text, Size

LEMMA AfterIs ==
  ASSUME NEW g, NEW L, Setting(g, L), NEW T, AllSound(g, T), NEW t \in Text
  PROVE  \E h : Onto(g, T, t, h) /\ After(g, T, t) = h[Size(t)]
<1>. DEFINE m == Size(t)
            X == {u \in Seq(Frames(g)) : Sound(g, u)}
            S == SUBSET X
            Turn(k, x) == Advance(g, x, t[k])
            turn == [x \in S \X (1..m) |-> Turn(x[2], x[1])]
            W == CHOOSE h : Onto(g, T, t, h)
<1>0. m \in Nat
  BY SizeIs
<1>x. \A U : U \in S <=> AllSound(g, U)
  <2>1. \A u : Sound(g, u) => u \in Seq(Frames(g))
    BY DEF Sound
  <2>2. \A u : u \in X <=> Sound(g, u)
    BY <2>1
  <2>. HIDE DEF X
  <2>. QED  BY <2>2 DEF AllSound
<1>1. turn \in [S \X (1..m) -> S]
  <2>1. ASSUME NEW x \in S \X (1..m) PROVE Turn(x[2], x[1]) \in S
    <3>1. x[1] \in S /\ x[2] \in 1..m
      <4>. HIDE DEF S
      <4>. QED  OBVIOUS
    <3>. HIDE DEF S
    <3>2. AllSound(g, x[1]) /\ t[x[2]] \in Byte
      BY <1>x, <3>1, ByteAt
    <3>. QED  BY <1>x, <3>2, AdvanceSound
  <2>. HIDE DEF Turn, S
  <2>. QED  BY <2>1
<1>. HIDE DEF X, S, m
<1>2. T \in S
  BY <1>x
<1>3. PICK f0 \in [0..m -> S] : Steps(T, m, turn, f0)
  <2>. HIDE DEF turn
  <2>. QED  BY <1>0, <1>1, <1>2, Iterated
<1>4. ASSUME NEW k \in 0..m PROVE f0[k] = IF k = 0 THEN T ELSE Advance(g, f0[k - 1], t[k])
  <2>1. f0[k] = IF k = 0 THEN T ELSE turn[<<f0[k - 1], k>>]
    <3>. HIDE DEF turn
    <3>. QED  BY <1>3 DEF Steps
  <2>2. CASE k # 0
    <3>1. k \in 1..m /\ k - 1 \in 0..m
      BY <1>0, <2>2
    <3>2. <<f0[k - 1], k>> \in S \X (1..m)
      BY <3>1
    <3>3. turn[<<f0[k - 1], k>>] = Turn(k, f0[k - 1])
      <4>. HIDE DEF Turn
      <4>. QED  BY <3>2
    <3>. QED  BY <2>1, <2>2, <3>3
  <2>. QED  BY <2>1, <2>2
<1>5. Onto(g, T, t, f0)
  <2>1. f0 = [k \in 0..m |-> f0[k]]
    OBVIOUS
  <2>2. f0 = [n \in 0..m |-> IF n = 0 THEN T ELSE Advance(g, f0[n - 1], t[n])]
    BY <1>4, <2>1
  <2>. QED  BY <2>2 DEF m, Onto
<1>6. Onto(g, T, t, W)
  BY <1>5, Zenon
<1>7. After(g, T, t) = W[m]
  BY Zenon DEF After, Onto, m, Size
<1>. QED  BY <1>6, <1>7 DEF m

(* After a text, what can be spelled is what could follow it.              *)
LEMMA AfterSpells ==
  ASSUME NEW g, NEW L, Setting(g, L), NEW T, AllSound(g, T), NEW t \in Text
  PROVE  /\ AllSound(g, After(g, T, t))
         /\ \A w \in Text : Size(t) + Size(w) <= MaxText =>
              (Spells(g, L, After(g, T, t), w) <=> Spells(g, L, T, Glue(t, w)))
<1>. DEFINE m == Size(t)
<1>0. m \in Nat /\ MaxText \in Nat
  BY SizeIs DEF Setting, Bounded
<1>1. PICK h : Onto(g, T, t, h) /\ After(g, T, t) = h[m]
  BY AfterIs
<1>2. ASSUME NEW k \in 0..m PROVE h[k] = IF k = 0 THEN T ELSE Advance(g, h[k - 1], t[k])
  BY <1>1 DEF Onto
<1>3. AllSound(g, h[m])
  <2>. DEFINE Good == {k \in 0..m : AllSound(g, h[k])}
  <2>. HIDE DEF m
  <2>1. 0 \in Good
    <3>1. 0 \in 0..m
      BY <1>0
    <3>2. h[0] = T
      BY <1>2, <3>1
    <3>. QED  BY <3>1, <3>2
  <2>2. ASSUME NEW k \in 1..m, k - 1 \in Good PROVE k \in Good
    <3>1. k \in 0..m /\ k # 0
      BY <1>0
    <3>2. h[k] = Advance(g, h[k - 1], t[k])
      BY <1>2, <3>1
    <3>3. t[k] \in Byte
      BY ByteAt DEF m
    <3>4. AllSound(g, h[k])
      BY <2>2, <3>2, <3>3, AdvanceSound
    <3>. QED  BY <3>1, <3>4
  <2>3. \A k \in 0..m : k \in Good
    <3>. HIDE DEF Good
    <3>. QED  BY <1>0, <2>1, <2>2, Counted
  <2>4. m \in 0..m
    BY <1>0
  <2>. QED  BY <2>3, <2>4
<1>4. ASSUME NEW w \in Text, Size(t) + Size(w) <= MaxText
      PROVE  Spells(g, L, h[m], w) <=> Spells(g, L, T, Glue(t, w))
  <2>. DEFINE z == Size(w)
              Left(k) == Glue(Suffix(t, k), w)
              Good == {k \in 0..m : AllSound(g, h[k])
                                    /\ (Spells(g, L, h[k], Left(k)) <=> Spells(g, L, T, Glue(t, w)))}
  <2>0. z \in Nat /\ m + z <= MaxText
    BY <1>4, SizeIs
  <2>. HIDE DEF z, m
  <2>1. 0 \in Good
    <3>1. 0 \in 0..m
      BY <1>0
    <3>2. h[0] = T
      BY <1>2, <3>1
    <3>3. Suffix(t, 0) = t
      <4>1. 0 \in Nat /\ 0 <= Size(t)
        BY <1>0 DEF m
      <4>. QED  BY <4>1, SuffixIs
    <3>. QED  BY <3>1, <3>2, <3>3
  <2>2. ASSUME NEW k \in 1..m, k - 1 \in Good PROVE k \in Good
    <3>. DEFINE j == k - 1
                x == Suffix(t, k)
                b == t[k]
                v == Glue(x, w)
    <3>1. /\ k \in 0..m /\ k # 0 /\ k \in Nat /\ k <= m
          /\ j \in Nat /\ j <= m /\ j < m /\ j + 1 = k /\ j \in 0..m
      BY <1>0
    <3>2. h[k] = Advance(g, h[j], b)
      BY <1>2, <3>1
    <3>3. b \in Byte
      BY ByteAt DEF m
    <3>. HIDE DEF j
    <3>4. x \in Text /\ Size(x) = m - k
      <4>1. k <= Size(t)
        BY <3>1 DEF m
      <4>. QED  BY <3>1, <4>1, SuffixIs DEF m
    <3>5. Suffix(t, j) = Lead(b, x)
      <4>1. j <= Size(t) /\ j < Size(t)
        BY <3>1 DEF m
      <4>2. Suffix(t, j) = Lead(t[j + 1], Suffix(t, j + 1))
        BY <3>1, <4>1, SuffixIs
      <4>. QED  BY <3>1, <4>2
    <3>. HIDE DEF x, b
    <3>6. v \in Text /\ Size(v) = (m - k) + z
      BY <3>4, GlueIs DEF z
    <3>7. Left(j) = Lead(b, v) /\ Left(k) = v
      <4>1. Lead(b, Glue(x, w)) = Glue(Lead(b, x), w)
        BY <3>3, <3>4, LeadGlue
      <4>. QED  BY <3>5, <4>1 DEF x
    <3>. HIDE DEF v
    <3>8. Size(v) < MaxText
      BY <1>0, <2>0, <3>1, <3>6
    <3>9. Byting(g, L, b, v)
      BY <3>3, <3>6, <3>8 DEF Byting
    <3>10. AllSound(g, h[j]) /\ (Spells(g, L, h[j], Left(j)) <=> Spells(g, L, T, Glue(t, w)))
      BY <2>2 DEF j
    <3>. HIDE DEF Left
    <3>11. /\ AllSound(g, h[k])
           /\ Spells(g, L, h[k], v) <=> Spells(g, L, h[j], Lead(b, v))
      BY <3>2, <3>9, <3>10, AdvanceLeads
    <3>. QED  BY <3>1, <3>7, <3>10, <3>11
  <2>3. \A k \in 0..m : k \in Good
    <3>. HIDE DEF Good
    <3>. QED  BY <1>0, <2>1, <2>2, Counted
  <2>4. m \in 0..m
    BY <1>0
  <2>5. Left(m) = w
    <3>. DEFINE x == Suffix(t, m)
    <3>1. m <= Size(t)
      BY <1>0 DEF m
    <3>2. x \in Text /\ Size(x) = m - m
      BY <1>0, <3>1, SuffixIs DEF m
    <3>. HIDE DEF x
    <3>3. Size(x) = 0
      BY <1>0, <3>2
    <3>4. x = Nil
      BY <3>2, <3>3, NoSize
    <3>5. Glue(x, w) = w
      BY <3>4, GlueNil
    <3>. QED  BY <3>5 DEF x
  <2>6. m \in Good
    BY <2>3, <2>4
  <2>. HIDE DEF Left
  <2>. QED  BY <2>5, <2>6
<1>. QED  BY <1>1, <1>3, <1>4

-----------------------------------------------------------------------------
(* Nothing is left of a stack where the value may stop.                    *)
LEMMA WaitingLeft ==
  ASSUME NEW g, NEW L, Setting(g, L), NEW s, Below(g, s)
  PROVE  /\ Nil \in Rests(g, L, s) <=> s = Empty
         /\ Fits(Rests(g, L, s))
<1>0. Bounded
  BY DEF Setting
<1>1. CASE s = Empty
  <2>1. Rests(g, L, Empty) = Nothing
    BY <1>0, RestsEmpty
  <2>. QED  BY <1>0, <1>1, <2>1, LangNothing, NothingFits
<1>2. CASE s # Empty
  <2>. DEFINE u == Front(s)
              f == Last(s)
  <2>1. Below(g, u) /\ Waiting(g, f) /\ s = Push(u, f)
    BY <1>2, PopSound
  <2>. HIDE DEF u, f
  <2>2. SoundFrame(g, f) /\ g[f.node].kind # "number"
    BY <2>1 DEF Waiting
  <2>3. /\ Rests(g, L, Push(u, f)) = Cat(Rest(g, L, f), Rests(g, L, u))
        /\ Fits(Rests(g, L, u)) /\ Fits(Rests(g, L, Push(u, f)))
    BY <2>1, <2>2, RestsAre
  <2>4. Fits(Rest(g, L, f)) /\ Nil \notin Rest(g, L, f)
    BY <2>2, RestFits DEF Stops
  <2>. DEFINE R == Rest(g, L, f)
              S == Rests(g, L, u)
  <2>5. Lang(R) /\ Lang(S) /\ Nil \notin R
    BY <2>3, <2>4, LangFit
  <2>. HIDE DEF R, S
  <2>6. Nil \notin Cat(R, S)
    BY <1>0, <2>5, CatNil
  <2>. QED  BY <1>2, <2>1, <2>3, <2>6 DEF R, S
<1>. QED  BY <1>1, <1>2

LEMMA CompleteIs ==
  ASSUME NEW g, NEW L, Setting(g, L), NEW t, Sound(g, t)
  PROVE  Nil \in Rests(g, L, t) <=> Complete(g, t)
<1>0. Bounded
  BY DEF Setting
<1>1. CASE t = Empty
  <2>1. Rests(g, L, Empty) = Nothing
    BY <1>0, RestsEmpty
  <2>2. Complete(g, t)
    BY <1>1 DEF Complete, Empty
  <2>. QED  BY <1>1, <2>1, <2>2, LangNothing
<1>2. CASE t # Empty
  <2>. DEFINE s == Front(t)
              f == Last(t)
              n == Len(s)
  <2>1. Below(g, s) /\ SoundFrame(g, f) /\ t = Push(s, f)
    BY <1>2, PopSound
  <2>. HIDE DEF s, f
  <2>2. /\ Rests(g, L, t) = Cat(Rest(g, L, f), Rests(g, L, s))
        /\ Fits(Rests(g, L, s))
    BY <2>1, RestsAre
  <2>3. Fits(Rest(g, L, f)) /\ (Nil \in Rest(g, L, f) <=> Stops(g[f.node], f))
    BY <2>1, RestFits
  <2>. DEFINE R == Rest(g, L, f)
              S == Rests(g, L, s)
  <2>4. Lang(R) /\ Lang(S)
    BY <2>2, <2>3, LangFit
  <2>5. Nil \in S <=> s = Empty
    BY <2>1, WaitingLeft
  <2>. HIDE DEF R, S
  <2>6. Nil \in Cat(R, S) <=> Stops(g[f.node], f) /\ s = Empty
    <3>1. Nil \in Cat(R, S) <=> Nil \in R /\ Nil \in S
      BY <1>0, <2>4, CatNil
    <3>. QED  BY <2>3, <2>5, <3>1 DEF R
  <2>7. s \in Seq(Frames(g)) /\ f \in Frames(g) /\ \A i \in 1..n : Waiting(g, s[i])
    BY <2>1 DEF Below, SoundFrame
  <2>8. /\ t \in Seq(Frames(g)) /\ n \in Nat /\ Len(t) = n + 1
        /\ t[n + 1] = f /\ \A i \in 1..n : t[i] = s[i]
    BY <2>1, <2>7, PushIs
  <2>9. DOMAIN t = 1..(n + 1)
    <3>. DEFINE F == Frames(g)
    <3>1. t \in Seq(F)
      BY <2>8
    <3>. HIDE DEF F, n
    <3>2. DOMAIN t = 1..Len(t)
      BY <3>1
    <3>. QED  BY <2>8, <3>2
  <2>10. s = Empty <=> n = 0
    <3>. DEFINE F == Frames(g)
    <3>1. s \in Seq(F)
      BY <2>7
    <3>. HIDE DEF F
    <3>. QED  BY <3>1, EmptySeq DEF Empty
  <2>. DEFINE Ends(i) == g[t[i].node].kind = "number" /\ NumberCanStop(t[i].phase)
  <2>11. Complete(g, t) <=> \A i \in 1..(n + 1) : Ends(i)
    BY <2>9 DEF Complete
  <2>12. Ends(n + 1) <=> Stops(g[f.node], f)
    BY <2>8 DEF Stops
  <2>13. ASSUME NEW i \in 1..n PROVE ~Ends(i)
    <3>1. Waiting(g, s[i]) /\ t[i] = s[i]
      BY <2>7, <2>8
    <3>. QED  BY <3>1 DEF Waiting
  <2>. HIDE DEF Ends, n
  <2>14. Complete(g, t) <=> Stops(g[f.node], f) /\ n = 0
    <3>1. CASE n = 0
      <4>1. \A i \in 1..(n + 1) : i = n + 1
        BY <3>1
      <4>2. n + 1 \in 1..(n + 1)
        BY <2>8
      <4>. QED  BY <2>11, <2>12, <3>1, <4>1, <4>2
    <3>2. CASE n # 0
      <4>1. 1 \in 1..n /\ 1 \in 1..(n + 1)
        BY <2>8, <3>2
      <4>. QED  BY <2>11, <2>13, <3>2, <4>1
    <3>. QED  BY <3>1, <3>2
  <2>. QED  BY <2>2, <2>6, <2>10, <2>14 DEF R, S
<1>. QED  BY <1>1, <1>2

-----------------------------------------------------------------------------
(* The automaton and the language.                                         *)

Reads(g, L, id, T, t) ==
  \A w \in Text : Size(t) + Size(w) <= MaxText =>
    (Spells(g, L, T, w) <=> Glue(t, w) \in L[id])

Start(id) == {<<Frame(id, 0, 0, 0)>>}

LEMMA StartReads ==
  ASSUME NEW g, NEW L, Setting(g, L), NEW id \in DOMAIN g
  PROVE  AllSound(g, Start(id)) /\ Reads(g, L, id, Start(id), Nil)
<1>. DEFINE f == Frame(id, 0, 0, 0)
            p == Push(Empty, f)
<1>0. Bounded
  BY DEF Setting
<1>1. Start(id) = {p}
  BY DEF Start, Push, Empty
<1>2. SoundFrame(g, f) /\ Rest(g, L, f) = L[id]
  BY RestStart
<1>3. Below(g, Empty)
  <2>1. Empty \in Seq(Frames(g)) /\ Len(Empty) = 0
    BY DEF Empty
  <2>2. 1..0 = {}
    OBVIOUS
  <2>. QED  BY <2>1, <2>2 DEF Below
<1>. HIDE DEF f
<1>4. Sound(g, p)
  BY <1>2, <1>3, PushSound
<1>5. Rests(g, L, p) = Cat(L[id], Nothing)
  <2>1. Rests(g, L, Push(Empty, f)) = Cat(Rest(g, L, f), Rests(g, L, Empty)) /\ Rests(g, L, Empty) = Nothing
    BY <1>2, <1>3, RestsAre
  <2>. QED  BY <1>2, <2>1
<1>6. Cat(L[id], Nothing) = L[id]
  <2>. DEFINE B == L[id]
  <2>1. Fits(B)
    BY LanguageIs
  <2>. HIDE DEF B
  <2>2. Cat(B, Nothing) = B
    BY <1>0, <2>1, CatLast
  <2>. QED  BY <2>2 DEF B
<1>. HIDE DEF p
<1>7. AllSound(g, Start(id))
  BY <1>1, <1>4 DEF AllSound
<1>8. ASSUME NEW w \in Text PROVE Spells(g, L, Start(id), w) <=> Glue(Nil, w) \in L[id]
  <2>1. Glue(Nil, w) = w
    BY GlueNil
  <2>. QED  BY <1>1, <1>5, <1>6, <2>1 DEF Spells
<1>. QED  BY <1>7, <1>8 DEF Reads

(* The text goes on by a piece.                                            *)
LEMMA AfterReads ==
  ASSUME NEW g, NEW L, Setting(g, L), NEW id, NEW T, AllSound(g, T),
         NEW t \in Text, Reads(g, L, id, T, t), NEW piece \in Text
  PROVE  AllSound(g, After(g, T, piece)) /\ Reads(g, L, id, After(g, T, piece), Glue(t, piece))
<1>. DEFINE U == After(g, T, piece)
            u == Glue(t, piece)
            a == Size(t)
            c == Size(piece)
<1>0. a \in Nat /\ c \in Nat /\ u \in Text /\ Size(u) = a + c
  BY SizeIs, GlueIs
<1>1. /\ AllSound(g, U)
      /\ \A w \in Text : c + Size(w) <= MaxText => (Spells(g, L, U, w) <=> Spells(g, L, T, Glue(piece, w)))
  BY AfterSpells
<1>2. \A w \in Text : a + Size(w) <= MaxText => (Spells(g, L, T, w) <=> Glue(t, w) \in L[id])
  BY DEF Reads
<1>3. MaxText \in Nat
  BY DEF Setting, Bounded
<1>. HIDE DEF U, u, a, c
<1>4. ASSUME NEW w \in Text, Size(u) + Size(w) <= MaxText
      PROVE  Spells(g, L, U, w) <=> Glue(u, w) \in L[id]
  <2>. DEFINE z == Size(w)
              v == Glue(piece, w)
  <2>1. z \in Nat /\ v \in Text /\ Size(v) = c + z
    BY SizeIs, GlueIs DEF c
  <2>2. (a + c) + z <= MaxText
    BY <1>0, <1>4
  <2>3. Glue(u, w) = Glue(t, v)
    BY GlueAssoc DEF u
  <2>. HIDE DEF z, v
  <2>4. c + z <= MaxText /\ a + Size(v) <= MaxText
    BY <1>0, <1>3, <2>1, <2>2
  <2>5. Spells(g, L, U, w) <=> Spells(g, L, T, v)
    BY <1>1, <2>4 DEF z, v
  <2>6. Spells(g, L, T, v) <=> Glue(t, v) \in L[id]
    BY <1>2, <2>1, <2>4
  <2>. QED  BY <2>3, <2>5, <2>6
<1>5. Reads(g, L, id, U, u)
  BY <1>4 DEF Reads
<1>. QED  BY <1>1, <1>5 DEF U, u

(* Where nothing has to follow, some stack is complete.                    *)
LEMMA StopReads ==
  ASSUME NEW g, NEW L, Setting(g, L), NEW id, NEW T, AllSound(g, T),
         NEW t \in Text, Reads(g, L, id, T, t), Size(t) <= MaxText
  PROVE  (\E s \in T : Complete(g, s)) <=> t \in L[id]
<1>1. \A s \in T : Nil \in Rests(g, L, s) <=> Complete(g, s)
  BY CompleteIs DEF AllSound
<1>2. Spells(g, L, T, Nil) <=> Glue(t, Nil) \in L[id]
  <2>1. Nil \in Text /\ Size(t) + Size(Nil) <= MaxText
    <3>1. Size(t) \in Nat /\ Nil \in Text /\ Size(Nil) = 0
      BY SizeIs, NilIs
    <3>. DEFINE a == Size(t)
                c == Size(Nil)
    <3>2. a + c <= MaxText
      <4>1. a \in Nat /\ c = 0 /\ a <= MaxText
        BY <3>1
      <4>. HIDE DEF a, c
      <4>. QED  BY <4>1
    <3>. QED  BY <3>1, <3>2
  <2>. QED  BY <2>1 DEF Reads
<1>3. Glue(t, Nil) = t
  BY GlueNil
<1>. QED  BY <1>1, <1>2, <1>3 DEF Spells

(* The automaton reads what its grammar spells: whatever the nodes and     *)
(* whatever solves their equations, the bytes of a text lead to a stack    *)
(* that may stop exactly if the text is one of those (step_frame()).       *)
THEOREM AutomatonIsLanguage ==
  ASSUME MaxText \in Nat, MaxText > 1,
         NEW g, WellFormed(g), NEW L, IsLanguage(g, L), NEW id \in DOMAIN g,
         NEW t \in Seq(Byte), Len(t) <= MaxText
  PROVE  CanStop(g, After(g, {<<Frame(id, 0, 0, 0)>>}, t)) <=> t \in L[id]
<1>1. Setting(g, L) /\ t \in Text /\ Size(t) <= MaxText /\ Nil \in Text
  BY NilIs DEF Setting, Bounded, Text, Size
<1>. DEFINE T == Start(id)
            U == After(g, T, t)
<1>2. AllSound(g, T) /\ Reads(g, L, id, T, Nil)
  BY <1>1, StartReads
<1>3. AllSound(g, U) /\ Reads(g, L, id, U, Glue(Nil, t))
  BY <1>1, <1>2, AfterReads
<1>4. Glue(Nil, t) = t
  BY <1>1, GlueNil
<1>. HIDE DEF U
<1>5. (\E s \in U : Complete(g, s)) <=> t \in L[id]
  BY <1>1, <1>3, <1>4, StopReads
<1>. QED  BY <1>5 DEF CanStop, U, Start

-----------------------------------------------------------------------------
(* Decoding: the automaton is never where the text has not led it.         *)

Ready(s) == s \in Schemas /\ Compiled[s].id > 0

(* A grammar is in use, and the stacks read on from the text so far.       *)
Running(s, g, T, t) ==
  /\ Ready(s) /\ g = Compiled[s].nodes
  /\ t \in Text /\ Size(t) < MaxText
  /\ Reads(g, Language[s], Compiled[s].id, T, t)

(* The cached masks are those of the grammar, and not too many.            *)
Cached(g, held) ==
  /\ IsFiniteSet(DOMAIN held) /\ Cardinality(DOMAIN held) <= MaxMasks
  /\ \A T \in DOMAIN held : held[T] = MaskOf(g, T)

Stages == {"idle", "scoring", "sampling"}
Codes == {"none", "invalid_input", "eos", "length"}

IInv ==
  /\ phase \in Stages /\ code \in Codes
  /\ schema \in Schemas \cup {[type |-> "any"]}
  /\ text \in Text /\ mask \subseteq Vocabulary \cup {Eos}
  /\ AllSound(nodes, states)
  /\ Cached(nodes, masks)
  /\ phase # "idle" => Running(schema, nodes, states, text)
  /\ phase = "sampling" => mask = MaskOf(nodes, states)

LEMMA ReadyIs ==
  ASSUME JsonAssumption, NEW s, Ready(s)
  PROVE  /\ Setting(Compiled[s].nodes, Language[s]) /\ Compiled[s].id \in DOMAIN Compiled[s].nodes
         /\ s \in DOMAIN Means /\ Means[s] \subseteq Language[s][Compiled[s].id]
         /\ \A t \in Language[s][Compiled[s].id] : Tidy(t) \in Means[s]
<1>1. CompiledRight(s) /\ s \in DOMAIN Means
  BY DEF JsonAssumption, Ready
<1>2. Bounded
  BY DEF JsonAssumption, Bounded
<1>. QED  BY <1>1, <1>2 DEF CompiledRight, Setting

LEMMA PieceIs ==
  ASSUME JsonAssumption, NEW piece \in Vocabulary
  PROVE  piece \in Text /\ piece # Eos
BY DEF JsonAssumption, Text

LEMMA MaskIn == \A g, T : MaskOf(g, T) \subseteq Vocabulary \cup {Eos}
BY DEF MaskOf

LEMMA NoMasks ==
  ASSUME JsonAssumption, NEW g
  PROVE  Cached(g, << >>)
<1>1. DOMAIN << >> = {}
  OBVIOUS
<1>2. IsFiniteSet({}) /\ Cardinality({}) = 0
  BY FS_EmptySet
<1>3. MaxMasks \in Nat /\ 0 <= MaxMasks
  BY DEF JsonAssumption
<1>. QED  BY <1>1, <1>2, <1>3 DEF Cached

(* A mask is added, alone where there were too many.                       *)
LEMMA AddMask ==
  ASSUME JsonAssumption, NEW g, NEW held, Cached(g, held), NEW T, T \notin DOMAIN held
  PROVE  Cached(g, [s \in {T} \cup (IF Cardinality(DOMAIN held) >= MaxMasks THEN {} ELSE DOMAIN held) |->
                      IF s = T THEN MaskOf(g, T) ELSE held[s]])
<1>. DEFINE D == DOMAIN held
            E == IF Cardinality(D) >= MaxMasks THEN {} ELSE D
            n == Cardinality(D)
            new == [s \in {T} \cup E |-> IF s = T THEN MaskOf(g, T) ELSE held[s]]
<1>1. MaxMasks \in Nat /\ MaxMasks > 0
  BY DEF JsonAssumption
<1>2. IsFiniteSet(D) /\ n <= MaxMasks /\ \A s \in D : held[s] = MaskOf(g, s)
  BY DEF Cached
<1>3. n \in Nat
  BY <1>2, FS_CardinalityType
<1>4. IsFiniteSet({T} \cup E) /\ Cardinality({T} \cup E) <= MaxMasks
  <2>1. CASE n >= MaxMasks
    <3>1. {T} \cup E = {T}
      BY <2>1
    <3>2. IsFiniteSet({T}) /\ Cardinality({T}) = 1
      BY FS_Singleton
    <3>. HIDE DEF E
    <3>. QED  BY <1>1, <3>1, <3>2
  <2>2. CASE ~(n >= MaxMasks)
    <3>1. {T} \cup E = D \cup {T}
      BY <2>2
    <3>2. T \notin D
      OBVIOUS
    <3>. HIDE DEF D, E
    <3>3. IsFiniteSet(D \cup {T}) /\ Cardinality(D \cup {T}) = n + 1
      BY <1>2, <3>2, FS_AddElement
    <3>. HIDE DEF n
    <3>4. n + 1 <= MaxMasks
      BY <1>1, <1>3, <2>2
    <3>. QED  BY <3>1, <3>3, <3>4
  <2>. QED  BY <2>1, <2>2
<1>5. E \subseteq D
  OBVIOUS
<1>. HIDE DEF D, E
<1>6. DOMAIN new = {T} \cup E /\ \A s \in {T} \cup E : new[s] = MaskOf(g, s)
  BY <1>2, <1>5
<1>7. Cached(g, new)
  <2>. HIDE DEF new
  <2>. QED  BY <1>4, <1>6 DEF Cached
<1>. QED  BY <1>7 DEF new, E, D

(* The text goes on by a token that the mask allows.                       *)
LEMMA RunsOn ==
  ASSUME JsonAssumption, NEW s, NEW g, NEW T, NEW t, Running(s, g, T, t), AllSound(g, T),
         NEW piece \in Text
  PROVE  /\ AllSound(g, After(g, T, piece)) /\ Glue(t, piece) \in Text
         /\ Reads(g, Language[s], Compiled[s].id, After(g, T, piece), Glue(t, piece))
<1>. DEFINE L == Language[s]
            id == Compiled[s].id
<1>1. Setting(g, L) /\ t \in Text /\ Reads(g, L, id, T, t)
  BY ReadyIs DEF Running
<1>2. Glue(t, piece) \in Text
  BY <1>1, GlueIs
<1>. HIDE DEF L, id
<1>3. AllSound(g, After(g, T, piece)) /\ Reads(g, L, id, After(g, T, piece), Glue(t, piece))
  BY <1>1, AfterReads
<1>. QED  BY <1>2, <1>3 DEF L, id

(* A text that begins with another is that one and what is behind it.      *)
LEMMA PrefixGlue ==
  ASSUME NEW t \in Text, NEW v \in Text, IsPrefix(t, v)
  PROVE  Suffix(v, Size(t)) \in Text /\ Glue(t, Suffix(v, Size(t))) = v
<1>. DEFINE n == Len(t)
            m == Len(v)
            h == SubSeq(v, 1, n)
            w == SubSeq(v, n + 1, m)
<1>1. t \in Seq(Byte) /\ v \in Seq(Byte) /\ n \in Nat /\ m \in Nat
  BY DEF Text
<1>2. n <= m /\ SubSeq(t, 1, n) = h
  BY DEF IsPrefix
<1>3. SubSeq(t, 1, n) = t
  BY <1>1
<1>4. \A i \in 1..n : t[i] = v[i]
  <2>1. \A i \in 1..n : h[i] = v[i]
    BY <1>1, <1>2
  <2>. QED  BY <1>2, <1>3, <2>1
<1>5. w \in Text /\ Len(w) = m - n /\ Suffix(v, Size(t)) = w
  <2>1. n \in Nat /\ n <= Size(v)
    BY <1>1, <1>2 DEF Size
  <2>2. Suffix(v, n) \in Text /\ Size(Suffix(v, n)) = Size(v) - n
    <3>. HIDE DEF n
    <3>. QED  BY <2>1, SuffixIs
  <2>. QED  BY <2>2 DEF Suffix, Size
<1>6. \A i \in 1..(m - n) : w[i] = v[i + n]
  BY <1>1, <1>2
<1>. HIDE DEF h, w
<1>7. /\ t \o w \in Seq(Byte) /\ Len(t \o w) = m
      /\ \A i \in 1..m : (t \o w)[i] = IF i <= n THEN t[i] ELSE w[i - n]
  <2>1. w \in Seq(Byte)
    BY <1>5 DEF Text
  <2>2. /\ t \o w \in Seq(Byte) /\ Len(t \o w) = n + Len(w)
        /\ \A i \in 1..(n + Len(w)) : (t \o w)[i] = IF i <= n THEN t[i] ELSE w[i - n]
    BY <1>1, <2>1, ConcatProperties
  <2>3. n + Len(w) = m
    <3>. HIDE DEF n, m
    <3>. QED  BY <1>1, <1>5
  <2>. QED  BY <2>2, <2>3
<1>. HIDE DEF n, m
<1>8. ASSUME NEW i \in 1..m PROVE (t \o w)[i] = v[i]
  <2>1. CASE i <= n
    BY <1>1, <1>4, <1>7, <2>1
  <2>2. CASE ~(i <= n)
    <3>. DEFINE k == i - n
    <3>1. k \in 1..(m - n) /\ k + n = i
      BY <1>1, <1>2, <2>2
    <3>2. (t \o w)[i] = w[k]
      BY <1>7, <2>2
    <3>. HIDE DEF k
    <3>. QED  BY <1>6, <3>1, <3>2
  <2>. QED  BY <2>1, <2>2
<1>9. t \o w = v
  <2>1. Len(v) = m
    BY DEF m
  <2>. QED  BY <1>1, <1>7, <1>8, <2>1, SeqEqual
<1>. QED  BY <1>5, <1>9 DEF Glue

-----------------------------------------------------------------------------
(* The invariant, and one step per action.                                 *)

LEMMA StartsRight == ASSUME JsonAssumption PROVE Init => IInv
<1>. SUFFICES ASSUME Init PROVE IInv
  OBVIOUS
<1>1. text \in Text
  BY NilIs DEF Init, Nil
<1>2. Cached(nodes, masks)
  BY NoMasks DEF Init
<1>3. AllSound(nodes, states)
  BY DEF Init, AllSound
<1>. QED  BY <1>1, <1>2, <1>3 DEF Init, IInv, Stages, Codes

LEMMA BeginKeeps ==
  ASSUME JsonAssumption, IInv, NEW s \in Schemas, Begin(s)
  PROVE  IInv'
<1>. DEFINE g == Compiled[s].nodes
            id == Compiled[s].id
            L == Language[s]
<1>1. Ready(s)
  BY DEF Begin, Ready
<1>2. Setting(g, L) /\ id \in DOMAIN g
  BY <1>1, ReadyIs
<1>. HIDE DEF g, id, L
<1>3. AllSound(g, Start(id)) /\ Reads(g, L, id, Start(id), Nil)
  BY <1>2, StartReads
<1>4. /\ schema' = s /\ nodes' = g /\ states' = Start(id)
      /\ masks' = << >> /\ text' = Nil /\ mask' = {} /\ phase' = "scoring" /\ code' = "none"
  BY DEF Begin, Start, Nil, g, id
<1>5. Running(s, g, Start(id), Nil)
  <2>1. Nil \in Text /\ Size(Nil) = 0 /\ MaxText \in Nat /\ MaxText > 1
    BY NilIs DEF JsonAssumption
  <2>. DEFINE z == Size(Nil)
  <2>2. z < MaxText
    <3>. HIDE DEF z
    <3>1. z = 0 /\ MaxText \in Nat /\ MaxText > 1
      BY <2>1 DEF z
    <3>. QED  BY <3>1
  <2>. QED  BY <1>1, <1>3, <2>1, <2>2 DEF Running, g, id, L
<1>6. Cached(g, << >>)
  BY NoMasks
<1>7. (phase \in Stages /\ code \in Codes)'
  BY <1>4 DEF Stages, Codes
<1>8. (schema \in Schemas \cup {[type |-> "any"]} /\ text \in Text /\ mask \subseteq Vocabulary \cup {Eos})'
  BY <1>4, NilIs
<1>9. (AllSound(nodes, states) /\ Cached(nodes, masks) /\ Running(schema, nodes, states, text))'
  BY <1>3, <1>4, <1>5, <1>6
<1>10. phase' # "sampling"
  BY <1>4
<1>. QED  BY <1>7, <1>8, <1>9, <1>10 DEF IInv

LEMMA RefusedKeeps ==
  ASSUME IInv, NEW s, BeginRefused(s)
  PROVE  IInv'
<1>1. UNCHANGED <<phase, schema, nodes, states, text, masks, mask>> /\ code' \in Codes
  BY DEF BeginRefused, Codes
<1>. QED  BY <1>1 DEF IInv

LEMMA ScoreKeeps ==
  ASSUME JsonAssumption, IInv, Score
  PROVE  IInv'
<1>. DEFINE held == states \in DOMAIN masks
            found == IF held THEN masks[states] ELSE MaskOf(nodes, states)
            added == [s \in {states} \cup (IF Cardinality(DOMAIN masks) >= MaxMasks THEN {} ELSE DOMAIN masks) |->
                        IF s = states THEN MaskOf(nodes, states) ELSE masks[s]]
<1>1. /\ phase = "scoring" /\ UNCHANGED <<schema, nodes, states, text>>
      /\ \/ phase' = "idle" /\ code' = "length" /\ mask' = {}
         \/ mask' = found /\ phase' = "sampling" /\ UNCHANGED code
  BY DEF Score, Return
<1>2. masks' = IF held THEN masks ELSE added
  BY DEF Score
<1>3. Running(schema, nodes, states, text) /\ Cached(nodes, masks) /\ AllSound(nodes, states)
  BY <1>1 DEF IInv
<1>4. found = MaskOf(nodes, states)
  BY <1>3 DEF Cached
<1>5. Cached(nodes, masks')
  <2>1. CASE held
    BY <1>2, <1>3, <2>1
  <2>2. CASE ~held
    <3>1. Cached(nodes, added)
      BY <1>3, <2>2, AddMask
    <3>. HIDE DEF added
    <3>. QED  BY <1>2, <2>2, <3>1
  <2>. QED  BY <2>1, <2>2
<1>. HIDE DEF held, found, added
<1>6. found \subseteq Vocabulary \cup {Eos}
  BY <1>4, MaskIn
<1>7. (phase \in Stages /\ code \in Codes)'
  BY <1>1 DEF IInv, Stages, Codes
<1>8. (schema \in Schemas \cup {[type |-> "any"]} /\ text \in Text /\ mask \subseteq Vocabulary \cup {Eos})'
  BY <1>1, <1>6 DEF IInv
<1>9. (AllSound(nodes, states) /\ Cached(nodes, masks) /\ Running(schema, nodes, states, text))'
  BY <1>1, <1>3, <1>5
<1>10. (phase = "sampling" => mask = MaskOf(nodes, states))'
  BY <1>1, <1>4
<1>. QED  BY <1>7, <1>8, <1>9, <1>10 DEF IInv

LEMMA SampleKeeps ==
  ASSUME JsonAssumption, IInv, NEW piece \in Vocabulary, Sample(piece)
  PROVE  IInv'
<1>. DEFINE T == After(nodes, states, piece)
            t == Glue(text, piece)
<1>1. piece \in Text /\ piece # Eos
  BY PieceIs
<1>2. phase = "sampling" /\ piece \in mask /\ mask = MaskOf(nodes, states)
  BY DEF Sample, IInv
<1>3. Running(schema, nodes, states, text) /\ Cached(nodes, masks) /\ AllSound(nodes, states)
  BY <1>2 DEF IInv
<1>4. T # {}
  BY <1>1, <1>2 DEF MaskOf, Allows
<1>5. /\ AllSound(nodes, T) /\ t \in Text
      /\ Reads(nodes, Language[schema], Compiled[schema].id, T, t)
  BY <1>1, <1>3, RunsOn
<1>6. /\ UNCHANGED <<schema, nodes, masks>> /\ states' = T /\ text' = t /\ mask' = {}
      /\ \/ phase' = "scoring" /\ UNCHANGED code /\ Size(t) < MaxText
         \/ phase' = "idle" /\ code' = "length"
  BY <1>4 DEF Sample, Return, Glue, Size
<1>. HIDE DEF T, t
<1>7. (phase \in Stages /\ code \in Codes)'
  BY <1>6 DEF IInv, Stages, Codes
<1>8. (schema \in Schemas \cup {[type |-> "any"]} /\ text \in Text /\ mask \subseteq Vocabulary \cup {Eos})'
  BY <1>5, <1>6 DEF IInv
<1>9. (AllSound(nodes, states) /\ Cached(nodes, masks))'
  BY <1>3, <1>5, <1>6
<1>10. (phase # "idle" => Running(schema, nodes, states, text))'
  <2>1. CASE phase' # "idle"
    <3>1. Running(schema, nodes, T, t)
      BY <1>3, <1>5, <1>6, <2>1 DEF Running
    <3>. QED  BY <1>6, <3>1
  <2>. QED  BY <2>1
<1>11. phase' # "sampling"
  BY <1>6
<1>. QED  BY <1>7, <1>8, <1>9, <1>10, <1>11 DEF IInv

LEMMA EndKeeps ==
  ASSUME IInv, End
  PROVE  IInv'
<1>1. /\ UNCHANGED <<schema, nodes, states, text, masks>>
      /\ phase' = "idle" /\ code' = "eos" /\ mask' = {}
  BY DEF End, Return
<1>2. (phase \in Stages /\ code \in Codes)'
  BY <1>1 DEF Stages, Codes
<1>. QED  BY <1>1, <1>2 DEF IInv

LEMMA Decoding == ASSUME JsonAssumption PROVE Spec => []IInv
<1>1. Init => IInv
  BY StartsRight
<1>2. IInv /\ [Next]_vars => IInv'
  <2>. SUFFICES ASSUME IInv, [Next]_vars PROVE IInv'
    OBVIOUS
  <2>1. CASE UNCHANGED vars
    BY <2>1 DEF IInv, vars
  <2>2. ASSUME NEW s \in Schemas, Begin(s) PROVE IInv'
    BY <2>2, BeginKeeps
  <2>3. ASSUME NEW s \in Schemas, BeginRefused(s) PROVE IInv'
    BY <2>3, RefusedKeeps
  <2>4. CASE Score
    BY <2>4, ScoreKeeps
  <2>5. CASE End
    BY <2>5, EndKeeps
  <2>6. ASSUME NEW piece \in Vocabulary, Sample(piece) PROVE IInv'
    BY <2>6, SampleKeeps
  <2>. QED  BY <2>1, <2>2, <2>3, <2>4, <2>5, <2>6 DEF Next
<1>. QED  BY <1>1, <1>2, PTL DEF Spec

-----------------------------------------------------------------------------
(* What is promised.                                                       *)

(* The state of the constrained sampler keeps its shape, its masks stay    *)
(* within their bound, and no sampled token leaves the grammar             *)
(* (constrain_logits(), accept()).                                         *)
THEOREM JsonTyping == ASSUME JsonAssumption PROVE Spec => []TypeOK
<1>1. IInv => TypeOK
  <2>. SUFFICES ASSUME IInv PROVE TypeOK
    OBVIOUS
  <2>1. states \subseteq Seq(Frames(nodes))
    BY DEF IInv, AllSound, Sound
  <2>2. /\ phase \in Stages /\ code \in Codes /\ schema \in Schemas \cup {[type |-> "any"]}
        /\ text \in Text /\ mask \subseteq Vocabulary \cup {Eos} /\ Cardinality(DOMAIN masks) <= MaxMasks
    BY DEF IInv, Cached
  <2>. QED  BY <2>1, <2>2 DEF TypeOK, Stages, Codes, Frames, Text
<1>. QED  BY <1>1, Decoding, PTL

(* Whatever is sampled from is the mask of where the automaton is, though  *)
(* it may have been computed for another text (json_constraint.h:65-68).   *)
THEOREM CachedMaskStaysExact == ASSUME JsonAssumption PROVE Spec => []CachedMaskIsExact
<1>1. IInv => CachedMaskIsExact
  BY DEF IInv, CachedMaskIsExact
<1>. QED  BY <1>1, Decoding, PTL

(* Every value of the schema that begins with the text can be spelled out  *)
(* from here (json_constraint.h:33-36).                                    *)
THEOREM NothingValidIsRefused == ASSUME JsonAssumption PROVE Spec => []NothingValidRefused
<1>1. IInv => NothingValidRefused
  <2>. DEFINE L == Language[schema]
              id == Compiled[schema].id
              n == Size(text)
  <2>. SUFFICES ASSUME IInv, phase # "idle", NEW v \in Meant, IsPrefix(text, v)
                PROVE  \E stack \in After(nodes, states, SubSeq(v, Len(text) + 1, Len(v))) :
                         Complete(nodes, stack)
    BY DEF NothingValidRefused
  <2>1. Running(schema, nodes, states, text) /\ AllSound(nodes, states) /\ text \in Text
    BY DEF IInv
  <2>2. /\ Setting(nodes, L) /\ id \in DOMAIN nodes
        /\ schema \in DOMAIN Means /\ Means[schema] \subseteq L[id]
    BY <2>1, ReadyIs DEF Running
  <2>3. v \in L[id]
    BY <2>2 DEF Meant
  <2>. HIDE DEF L, id
  <2>4. v \in Text /\ Size(v) <= MaxText
    <3>. DEFINE A == L[id]
    <3>1. Fits(A)
      BY <2>2, LanguageIs
    <3>. HIDE DEF A
    <3>2. v \in A
      BY <2>3 DEF A
    <3>3. v \in Text /\ v \in Fit
      BY <3>1, <3>2, FitsIn
    <3>. QED  BY <3>3 DEF Fit, UpTo, Size
  <2>. DEFINE w == Suffix(v, n)
  <2>5. w \in Text /\ Glue(text, w) = v
    BY <2>1, <2>4, PrefixGlue
  <2>6. w = SubSeq(v, Len(text) + 1, Len(v))
    BY DEF Suffix, Size
  <2>. HIDE DEF w, n
  <2>. DEFINE T == After(nodes, states, w)
  <2>7. AllSound(nodes, T) /\ Reads(nodes, L, id, T, v)
    BY <2>1, <2>5, RunsOn DEF L, id
  <2>. HIDE DEF T
  <2>8. \E s \in T : Complete(nodes, s)
    BY <2>2, <2>3, <2>4, <2>7, StopReads
  <2>. QED  BY <2>6, <2>8 DEF T
<1>. QED  BY <1>1, Decoding, PTL

(* Where the end of turn may be sampled the text is a value of the schema, *)
(* up to commas before closing brackets (accept(), is_complete()).         *)
THEOREM StopsAtValues == ASSUME JsonAssumption PROVE Spec => []StopsOnlyAtValues
<1>1. IInv => StopsOnlyAtValues
  <2>. DEFINE L == Language[schema]
              id == Compiled[schema].id
  <2>. SUFFICES ASSUME IInv, phase = "sampling", Eos \in mask PROVE Tidy(text) \in Meant
    BY DEF StopsOnlyAtValues
  <2>1. /\ Running(schema, nodes, states, text) /\ AllSound(nodes, states)
        /\ mask = MaskOf(nodes, states)
    BY DEF IInv
  <2>2. Eos \notin Vocabulary
    BY DEF JsonAssumption
  <2>3. CanStop(nodes, states)
    BY <2>1, <2>2 DEF MaskOf
  <2>4. /\ Setting(nodes, L) /\ schema \in DOMAIN Means /\ \A t \in L[id] : Tidy(t) \in Means[schema]
    BY <2>1, ReadyIs DEF Running
  <2>5. Reads(nodes, L, id, states, text) /\ text \in Text /\ Size(text) < MaxText
    BY <2>1 DEF Running
  <2>. HIDE DEF L, id
  <2>. DEFINE n == Size(text)
  <2>6. n <= MaxText
    <3>1. n \in Nat /\ MaxText \in Nat /\ n < MaxText
      BY <2>5, SizeIs DEF JsonAssumption
    <3>. HIDE DEF n
    <3>. QED  BY <3>1
  <2>7. text \in L[id]
    BY <2>1, <2>3, <2>4, <2>5, <2>6, StopReads DEF CanStop
  <2>. QED  BY <2>4, <2>7 DEF Meant
<1>. QED  BY <1>1, Decoding, PTL

-----------------------------------------------------------------------------
(* A stack is complete, or there is a byte it can go on with.              *)

Onwards(g, t) == \E b \in Byte : Step(g, t, b) # {}

LEMMA SomeBytes ==
  /\ {"0", "1"} \subseteq Byte /\ {"'", "n"} \subseteq Byte
  /\ {"-", ".", "e", "[", "]", "{", "}", ":", ","} \subseteq Byte
BY DEF Byte, Digit, Escapes, Marks

(* Behind a value, something may follow in every frame that waits for it.  *)
LEMMA FollowGoesOn ==
  ASSUME NEW g, NEW L, Setting(g, L), Passable(g), NEW t, Below(g, t), t # Empty
  PROVE  \E b \in Byte : Follow(g, t, b) # {}
<1>. DEFINE s == Front(t)
            f == Last(t)
            node == g[f.node]
<1>1. Below(g, s) /\ Waiting(g, f) /\ t # <<>>
  BY PopSound DEF Empty
<1>2. /\ f.node \in DOMAIN g /\ SoundFrame(g, f) /\ Place(node, f) /\ f.i \in Nat
      /\ \/ node.kind = "array" /\ f.phase = 2
         \/ node.kind = "free" /\ f.phase \in {2, 4}
         \/ node.kind = "object" /\ f.phase = 3
  BY <1>1, InFrames DEF Waiting, SoundFrame, Frames
<1>3. Plan(g, node)
  BY <1>2, NodeIs
<1>. HIDE DEF s, f
<1>4. CASE node.kind = "array"
  <2>1. Follow(g, t, ",") = (IF ~Full(node, f.i) THEN With(s, f, 1, f.i, 0) ELSE {}) \cup {}
    BY <1>1, <1>4 DEF Follow, s, f
  <2>2. Follow(g, t, "]") = {} \cup (IF f.i >= node.min THEN {s} ELSE {})
    BY <1>1, <1>4 DEF Follow, s, f
  <2>3. CASE f.i >= node.min
    BY <2>2, <2>3, SomeBytes
  <2>4. CASE ~(f.i >= node.min)
    <3>1. node.max < 0 \/ node.min <= node.max
      BY <1>2, <1>4 DEF Passable
    <3>2. ~Full(node, f.i)
      BY <1>2, <1>3, <2>4, <3>1 DEF Full, Plan
    <3>. QED  BY <2>1, <3>2, SomeBytes DEF With
  <2>. QED  BY <2>3, <2>4
<1>5. CASE node.kind = "free"
  <2>1. f.phase = 2 => Follow(g, t, ":") = With(s, f, 3, f.i, 0)
    BY <1>1, <1>5 DEF Follow, s, f
  <2>2. f.phase = 4 => Follow(g, t, "}") = {} \cup {s}
    BY <1>1, <1>5 DEF Follow, s, f
  <2>3. f.phase \in {2, 4}
    BY <1>2, <1>5
  <2>. QED  BY <2>1, <2>2, <2>3, SomeBytes DEF With
<1>6. CASE node.kind = "object"
  <2>1. Follow(g, t, "}") = {} \cup CloseObject(s, node, f.i + 1, "}")
    BY <1>1, <1>6 DEF Follow, s, f
  <2>2. Follow(g, t, ",") = (IF f.i < Len(node.keys) THEN With(s, f, 1, f.i + 1, 0) ELSE {})
                             \cup CloseObject(s, node, f.i + 1, ",")
    BY <1>1, <1>6 DEF Follow, s, f
  <2>3. CASE f.i < Len(node.keys)
    BY <2>2, <2>3, SomeBytes DEF With
  <2>4. CASE ~(f.i < Len(node.keys))
    <3>1. AllOptional(node, f.i + 1)
      BY <1>2, <1>3, <1>6, <2>4 DEF AllOptional, Plan
    <3>. QED  BY <2>1, <3>1, SomeBytes DEF CloseObject
  <2>. QED  BY <2>3, <2>4
<1>. QED  BY <1>2, <1>4, <1>5, <1>6

LEMMA LiteralGoesOn ==
  ASSUME NEW s, NEW f, NEW node, f.k + 1 \in 1..Len(node.text)
  PROVE  StepLiteral(s, f, node, node.text[f.k + 1]) # {}
<1>. DEFINE n == f.k + 1
            b == node.text[f.k + 1]
            m == Len(node.text)
<1>1. ~(n > m) /\ node.text[n] = b
  OBVIOUS
<1>2. StepLiteral(s, f, node, b) \in {{s}, With(s, f, 0, f.i, n)}
  <2>1. StepLiteral(s, f, node, b)
          = IF n > m \/ node.text[n] # b THEN {}
            ELSE IF n = m THEN {s} ELSE With(s, f, 0, f.i, n)
    BY DEF StepLiteral
  <2>. HIDE DEF n, m, b
  <2>. QED  BY <1>1, <2>1
<1>. HIDE DEF n, b
<1>3. With(s, f, 0, f.i, n) # {}
  BY DEF With
<1>. QED  BY <1>2, <1>3 DEF b

(* A value can be begun.                                                   *)
LEMMA OpenGoesOn ==
  ASSUME NEW g, NEW L, Setting(g, L), Passable(g), NEW id \in DOMAIN g, NEW s
  PROVE  \E b \in Byte : Open(g, s, id, b) # {}
<1>1. PICK c \in Alternatives(g, id) : c \in DOMAIN g /\ g[c].kind # "anyOf"
  BY AlternativesAre DEF Passable
<1>. DEFINE node == g[c]
            f == Frame(c, 0, 0, 0)
<1>2. Plan(g, node)
  BY <1>1, NodeIs
<1>3. \A b : OpenNode(s, f, node, b) \subseteq Open(g, s, id, b)
  BY <1>1 DEF Open
<1>. SUFFICES \E b \in Byte : OpenNode(s, f, node, b) # {}
  BY <1>3
<1>4. f.phase = 0 /\ f.k = 0
  BY DEF Frame
<1>. HIDE DEF node, f
<1>5. CASE node.kind = "literal"
  <2>. DEFINE b == node.text[1]
  <2>1. node.text \in Text /\ Size(node.text) \in Nat /\ Size(node.text) > 0
    BY <1>2, <1>5, SizeIs DEF Plan
  <2>2. b \in Byte
    BY <2>1, ByteAt
  <2>3. OpenNode(s, f, node, b) = StepLiteral(s, f, node, b)
    BY <1>5 DEF OpenNode
  <2>4. StepLiteral(s, f, node, b) # {}
    <3>1. f.k + 1 = 1 /\ f.k + 1 \in 1..Len(node.text)
      BY <1>4, <2>1 DEF Size
    <3>2. StepLiteral(s, f, node, node.text[f.k + 1]) # {}
      BY <3>1, LiteralGoesOn
    <3>. QED  BY <3>1, <3>2
  <2>5. OpenNode(s, f, node, b) # {}
    BY <2>3, <2>4
  <2>. HIDE DEF b
  <2>. QED  BY <2>2, <2>5
<1>6. CASE node.kind = "number"
  <2>1. OpenNode(s, f, node, "0") = StepNumber(s, f, node, "0")
    BY <1>6 DEF OpenNode
  <2>2. 3 \in NumberPhase(f.phase, "0", node.integer)
    BY <1>4 DEF NumberPhase
  <2>3. With(s, f, 3, 0, 0) \subseteq StepNumber(s, f, node, "0")
    BY <2>2 DEF StepNumber
  <2>4. With(s, f, 3, 0, 0) # {}
    BY DEF With
  <2>5. OpenNode(s, f, node, "0") # {}
    BY <2>1, <2>3, <2>4
  <2>. QED  BY <2>5, SomeBytes
<1>7. CASE node.kind = "string"
  <2>1. OpenNode(s, f, node, "'") = With(s, f, 1, 0, 0)
    BY <1>7 DEF OpenNode
  <2>. QED  BY <2>1, SomeBytes DEF With
<1>8. CASE node.kind = "array"
  <2>1. OpenNode(s, f, node, "[") = With(s, f, 1, 0, 0)
    BY <1>8 DEF OpenNode
  <2>. QED  BY <2>1, SomeBytes DEF With
<1>9. CASE node.kind = "free"
  <2>1. OpenNode(s, f, node, "{") = With(s, f, 1, 0, 0)
    BY <1>9 DEF OpenNode
  <2>. QED  BY <2>1, SomeBytes DEF With
<1>10. CASE node.kind = "object"
  <2>1. OpenNode(s, f, node, "{") = With(s, f, 1, 1, 0)
    BY <1>10 DEF OpenNode
  <2>. QED  BY <2>1, SomeBytes DEF With
<1>. QED  <2>1. node.kind \in Kinds \ {"anyOf"}
    BY <1>1, <1>2 DEF Plan, node
  <2>. QED  BY <2>1, <1>5, <1>6, <1>7, <1>8, <1>9, <1>10 DEF Kinds

LEMMA StackGoesOn ==
  ASSUME NEW g, NEW L, Setting(g, L), Passable(g), NEW t, Sound(g, t)
  PROVE  Complete(g, t) \/ Onwards(g, t)
<1>1. CASE t = Empty
  BY <1>1 DEF Complete, Empty
<1>2. CASE t # Empty
  <2>. DEFINE s == Front(t)
              f == Last(t)
              node == g[f.node]
  <2>1. Below(g, s) /\ SoundFrame(g, f) /\ t = Push(s, f) /\ t # <<>>
    BY <1>2, PopSound DEF Empty
  <2>2. f.node \in DOMAIN g /\ Place(node, f) /\ f.phase \in 0..8 /\ f.i \in Nat /\ f.k \in Nat
    BY <2>1, InFrames DEF SoundFrame, Frames
  <2>3. Plan(g, node)
    BY <2>2, NodeIs
  <2>4. CASE node.kind = "literal"
    <3>. DEFINE b == node.text[f.k + 1]
    <3>1. node.text \in Text /\ Size(node.text) \in Nat /\ f.k < Size(node.text)
      BY <2>2, <2>3, <2>4, SizeIs DEF Plan, Place
    <3>2. f.k + 1 \in 1..Size(node.text)
      BY <2>2, <3>1
    <3>3. b \in Byte
      BY <3>1, <3>2, ByteAt
    <3>4. Step(g, t, b) = StepLiteral(s, f, node, b)
      BY <2>1, <2>4 DEF Step
    <3>5. StepLiteral(s, f, node, b) # {}
      BY <3>2, LiteralGoesOn DEF Size
    <3>. QED  BY <3>3, <3>4, <3>5 DEF Onwards
  <2>5. CASE node.kind # "literal" /\ f.phase = 0
    <3>1. \A b : Step(g, t, b) = Open(g, s, f.node, b)
      BY <2>1, <2>5 DEF Step
    <3>2. \E b \in Byte : Open(g, s, f.node, b) # {}
      BY <2>2, OpenGoesOn
    <3>. QED  BY <3>1, <3>2 DEF Onwards
  <2>6. CASE node.kind = "string" /\ f.phase # 0
    <3>1. \A b : Step(g, t, b) = StepString(s, f, b)
      BY <2>1, <2>6 DEF Step
    <3>2. f.phase \in {1, 2}
      BY <2>2, <2>6 DEF Place
    <3>3. f.phase = 1 => StepString(s, f, "'") = {s}
      BY DEF StepString
    <3>4. f.phase = 2 => StepString(s, f, "n") = With(s, f, 1, 0, 0)
      BY DEF StepString, Escapes
    <3>5. f.phase = 1 => Step(g, t, "'") # {}
      BY <3>1, <3>3
    <3>6. f.phase = 2 => Step(g, t, "n") # {}
      BY <3>1, <3>4 DEF With
    <3>. QED  BY <3>2, <3>5, <3>6, SomeBytes DEF Onwards
  <2>7. CASE node.kind = "number" /\ f.phase # 0
    <3>1. \A b : Step(g, t, b) = StepNumber(s, f, node, b)
                   \cup IF NumberCanStop(f.phase) THEN Follow(g, s, b) ELSE {}
      BY <2>1, <2>7 DEF Step
    <3>2. CASE f.phase # 3
      <4>1. NumberPhase(f.phase, "1", node.integer) # {}
        BY <2>2, <2>7, <3>2 DEF NumberPhase, Digit
      <4>2. StepNumber(s, f, node, "1") # {}
        BY <4>1 DEF StepNumber, With
      <4>. QED  BY <3>1, <4>2, SomeBytes DEF Onwards
    <3>3. CASE f.phase = 3 /\ s # Empty
      <4>1. \E b \in Byte : Follow(g, s, b) # {}
        BY <2>1, <3>3, FollowGoesOn
      <4>. QED  BY <3>1, <3>3, <4>1 DEF Onwards, NumberCanStop
    <3>4. CASE f.phase = 3 /\ s = Empty
      <4>1. Stops(node, f)
        BY <2>7, <3>4 DEF Stops, NumberCanStop
      <4>2. t = <<f>>
        BY <2>1, <3>4 DEF Push, Empty
      <4>. QED  BY <4>1, <4>2 DEF Complete, Stops
    <3>. QED  BY <3>2, <3>3, <3>4
  <2>8. CASE node.kind = "array" /\ f.phase = 1
    <3>1. \A b : Step(g, t, b) = StepArray(g, s, f, node, b)
      BY <2>1, <2>8 DEF Step
    <3>2. CASE f.i >= node.min
      <4>1. StepArray(g, s, f, node, "]") = {s}
        BY <3>2 DEF StepArray
      <4>. QED  BY <3>1, <4>1, SomeBytes DEF Onwards
    <3>3. CASE ~(f.i >= node.min)
      <4>1. node.max < 0 \/ node.min <= node.max
        BY <2>2, <2>8 DEF Passable
      <4>2. ~Full(node, f.i)
        BY <2>2, <2>3, <3>3, <4>1 DEF Full, Plan
      <4>3. \A b : StepArray(g, s, f, node, b) = Descend(g, s, f, 2, f.i + 1, node.item, b)
        BY <3>3, <4>2 DEF StepArray
      <4>4. node.item \in DOMAIN g
        BY <2>3, <2>8 DEF Plan
      <4>5. \E b \in Byte : Descend(g, s, f, 2, f.i + 1, node.item, b) # {}
        BY <4>4, OpenGoesOn DEF Descend
      <4>. QED  BY <3>1, <4>3, <4>5 DEF Onwards
    <3>. QED  BY <3>2, <3>3
  <2>9. CASE node.kind = "free" /\ f.phase \in {1, 3}
    <3>1. \A b : Step(g, t, b) = StepFree(g, s, f, node, b)
      BY <2>1, <2>9 DEF Step
    <3>2. node.values[1] \in DOMAIN g /\ node.values[2] \in DOMAIN g
      BY <2>3, <2>9 DEF Plan
    <3>3. CASE f.phase = 1 /\ f.i = 0
      <4>1. StepFree(g, s, f, node, "}") = {s}
        BY <3>3 DEF StepFree
      <4>. QED  BY <3>1, <4>1, SomeBytes DEF Onwards
    <3>4. CASE f.phase = 1 /\ f.i # 0
      <4>1. \A b : StepFree(g, s, f, node, b) = Descend(g, s, f, 2, f.i + 1, node.values[1], b)
        BY <3>4 DEF StepFree
      <4>2. \E b \in Byte : Descend(g, s, f, 2, f.i + 1, node.values[1], b) # {}
        BY <3>2, OpenGoesOn DEF Descend
      <4>. QED  BY <3>1, <4>1, <4>2 DEF Onwards
    <3>5. CASE f.phase = 3
      <4>1. \A b : StepFree(g, s, f, node, b) = Descend(g, s, f, 4, f.i, node.values[2], b)
        BY <3>5 DEF StepFree
      <4>2. \E b \in Byte : Descend(g, s, f, 4, f.i, node.values[2], b) # {}
        BY <3>2, OpenGoesOn DEF Descend
      <4>. QED  BY <3>1, <4>1, <4>2 DEF Onwards
    <3>. QED  BY <2>9, <3>3, <3>4, <3>5
  <2>10. CASE node.kind = "object" /\ f.phase \in {1, 2}
    <3>1. \A b : Step(g, t, b) = StepObject(s, f, node, b)
      BY <2>1, <2>10 DEF Step
    <3>2. f.i \in 1..Len(node.keys) /\ (f.phase = 2 => f.k < Size(node.keys[f.i]))
      BY <2>2, <2>10 DEF Place
    <3>. DEFINE key == node.keys[f.i]
    <3>3. key \in Text /\ Size(key) \in Nat /\ Size(key) >= 2
      BY <2>3, <2>10, <3>2, SizeIs DEF Plan
    <3>4. CASE f.phase = 1
      <4>1. key[1] \in Byte
        BY <3>3, ByteAt
      <4>2. f.i \in Candidates(node, f.i)
        BY <2>2, <3>2 DEF Candidates
      <4>3. StepObject(s, f, node, key[1]) # {}
        BY <3>4, <4>2 DEF StepObject, With
      <4>. QED  BY <3>1, <4>1, <4>3 DEF Onwards
    <3>5. CASE f.phase = 2
      <4>1. f.k + 1 \in 1..Size(key)
        BY <2>2, <3>2, <3>3, <3>5
      <4>2. key[f.k + 1] \in Byte
        BY <3>3, <4>1, ByteAt
      <4>3. StepObject(s, f, node, key[f.k + 1]) # {}
        <5>. DEFINE c == key[f.k + 1]
                    one == With(s, f, 2, f.i, f.k + 1)
                    two == {Append(Append(s, Frame(f.node, 3, f.i, 0)), Frame(node.values[f.i], 0, 0, 0))}
        <5>1. StepObject(s, f, node, c)
                = IF key[f.k + 1] # c THEN {} ELSE IF f.k + 1 < Len(key) THEN one ELSE two
          BY <3>5 DEF StepObject
        <5>2. one # {} /\ two # {}
          BY DEF With
        <5>. HIDE DEF one, two
        <5>. QED  BY <5>1, <5>2
      <4>. QED  BY <3>1, <4>2, <4>3 DEF Onwards
    <3>. QED  BY <2>10, <3>4, <3>5
  <2>11. CASE Waiting(g, f)
    <3>1. \A b : Step(g, t, b) = Follow(g, t, b)
      BY <2>1, <2>11 DEF Step, Waiting
    <3>2. Below(g, t)
      BY <2>1, <2>11, PushSound
    <3>3. \E b \in Byte : Follow(g, t, b) # {}
      BY <1>2, <3>2, FollowGoesOn
    <3>. QED  BY <3>1, <3>3 DEF Onwards
  <2>12. \/ node.kind = "literal"
         \/ node.kind # "literal" /\ f.phase = 0
         \/ node.kind = "string" /\ f.phase # 0
         \/ node.kind = "number" /\ f.phase # 0
         \/ node.kind = "array" /\ f.phase = 1
         \/ node.kind = "free" /\ f.phase \in {1, 3}
         \/ node.kind = "object" /\ f.phase \in {1, 2}
         \/ Waiting(g, f)
    BY <2>1, <2>2 DEF Place, Waiting
  <2>. QED  BY <2>4, <2>5, <2>6, <2>7, <2>8, <2>9, <2>10, <2>11, <2>12
<1>. QED  BY <1>1, <1>2

(* A byte that is a token by itself.                                       *)
LEMMA MaskGoesOn ==
  ASSUME NEW g, NEW L, Setting(g, L), Passable(g), \A b \in Byte : <<b>> \in Vocabulary,
         NEW T, AllSound(g, T), T # {}
  PROVE  MaskOf(g, T) # {}
<1>1. PICK t \in T : Sound(g, t)
  BY DEF AllSound
<1>2. CASE Complete(g, t)
  BY <1>2 DEF MaskOf, CanStop
<1>3. CASE Onwards(g, t)
  <2>1. PICK b \in Byte : Step(g, t, b) # {}
    BY <1>3 DEF Onwards
  <2>2. Advance(g, T, b) # {}
    BY <2>1 DEF Advance
  <2>. DEFINE piece == <<b>>
  <2>3. piece \in Text /\ Size(piece) = 1 /\ piece[1] = b /\ <<piece[1]>> = piece
    BY DEF Text, Size
  <2>. HIDE DEF piece
  <2>4. PICK h : Onto(g, T, piece, h) /\ After(g, T, piece) = h[Size(piece)]
    BY <2>3, AfterIs
  <2>5. h[1] = Advance(g, h[0], piece[1]) /\ h[0] = T
    BY <2>3, <2>4 DEF Onto
  <2>6. Allows(g, T, piece)
    BY <2>2, <2>3, <2>4, <2>5 DEF Allows
  <2>. QED  BY <2>3, <2>6 DEF MaskOf, piece
<1>. QED  BY <1>1, <1>2, <1>3, StackGoesOn

(* Where a reply goes on there is something to go on from.                 *)
LongEnough ==
  /\ phase # "idle" => (states # {} /\ code = "none")
  /\ code = "length" => ~(Size(text) < MaxText)

LEMMA LongKeeps ==
  ASSUME JsonAssumption, SpellableAssumption, IInv, LongEnough, [Next]_vars
  PROVE  LongEnough'
<1>1. CASE UNCHANGED vars
  BY <1>1 DEF vars, LongEnough
<1>2. ASSUME NEW s \in Schemas, Begin(s) PROVE LongEnough'
  BY <1>2 DEF Begin, LongEnough
<1>3. ASSUME NEW s \in Schemas, BeginRefused(s) PROVE LongEnough'
  BY <1>3 DEF BeginRefused, LongEnough
<1>4. CASE Score
  <2>1. phase = "scoring" /\ states # {} /\ code = "none" /\ UNCHANGED <<states, text>>
    BY <1>4 DEF Score, LongEnough
  <2>2. /\ Running(schema, nodes, states, text) /\ AllSound(nodes, states) /\ Cached(nodes, masks)
    BY <2>1 DEF IInv
  <2>3. Setting(nodes, Language[schema]) /\ Passable(nodes)
    BY <2>2, ReadyIs DEF Running, Ready, SpellableAssumption
  <2>4. MaskOf(nodes, states) # {}
    BY <2>1, <2>2, <2>3, MaskGoesOn DEF SpellableAssumption
  <2>. DEFINE found == IF states \in DOMAIN masks THEN masks[states] ELSE MaskOf(nodes, states)
  <2>5. found # {}
    BY <2>2, <2>4 DEF Cached
  <2>6. phase' = "sampling" /\ code' = code
    BY <1>4, <2>5 DEF Score
  <2>. QED  BY <2>1, <2>6 DEF LongEnough
<1>5. CASE End
  BY <1>5 DEF End, Return, LongEnough
<1>6. ASSUME NEW piece \in Vocabulary, Sample(piece) PROVE LongEnough'
  <2>1. phase = "sampling" /\ states # {} /\ code = "none"
    BY <1>6 DEF Sample, LongEnough
  <2>2. \/ states' = {} /\ phase' = "idle" /\ code' = "violates"
        \/ states' # {} /\ phase' = "scoring" /\ code' = code
        \/ phase' = "idle" /\ code' = "length" /\ ~(Size(text') < MaxText)
    BY <1>6 DEF Sample, Return, Size
  <2>. QED  BY <2>1, <2>2 DEF LongEnough
<1>. QED  BY <1>1, <1>2, <1>3, <1>4, <1>5, <1>6 DEF Next

(* plugin.cpp:484-486: where every byte can be sampled and nothing in the  *)
(* schema bars the way, a reply is never left with nothing that may        *)
(* follow: it goes on until it is long enough or has ended.                *)
THEOREM SomethingAlwaysFollows ==
  ASSUME JsonAssumption, SpellableAssumption
  PROVE  Spec => []NeverStuck
<1>1. Init => LongEnough
  BY DEF Init, LongEnough
<1>2. IInv /\ LongEnough /\ [Next]_vars => LongEnough'
  BY LongKeeps
<1>3. IInv /\ LongEnough => NeverStuck
  <2>. SUFFICES ASSUME IInv, LongEnough, code = "length" PROVE Len(text) >= MaxText
    BY DEF NeverStuck
  <2>1. Size(text) \in Nat /\ MaxText \in Nat /\ ~(Size(text) < MaxText)
    BY SizeIs DEF IInv, LongEnough, JsonAssumption
  <2>. QED  BY <2>1 DEF Size
<1>. QED  BY <1>1, <1>2, <1>3, Decoding, PTL DEF Spec

=============================================================================
