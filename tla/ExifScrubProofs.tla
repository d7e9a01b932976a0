-------------------------- MODULE ExifScrubProofs --------------------------
(***************************************************************************)
(* Scrub's invariant, for photos of every length and content: where a      *)
(* reader of a JPEG comes to, what appending bytes to one does to that,    *)
(* the steps of Scrub; and applyOrientation, for images of every size.     *)
(***************************************************************************)
EXTENDS ExifScrub, FiniteSetTheorems, SequenceTheorems, WellFoundedInduction, TLAPS

-----------------------------------------------------------------------------
(***************************************************************************)
(* Where a reader comes to                                                 *)
(***************************************************************************)
Bytes == Seq(0..255)

\* A set of positions that holds the first marker's and, with a marker's, the
\* position behind that marker.
closed(d, S) ==
  /\ 3 \in S
  /\ \A a \in S, c, b \in 3..Len(d) + 1 : isUnit(d, a, c, b) => b \in S

\* The definition of visits has a solution, so it defines one: the positions in
\* every closed set.
LEMMA VisitsDefined ==
  ASSUME NEW d \in Bytes, Len(d) >= 2
  PROVE  visits(d) = [b \in 3..Len(d) + 1 |->
                        b = 3 \/ \E a \in {a \in 3..b - 2 : d[a] = jpegMarkerByte} :
                                   /\ \E c \in a + 1..b - 1 : isUnit(d, a, c, b)
                                   /\ visits(d)[a]]
<1> DEFINE D == 3..Len(d) + 1
           Step(f, b) == b = 3 \/ \E a \in {a \in 3..b - 2 : d[a] = jpegMarkerByte} :
                                    /\ \E c \in a + 1..b - 1 : isUnit(d, a, c, b)
                                    /\ f[a]
           L == {p \in D : \A S \in SUBSET D : closed(d, S) => p \in S}
           F == [b \in D |-> b \in L]
<1>0. Len(d) \in Nat /\ d \in [1..Len(d) -> 0..255] /\ jpegMarkerByte = 255
  BY LenProperties DEF Bytes, jpegMarkerByte
<1>2. 3 \in L
  BY <1>0 DEF closed
<1>3. \A a \in L, c, b \in D : isUnit(d, a, c, b) => b \in L
  BY DEF closed
<1>4. ASSUME NEW b \in L, b # 3
      PROVE  \E a \in L, c \in D : isUnit(d, a, c, b)
  <2> SUFFICES ASSUME \A a \in L, c \in D : ~ isUnit(d, a, c, b) PROVE FALSE
    OBVIOUS
  <2>1. closed(d, L \ {b})
    BY <1>2, <1>3, <1>4 DEF closed
  <2>2. QED
    BY <2>1
<1>5. \A b \in D : (b \in L) = Step(F, b)
  <2> TAKE b \in D
  <2>1. ASSUME b \in L PROVE Step(F, b)
    <3>1. CASE b = 3
      BY <3>1
    <3>2. CASE b # 3
      <4>1. PICK a \in L, c \in D : isUnit(d, a, c, b)
        BY <1>4, <2>1, <3>2
      <4>2. a \in 3..b - 2 /\ c \in a + 1..b - 1 /\ d[a] = jpegMarkerByte
        BY <4>1, <1>0 DEF isUnit
      <4>3. F[a]
        OBVIOUS
      <4>4. QED
        BY <4>1, <4>2, <4>3
    <3>3. QED
      BY <3>1, <3>2
  <2>2. ASSUME Step(F, b) PROVE b \in L
    <3>1. CASE b = 3
      BY <3>1, <1>2
    <3>2. CASE b # 3
      <4>1. PICK a \in {a \in 3..b - 2 : d[a] = jpegMarkerByte} :
                   /\ \E c \in a + 1..b - 1 : isUnit(d, a, c, b)
                   /\ F[a]
        BY <2>2, <3>2
      <4>2. PICK c \in a + 1..b - 1 : isUnit(d, a, c, b)
        BY <4>1
      <4>3. a \in D /\ c \in D
        BY <1>0
      <4>4. a \in L
        BY <4>1, <4>3
      <4>5. QED
        BY <1>3, <4>2, <4>3, <4>4
    <3>3. QED
      BY <3>1, <3>2
  <2> HIDE DEF L, D, F
  <2>3. QED
    BY <2>1, <2>2
<1>6. F = [b \in D |-> Step(F, b)]
  <2>1. F = [b \in D |-> b \in L]
    OBVIOUS
  <2> HIDE DEF Step, L, D, F
  <2>2. QED
    BY <1>5, <2>1
<1>7. visits(d) = CHOOSE f : f = [b \in D |-> Step(f, b)]
  BY DEF visits
<1>8. visits(d) = [b \in D |-> Step(visits(d), b)]
  <2> HIDE DEF F, Step, D
  <2>1. \E f : f = [b \in D |-> Step(f, b)]
    BY <1>6
  <2>2. QED
    BY <2>1, <1>7
<1>9. QED
  BY <1>8

\* The positions a reader comes to.
visited(d) == {p \in 3..Len(d) + 1 : reached(d, p)}

LEMMA VisitedStep ==
  ASSUME NEW d \in Bytes, Len(d) >= 2, NEW b \in 3..Len(d) + 1
  PROVE  /\ b = 3 => b \in visited(d)
         /\ \A a \in visited(d), c \in Int : isUnit(d, a, c, b) => b \in visited(d)
         /\ b \in visited(d) /\ b # 3 =>
              \E a \in visited(d), c \in Int : isUnit(d, a, c, b)
<1>0. Len(d) \in Nat /\ jpegMarkerByte = 255
  BY LenProperties DEF Bytes, jpegMarkerByte
<1>1. reached(d, b) <=>
        b = 3 \/ \E a \in {a \in 3..b - 2 : d[a] = jpegMarkerByte} :
                   /\ \E c \in a + 1..b - 1 : isUnit(d, a, c, b)
                   /\ reached(d, a)
  BY VisitsDefined, Zenon DEF reached
<1>2. ASSUME NEW a \in 3..Len(d) + 1, NEW c \in Int, isUnit(d, a, c, b)
      PROVE  a \in 3..b - 2 /\ c \in a + 1..b - 1 /\ d[a] = jpegMarkerByte
  BY <1>0, <1>2 DEF isUnit
<1>3. b = 3 => b \in visited(d)
  BY <1>1 DEF visited
<1>4. ASSUME NEW a \in visited(d), NEW c \in Int, isUnit(d, a, c, b)
      PROVE  b \in visited(d)
  <2>1. a \in 3..Len(d) + 1 /\ reached(d, a)
    BY DEF visited
  <2>2. QED
    BY <1>1, <1>2, <1>4, <2>1 DEF visited
<1>5. ASSUME b \in visited(d), b # 3
      PROVE  \E a \in visited(d), c \in Int : isUnit(d, a, c, b)
  <2>1. PICK a \in {a \in 3..b - 2 : d[a] = jpegMarkerByte} :
                /\ \E c \in a + 1..b - 1 : isUnit(d, a, c, b)
                /\ reached(d, a)
    BY <1>1, <1>5 DEF visited
  <2>2. PICK c \in a + 1..b - 1 : isUnit(d, a, c, b)
    BY <2>1
  <2>3. a \in visited(d) /\ c \in Int
    BY <2>1, <1>0 DEF visited
  <2>4. QED
    BY <2>2, <2>3
<1>6. QED
  BY <1>3, <1>4, <1>5

\* No closed set leaves out a position that is visited.
LEMMA VisitedIsLeast ==
  ASSUME NEW d \in Bytes, Len(d) >= 2, NEW S, closed(d, S)
  PROVE  visited(d) \subseteq S
<1> DEFINE T == visited(d) \ S
<1>0. Len(d) \in Nat
  BY LenProperties DEF Bytes
<1> SUFFICES ASSUME T # {} PROVE FALSE
  OBVIOUS
<1>1. T \subseteq Nat
  BY <1>0 DEF visited
<1>2. PICK b \in T : \A a \in T : ~ (<<a, b>> \in OpToRel(<, Nat))
  BY <1>1, NatLessThanWellFounded, WFMin
<1>3. b \in 3..Len(d) + 1 /\ b # 3
  BY DEF visited, closed
<1>4. PICK a \in visited(d), c \in Int : isUnit(d, a, c, b)
  BY <1>3, VisitedStep
<1>5. a < b /\ a \in Nat /\ c \in 3..Len(d) + 1
  BY <1>0, <1>3, <1>4 DEF isUnit, visited
<1>6. a \in S
  BY <1>1, <1>2, <1>5 DEF OpToRel
<1>7. QED
  BY <1>3, <1>4, <1>5, <1>6 DEF closed

-----------------------------------------------------------------------------
(***************************************************************************)
(* What is a marker depends on its bytes alone                             *)
(***************************************************************************)
LEMMA ByteIsInt ==
  ASSUME NEW d \in Bytes, NEW p \in 1..Len(d)
  PROVE  d[p] \in Int
<1>1. PICK x \in 0..255 : x = d[p]
  BY ElementOfSeq DEF Bytes
<1>2. x \in Int
  OBVIOUS
<1>3. QED
  BY <1>1, <1>2

LEMMA UnitIsUnique ==
  ASSUME NEW d, NEW a \in Int, NEW c \in Int, NEW b \in Int, isUnit(d, a, c, b),
         NEW c2 \in Int, NEW b2 \in Int, isUnit(d, a, c2, b2)
  PROVE  c = c2 /\ b = b2
<1>1. ~ (c < c2) /\ ~ (c2 < c)
  BY DEF isUnit
<1>2. c = c2
  BY <1>1
<1>3. QED
  BY <1>2 DEF isUnit

\* The marker is an EXIF segment.
isExif(d, a, c, b) ==
  isUnit(d, a, c, b) /\ isExifAPP1(d[c], SubSeq(d, c + 3, b - 1))

\* Whether some bytes are a marker, and an EXIF segment, depends on them alone.
LEMMA UnitMoves ==
  ASSUME NEW d \in Bytes, NEW e \in Bytes, NEW k \in Int,
         NEW a \in Int, NEW c \in Int, NEW b \in Int,
         a >= 1, b + k <= Len(e) + 1, a + k >= 1,
         \A p \in a..b - 1 : d[p] = e[p + k],
         isUnit(d, a, c, b)
  PROVE  /\ isUnit(e, a + k, c + k, b + k)
         /\ isExif(d, a, c, b) => isExif(e, a + k, c + k, b + k)
<1>0. Len(d) \in Nat /\ Len(e) \in Nat
  BY LenProperties DEF Bytes
<1>1. a < c /\ c < b /\ b <= Len(d) + 1
  BY DEF isUnit
<1>2. d[c] = e[c + k]
  BY <1>1
<1>3. \A f \in a + k..c + k - 1 : e[f] = jpegMarkerByte
  <2> TAKE f \in a + k..c + k - 1
  <2>1. f - k \in a..c - 1 /\ f - k \in a..b - 1 /\ (f - k) + k = f
    BY <1>1
  <2>2. d[f - k] = jpegMarkerByte
    BY <2>1 DEF isUnit
  <2>3. QED
    BY <2>1, <2>2
<1>4. c + 3 <= b => d[c + 1] = e[(c + k) + 1] /\ d[c + 2] = e[(c + k) + 2]
  <2> HAVE c + 3 <= b
  <2>1. c + 1 \in a..b - 1 /\ c + 2 \in a..b - 1
    BY <1>1
  <2>2. (c + 1) + k = (c + k) + 1 /\ (c + 2) + k = (c + k) + 2
    OBVIOUS
  <2>3. QED
    BY <2>1, <2>2
<1>5. isUnit(e, a + k, c + k, b + k)
  <2>1. CASE d[c] \in {jpegTEMMarker} \cup jpegRestart
    BY <2>1, <1>1, <1>2, <1>3 DEF isUnit
  <2>2. CASE d[c] \notin {jpegTEMMarker} \cup jpegRestart
    <3>1. c + 3 <= b /\ b = c + 1 + 256 * d[c + 1] + d[c + 2]
      BY <2>2 DEF isUnit
    <3>2. PICK x \in Int, y \in Int : x = d[c + 1] /\ y = d[c + 2]
      <4>1. c + 3 <= b
        BY <3>1
      <4>2. c + 1 \in 1..Len(d) /\ c + 2 \in 1..Len(d)
        BY <1>0, <1>1, <4>1
      <4>3. QED
        BY <4>2, ByteIsInt
    <3>3. c + k + 3 <= b + k /\ b + k = c + k + 1 + 256 * d[c + 1] + d[c + 2]
      <4>1. b = c + 1 + 256 * x + y
        BY <3>1, <3>2
      <4>2. b + k = c + k + 1 + 256 * x + y
        BY <4>1
      <4>3. QED
        BY <3>1, <3>2, <4>2
    <3>4. QED
      BY <1>1, <1>2, <1>3, <1>4, <2>2, <3>1, <3>3 DEF isUnit
  <2>3. QED
    BY <2>1, <2>2
<1>6. SubSeq(d, c + 3, b - 1) = SubSeq(e, (c + k) + 3, (b + k) - 1)
  <2>1. SubSeq(d, c + 3, b - 1) = [p \in 1..b - 1 - (c + 3) + 1 |-> d[p + (c + 3) - 1]]
    OBVIOUS
  <2>2. SubSeq(e, (c + k) + 3, (b + k) - 1)
          = [p \in 1..(b + k) - 1 - ((c + k) + 3) + 1 |-> e[p + ((c + k) + 3) - 1]]
    OBVIOUS
  <2>3. b - 1 - (c + 3) + 1 = (b + k) - 1 - ((c + k) + 3) + 1
    OBVIOUS
  <2>4. \A p \in 1..b - 1 - (c + 3) + 1 : d[p + (c + 3) - 1] = e[p + ((c + k) + 3) - 1]
    <3> TAKE p \in 1..b - 1 - (c + 3) + 1
    <3>1. p + (c + 3) - 1 \in a..b - 1 /\ (p + (c + 3) - 1) + k = p + ((c + k) + 3) - 1
      BY <1>1
    <3>2. QED
      BY <3>1
  <2>5. QED
    BY <2>1, <2>2, <2>3, <2>4
<1>7. QED
  BY <1>2, <1>5, <1>6 DEF isExif

LEMMA ExifByte ==
  ASSUME NEW d \in Bytes, NEW x
  PROVE  x \in exifBytes(d) <=>
           \E a \in visited(d), c, b \in Int : isExif(d, a, c, b) /\ x \in a..b - 1
<1> DEFINE at(byte) == {p \in 3..Len(d) : d[p] = byte}
           E == {u \in at(jpegMarkerByte) \X at(jpegAPP1Marker) \X (4..Len(d) + 1) :
                   /\ isUnit(d, u[1], u[2], u[3])
                   /\ isExifAPP1(jpegAPP1Marker, SubSeq(d, u[2] + 3, u[3] - 1))
                   /\ reached(d, u[1])}
<1>0. Len(d) \in Nat
  BY LenProperties DEF Bytes
<1>1. exifBytes(d) = UNION {u[1]..u[3] - 1 : u \in E}
  BY DEF exifBytes
<1>2. ASSUME x \in exifBytes(d)
      PROVE  \E a \in visited(d), c, b \in Int : isExif(d, a, c, b) /\ x \in a..b - 1
  <2>1. PICK u \in E : x \in u[1]..u[3] - 1
    BY <1>1, <1>2
  <2>2. /\ u[1] \in 3..Len(d) /\ u[2] \in Int /\ u[3] \in Int /\ d[u[2]] = jpegAPP1Marker
        /\ isUnit(d, u[1], u[2], u[3])
        /\ isExifAPP1(jpegAPP1Marker, SubSeq(d, u[2] + 3, u[3] - 1))
        /\ reached(d, u[1])
    BY <1>0
  <2>3. u[1] \in visited(d)
    BY <1>0, <2>2 DEF visited
  <2>4. isExif(d, u[1], u[2], u[3])
    BY <2>2 DEF isExif
  <2>5. QED
    BY <2>1, <2>2, <2>3, <2>4
<1>3. ASSUME NEW a \in visited(d), NEW c \in Int, NEW b \in Int,
             isExif(d, a, c, b), x \in a..b - 1
      PROVE  x \in exifBytes(d)
  <2>1. isUnit(d, a, c, b) /\ isExifAPP1(d[c], SubSeq(d, c + 3, b - 1))
    BY <1>3 DEF isExif
  <2>2. d[c] = jpegAPP1Marker
    BY <2>1 DEF isExifAPP1
  <2>3. a \in at(jpegMarkerByte) /\ c \in at(jpegAPP1Marker) /\ b \in 4..Len(d) + 1
    BY <1>0, <2>1, <2>2 DEF isUnit, visited
  <2>4. <<a, c, b>> \in E
    BY <2>1, <2>2, <2>3 DEF visited
  <2>5. QED
    BY <1>1, <1>3, <2>4
<1>4. QED
  BY <1>2, <1>3

LEMMA Joined ==
  ASSUME NEW d \in Bytes, NEW e \in Bytes
  PROVE  /\ d \o e \in Bytes
         /\ Len(d) \in Nat /\ Len(e) \in Nat /\ Len(d \o e) = Len(d) + Len(e)
         /\ \A p \in 1..Len(d) : (d \o e)[p] = d[p]
         /\ \A p \in 1..Len(e) : (d \o e)[Len(d) + p] = e[p]
<1>1. d \in Seq(0..255) /\ e \in Seq(0..255)
  BY DEF Bytes
<1>2. d \o e \in Bytes
  BY <1>1, ConcatProperties DEF Bytes
<1>3. Len(d) \in Nat /\ Len(e) \in Nat /\ Len(d \o e) = Len(d) + Len(e)
  BY <1>1, LenProperties, ConcatProperties
<1>4. \A p \in 1..Len(d) : (d \o e)[p] = d[p]
  BY <1>1, <1>3, ConcatProperties
<1>5. \A p \in 1..Len(e) : (d \o e)[Len(d) + p] = e[p]
  <2> TAKE p \in 1..Len(e)
  <2>1. Len(d) + p \in 1..Len(d) + Len(e) /\ ~ (Len(d) + p <= Len(d)) /\ Len(d) + p - Len(d) = p
    BY <1>3
  <2>2. QED
    BY <1>1, <2>1, ConcatProperties
<1>6. QED
  BY <1>2, <1>3, <1>4, <1>5

\* A marker of d is one of d \o e, and the other way round.
LEMMA UnitOfPrefix ==
  ASSUME NEW d \in Bytes, NEW e \in Bytes, NEW a \in Int, NEW c \in Int, NEW b \in Int,
         a >= 1, b <= Len(d) + 1
  PROVE  /\ isUnit(d, a, c, b) <=> isUnit(d \o e, a, c, b)
         /\ isExif(d, a, c, b) <=> isExif(d \o e, a, c, b)
<1>0. PICK k \in Int : k = 0
  OBVIOUS
<1>1. /\ d \o e \in Bytes /\ b + k <= Len(d) + 1 /\ b + k <= Len(d \o e) + 1 /\ a + k >= 1
      /\ a + k = a /\ c + k = c /\ b + k = b
  <2>1. d \o e \in Bytes /\ Len(d) \in Nat /\ Len(e) \in Nat /\ Len(d \o e) = Len(d) + Len(e)
    BY Joined
  <2>2. a + k = a /\ c + k = c /\ b + k = b
    BY <1>0
  <2>3. b <= Len(d \o e) + 1
    BY <2>1
  <2>4. QED
    BY <2>1, <2>2, <2>3
<1>2. \A p \in a..b - 1 : d[p] = (d \o e)[p + k] /\ (d \o e)[p] = d[p + k]
  <2> TAKE p \in a..b - 1
  <2>1. p \in 1..Len(d) /\ p + k = p
    BY <1>0, Joined
  <2>2. (d \o e)[p] = d[p]
    BY <2>1, Joined
  <2>3. QED
    BY <2>1, <2>2
<1>3. isUnit(d, a, c, b) =>
        /\ isUnit(d \o e, a + k, c + k, b + k)
        /\ isExif(d, a, c, b) => isExif(d \o e, a + k, c + k, b + k)
  BY <1>1, <1>2, UnitMoves
<1>4. isUnit(d \o e, a, c, b) =>
        /\ isUnit(d, a + k, c + k, b + k)
        /\ isExif(d \o e, a, c, b) => isExif(d, a + k, c + k, b + k)
  BY <1>1, <1>2, UnitMoves
<1>5. QED
  BY <1>1, <1>3, <1>4 DEF isExif

\* A marker of e is one of d \o e, as far on as d is long.
LEMMA UnitOfSuffix ==
  ASSUME NEW d \in Bytes, NEW e \in Bytes, NEW a \in Int, NEW c \in Int, NEW b \in Int,
         a >= 1
  PROVE  /\ isUnit(e, a, c, b) <=> isUnit(d \o e, Len(d) + a, Len(d) + c, Len(d) + b)
         /\ isExif(e, a, c, b) <=> isExif(d \o e, Len(d) + a, Len(d) + c, Len(d) + b)
<1> DEFINE n == Len(d)
<1>1. /\ d \o e \in Bytes /\ n \in Nat /\ n \in Int /\ -n \in Int /\ Len(e) \in Nat
      /\ Len(d \o e) = n + Len(e)
  BY Joined
<1>2. a + n >= 1 /\ a + n = n + a /\ c + n = n + c /\ b + n = n + b
  BY <1>1
<1>3. ASSUME isUnit(e, a, c, b)
      PROVE  /\ isUnit(d \o e, n + a, n + c, n + b)
             /\ isExif(e, a, c, b) => isExif(d \o e, n + a, n + c, n + b)
  <2>1. b <= Len(e) + 1
    BY <1>3 DEF isUnit
  <2>2. \A p \in a..b - 1 : e[p] = (d \o e)[p + n]
    <3> TAKE p \in a..b - 1
    <3>1. p \in 1..Len(e) /\ p + n = n + p
      BY <1>1, <2>1
    <3>2. QED
      BY <3>1, Joined
  <2>3. b + n <= Len(d \o e) + 1
    BY <1>1, <2>1
  <2> HIDE DEF n
  <2>4. QED
    BY <1>1, <1>2, <1>3, <2>2, <2>3, UnitMoves
<1>4. ASSUME isUnit(d \o e, n + a, n + c, n + b)
      PROVE  /\ isUnit(e, a, c, b)
             /\ isExif(d \o e, n + a, n + c, n + b) => isExif(e, a, c, b)
  <2>1. n + b <= Len(d \o e) + 1
    BY <1>4 DEF isUnit
  <2>2. b <= Len(e) + 1
    BY <1>1, <2>1
  <2> DEFINE k == -n
  <2>3. \A p \in n + a..(n + b) - 1 : (d \o e)[p] = e[p + k]
    <3> TAKE p \in n + a..(n + b) - 1
    <3>1. p + k \in 1..Len(e) /\ n + (p + k) = p
      <4> HIDE DEF n
      <4>1. QED
        BY <1>1, <2>2
    <3>2. (d \o e)[n + (p + k)] = e[p + k]
      BY <3>1, Joined
    <3>3. QED
      BY <3>1, <3>2
  <2>4. /\ (n + a) + k = a /\ (n + c) + k = c /\ (n + b) + k = b /\ k \in Int
        /\ n + a >= 1 /\ n + a \in Int /\ n + c \in Int /\ n + b \in Int
    BY <1>1
  <2> HIDE DEF n, k
  <2>5. /\ isUnit(e, (n + a) + k, (n + c) + k, (n + b) + k)
        /\ isExif(d \o e, n + a, n + c, n + b) =>
             isExif(e, (n + a) + k, (n + c) + k, (n + b) + k)
    BY <1>1, <1>4, <2>2, <2>3, <2>4, UnitMoves
  <2>6. QED
    BY <2>4, <2>5
<1>5. QED
  BY <1>3, <1>4 DEF isExif

-----------------------------------------------------------------------------
(***************************************************************************)
(* Appending to a sequence of markers: one more, or what is none           *)
(***************************************************************************)
\* What a reader of d \o e comes to up to the end of d, it comes to in d.
LEMMA VisitedOfPrefix ==
  ASSUME NEW d \in Bytes, NEW e \in Bytes, Len(d) >= 2
  PROVE  \A p \in 3..Len(d) + 1 : p \in visited(d) <=> p \in visited(d \o e)
<1>1. d \o e \in Bytes /\ Len(d) \in Nat /\ Len(e) \in Nat /\ Len(d \o e) = Len(d) + Len(e)
  BY Joined
<1>2. closed(d, visited(d \o e))
  <2>1. 3 \in visited(d \o e)
    <3>1. Len(d \o e) >= 2 /\ 3 \in 3..Len(d \o e) + 1
      BY <1>1
    <3>2. QED
      BY <1>1, <3>1, VisitedStep
  <2>2. ASSUME NEW a \in visited(d \o e), NEW c \in 3..Len(d) + 1, NEW b \in 3..Len(d) + 1,
               isUnit(d, a, c, b)
        PROVE  b \in visited(d \o e)
    <3>1. a \in Int /\ a >= 1 /\ c \in Int /\ b \in Int /\ b <= Len(d) + 1
      BY <1>1 DEF visited
    <3>2. isUnit(d \o e, a, c, b)
      BY <2>2, <3>1, UnitOfPrefix
    <3>3. b \in 3..Len(d \o e) + 1 /\ Len(d \o e) >= 2
      BY <1>1
    <3>4. QED
      BY <1>1, <3>1, <3>2, <3>3, VisitedStep
  <2>3. QED
    BY <2>1, <2>2 DEF closed
<1>3. visited(d) \subseteq visited(d \o e)
  BY <1>2, VisitedIsLeast
<1> DEFINE S == visited(d) \cup {p \in Int : p > Len(d) + 1}
<1>4. closed(d \o e, S)
  <2>1. 3 \in S
    BY <1>1, VisitedStep
  <2>2. ASSUME NEW a \in S, NEW c \in 3..Len(d \o e) + 1, NEW b \in 3..Len(d \o e) + 1,
               isUnit(d \o e, a, c, b)
        PROVE  b \in S
    <3>1. a \in Int /\ a >= 1 /\ c \in Int /\ b \in Int /\ a < b
      BY <1>1, <2>2 DEF visited, isUnit
    <3>2. CASE b > Len(d) + 1
      BY <3>1, <3>2
    <3>3. CASE b <= Len(d) + 1
      <4>1. isUnit(d, a, c, b)
        BY <2>2, <3>1, <3>3, UnitOfPrefix
      <4>2. a \in visited(d)
        BY <1>1, <3>1, <3>3
      <4>3. b \in 3..Len(d) + 1
        BY <1>1, <3>3
      <4>4. QED
        BY <3>1, <4>1, <4>2, <4>3, VisitedStep
    <3>4. QED
      BY <1>1, <3>1, <3>2, <3>3
  <2> HIDE DEF S
  <2>3. QED
    BY <2>1, <2>2 DEF closed
<1>5. visited(d \o e) \subseteq S
  <2> HIDE DEF S
  <2>1. Len(d \o e) >= 2
    BY <1>1
  <2>2. QED
    BY <1>1, <1>4, <2>1, VisitedIsLeast
<1>6. QED
  BY <1>1, <1>3, <1>5

\* Every marker of d that a reader comes to is one of d \o e.
LEMMA WholeUnit ==
  ASSUME NEW d \in Bytes, whole(d), NEW a \in visited(d), a # Len(d) + 1
  PROVE  \E c, b \in Int : isUnit(d, a, c, b) /\ b \in visited(d) /\ b <= Len(d) + 1
<1>1. Len(d) \in Nat
  BY LenProperties DEF Bytes
<1>2. a \in 3..Len(d) /\ reached(d, a)
  BY <1>1 DEF visited
<1>3. PICK c \in a + 1..Len(d) + 1, b \in a + 1..Len(d) + 1 : isUnit(d, a, c, b)
  BY <1>2 DEF whole
<1>4. c \in Int /\ b \in 3..Len(d) + 1 /\ b \in Int /\ b <= Len(d) + 1 /\ Len(d) >= 2
  BY <1>1, <1>2
<1>5. QED
  BY <1>3, <1>4, VisitedStep

\* If d is whole and no marker follows it in d \o e, a reader stops behind d.
LEMMA VisitedAtEnd ==
  ASSUME NEW d \in Bytes, NEW e \in Bytes, Len(d) >= 2, whole(d),
         \A c, b \in Int : ~ isUnit(e, 1, c, b)
  PROVE  visited(d \o e) = visited(d)
<1>1. d \o e \in Bytes /\ Len(d) \in Nat /\ Len(e) \in Nat /\ Len(d \o e) = Len(d) + Len(e)
  BY Joined
<1>2. closed(d \o e, visited(d))
  <2>1. 3 \in visited(d)
    BY <1>1, VisitedStep
  <2>2. ASSUME NEW a \in visited(d), NEW c \in 3..Len(d \o e) + 1,
               NEW b \in 3..Len(d \o e) + 1, isUnit(d \o e, a, c, b)
        PROVE  b \in visited(d)
    <3>1. a \in Int /\ a >= 1 /\ c \in Int /\ b \in Int
      BY <1>1 DEF visited
    <3>2. CASE a = Len(d) + 1
      <4>1. c - Len(d) \in Int /\ b - Len(d) \in Int
            /\ Len(d) + (c - Len(d)) = c /\ Len(d) + (b - Len(d)) = b
        BY <1>1, <3>1
      <4>2. isUnit(e, 1, c - Len(d), b - Len(d))
        BY <2>2, <3>2, <4>1, UnitOfSuffix
      <4>3. QED
        BY <4>1, <4>2
    <3>3. CASE a # Len(d) + 1
      <4>1. PICK c1 \in Int, b1 \in Int :
              isUnit(d, a, c1, b1) /\ b1 \in visited(d) /\ b1 <= Len(d) + 1
        BY <3>3, WholeUnit
      <4>2. isUnit(d \o e, a, c1, b1)
        BY <3>1, <4>1, UnitOfPrefix
      <4>3. b = b1
        BY <2>2, <3>1, <4>2, UnitIsUnique
      <4>4. QED
        BY <4>1, <4>3
    <3>4. QED
      BY <3>2, <3>3
  <2>3. QED
    BY <2>1, <2>2 DEF closed
<1>3. visited(d \o e) \subseteq visited(d)
  <2>1. Len(d \o e) >= 2
    BY <1>1
  <2>2. QED
    BY <1>1, <1>2, <2>1, VisitedIsLeast
<1>4. QED
  BY <1>3, VisitedOfPrefix DEF visited

LEMMA ExifOfPrefix ==
  ASSUME NEW d \in Bytes, NEW e \in Bytes, whole(d), NEW a \in visited(d), a # Len(d) + 1,
         NEW c \in Int, NEW b \in Int
  PROVE  isExif(d, a, c, b) <=> isExif(d \o e, a, c, b)
<1>1. Len(d) \in Nat /\ a \in Int /\ a >= 1
  BY Joined DEF visited
<1>2. PICK c1 \in Int, b1 \in Int : isUnit(d, a, c1, b1) /\ b1 <= Len(d) + 1
  BY WholeUnit
<1>3. isUnit(d \o e, a, c1, b1)
  BY <1>1, <1>2, UnitOfPrefix
<1>4. isExif(d, a, c, b) => c = c1 /\ b = b1
  BY <1>1, <1>2, UnitIsUnique DEF isExif
<1>5. isExif(d \o e, a, c, b) => c = c1 /\ b = b1
  BY <1>1, <1>3, UnitIsUnique DEF isExif
<1>6. isExif(d, a, c1, b1) <=> isExif(d \o e, a, c1, b1)
  BY <1>1, <1>2, UnitOfPrefix
<1>7. QED
  BY <1>4, <1>5, <1>6

\* Nothing starts behind the last byte.
LEMMA NoUnitAtEnd ==
  ASSUME NEW d \in Bytes, NEW c \in Int, NEW b \in Int
  PROVE  ~ isUnit(d, Len(d) + 1, c, b)
<1>1. Len(d) \in Nat
  BY LenProperties DEF Bytes
<1>2. QED
  BY <1>1 DEF isUnit

LEMMA ExifAtEnd ==
  ASSUME NEW d \in Bytes, NEW e \in Bytes, Len(d) >= 2, whole(d),
         \A c, b \in Int : ~ isUnit(e, 1, c, b)
  PROVE  exifBytes(d \o e) = exifBytes(d)
<1>1. d \o e \in Bytes /\ Len(d) \in Nat
  BY Joined
<1>2. visited(d \o e) = visited(d)
  BY VisitedAtEnd
<1>3. ASSUME NEW a \in visited(d), NEW c \in Int, NEW b \in Int
      PROVE  isExif(d, a, c, b) <=> isExif(d \o e, a, c, b)
  <2>1. CASE a # Len(d) + 1
    BY <2>1, ExifOfPrefix
  <2>2. CASE a = Len(d) + 1
    <3>1. ~ isUnit(d, a, c, b)
      BY <2>2, NoUnitAtEnd
    <3>2. ~ isUnit(d \o e, a, c, b)
      <4>1. c - Len(d) \in Int /\ b - Len(d) \in Int
            /\ Len(d) + (c - Len(d)) = c /\ Len(d) + (b - Len(d)) = b
        BY <1>1
      <4>2. isUnit(e, 1, c - Len(d), b - Len(d)) <=> isUnit(d \o e, Len(d) + 1, c, b)
        BY <4>1, UnitOfSuffix
      <4>3. QED
        BY <2>2, <4>1, <4>2
    <3>3. QED
      BY <3>1, <3>2 DEF isExif
  <2>3. QED
    BY <2>1, <2>2
<1>4. ASSUME NEW x PROVE x \in exifBytes(d \o e) <=> x \in exifBytes(d)
  BY <1>1, <1>2, <1>3, ExifByte
<1>5. QED
  BY <1>4

\* A marker appended to a d that is whole: a reader comes to its end.
LEMMA VisitedPastUnit ==
  ASSUME NEW d \in Bytes, NEW e \in Bytes, Len(d) >= 2, whole(d),
         NEW c0 \in Int, isUnit(e, 1, c0, Len(e) + 1)
  PROVE  /\ Len(d) + 1 \in visited(d)
         /\ isUnit(d \o e, Len(d) + 1, Len(d) + c0, Len(d \o e) + 1)
         /\ visited(d \o e) = visited(d) \cup {Len(d \o e) + 1}
<1> DEFINE n == Len(d) + 1
           m == Len(d \o e) + 1
<1>1. d \o e \in Bytes /\ Len(d) \in Nat /\ Len(e) \in Nat /\ Len(d \o e) = Len(d) + Len(e)
  BY Joined
<1>2. n \in visited(d)
  BY <1>1 DEF whole, visited
<1>3. isUnit(d \o e, n, Len(d) + c0, m)
  <2>1. Len(e) + 1 \in Int /\ Len(d) + (Len(e) + 1) = m
    BY <1>1
  <2>2. isUnit(d \o e, Len(d) + 1, Len(d) + c0, Len(d) + (Len(e) + 1))
    BY <2>1, UnitOfSuffix
  <2>3. QED
    BY <2>1, <2>2
<1>4. m \in 3..Len(d \o e) + 1 /\ Len(d \o e) >= 2 /\ n \in Int /\ m \in Int /\ Len(d) + c0 \in Int
  BY <1>1
<1>5. visited(d) \subseteq visited(d \o e)
  BY VisitedOfPrefix DEF visited
<1>6. m \in visited(d \o e)
  BY <1>1, <1>2, <1>3, <1>4, <1>5, VisitedStep
<1>7. closed(d \o e, visited(d) \cup {m})
  <2>1. 3 \in visited(d)
    BY <1>1, VisitedStep
  <2>2. ASSUME NEW a \in visited(d) \cup {m}, NEW c \in 3..Len(d \o e) + 1,
               NEW b \in 3..Len(d \o e) + 1, isUnit(d \o e, a, c, b)
        PROVE  b \in visited(d) \cup {m}
    <3>1. a \in Int /\ a >= 1 /\ c \in Int /\ b \in Int
      BY <1>1, <1>4 DEF visited
    <3>2. CASE a = m
      BY <1>1, <2>2, <3>1, <3>2, NoUnitAtEnd
    <3>3. CASE a = n
      BY <1>3, <1>4, <2>2, <3>1, <3>3, UnitIsUnique
    <3>4. CASE a # n /\ a # m
      <4>1. PICK c1 \in Int, b1 \in Int :
              isUnit(d, a, c1, b1) /\ b1 \in visited(d) /\ b1 <= Len(d) + 1
        BY <3>4, WholeUnit
      <4>2. isUnit(d \o e, a, c1, b1)
        BY <3>1, <4>1, UnitOfPrefix
      <4>3. b = b1
        BY <2>2, <3>1, <4>2, UnitIsUnique
      <4>4. QED
        BY <4>1, <4>3
    <3>5. QED
      BY <3>2, <3>3, <3>4
  <2> HIDE DEF m
  <2>3. QED
    BY <2>1, <2>2 DEF closed
<1>8. visited(d \o e) \subseteq visited(d) \cup {m}
  <2> HIDE DEF m
  <2>1. QED
    BY <1>1, <1>4, <1>7, VisitedIsLeast
<1>9. QED
  BY <1>2, <1>3, <1>5, <1>6, <1>8

LEMMA WholePastUnit ==
  ASSUME NEW d \in Bytes, NEW e \in Bytes, Len(d) >= 2, whole(d),
         NEW c0 \in Int, isUnit(e, 1, c0, Len(e) + 1)
  PROVE  whole(d \o e)
<1>1. d \o e \in Bytes /\ Len(d) \in Nat /\ Len(e) \in Nat /\ Len(d \o e) = Len(d) + Len(e)
  BY Joined
<1>2. /\ isUnit(d \o e, Len(d) + 1, Len(d) + c0, Len(d \o e) + 1)
      /\ visited(d \o e) = visited(d) \cup {Len(d \o e) + 1}
  BY VisitedPastUnit
<1>3. reached(d \o e, Len(d \o e) + 1)
  BY <1>2 DEF visited
<1>4. ASSUME NEW a \in 3..Len(d \o e), reached(d \o e, a)
      PROVE  \E c, b \in a + 1..Len(d \o e) + 1 : isUnit(d \o e, a, c, b)
  <2>1. a \in Int /\ a >= 1 /\ a \in visited(d)
    BY <1>1, <1>2, <1>4 DEF visited
  <2>2. PICK c \in Int, b \in Int : isUnit(d \o e, a, c, b)
    <3>1. CASE a = Len(d) + 1
      <4>1. Len(d) + c0 \in Int /\ Len(d \o e) + 1 \in Int
        BY <1>1
      <4>2. QED
        BY <1>2, <3>1, <4>1
    <3>2. CASE a # Len(d) + 1
      <4>1. PICK c1 \in Int, b1 \in Int : isUnit(d, a, c1, b1) /\ b1 <= Len(d) + 1
        BY <2>1, <3>2, WholeUnit
      <4>2. isUnit(d \o e, a, c1, b1)
        BY <2>1, <4>1, UnitOfPrefix
      <4>3. QED
        BY <4>2
    <3>3. QED
      BY <3>1, <3>2
  <2>3. c \in a + 1..Len(d \o e) + 1 /\ b \in a + 1..Len(d \o e) + 1
    BY <1>1, <2>1, <2>2 DEF isUnit
  <2>4. QED
    BY <2>2, <2>3
<1>5. QED
  BY <1>3, <1>4 DEF whole

LEMMA ExifPastUnit ==
  ASSUME NEW d \in Bytes, NEW e \in Bytes, Len(d) >= 2, whole(d),
         NEW c0 \in Int, isUnit(e, 1, c0, Len(e) + 1)
  PROVE  /\ isExif(e, 1, c0, Len(e) + 1) =>
              exifBytes(d \o e) = exifBytes(d) \cup (Len(d) + 1..Len(d \o e))
         /\ ~ isExif(e, 1, c0, Len(e) + 1) => exifBytes(d \o e) = exifBytes(d)
<1> DEFINE n == Len(d) + 1
           m == Len(d \o e) + 1
<1>1. d \o e \in Bytes /\ Len(d) \in Nat /\ Len(e) \in Nat /\ Len(d \o e) = Len(d) + Len(e)
  BY Joined
<1>2. /\ n \in visited(d)
      /\ isUnit(d \o e, n, Len(d) + c0, m)
      /\ visited(d \o e) = visited(d) \cup {m}
  BY VisitedPastUnit
<1>3. isExif(e, 1, c0, Len(e) + 1) <=> isExif(d \o e, n, Len(d) + c0, m)
  <2>1. Len(e) + 1 \in Int /\ Len(d) + (Len(e) + 1) = m
    BY <1>1
  <2>2. isExif(e, 1, c0, Len(e) + 1) <=>
          isExif(d \o e, Len(d) + 1, Len(d) + c0, Len(d) + (Len(e) + 1))
    BY <2>1, UnitOfSuffix
  <2>3. QED
    BY <2>1, <2>2
<1>4. n \in Int /\ m \in Int /\ Len(d) + c0 \in Int /\ m - 1 = Len(d \o e)
  BY <1>1
<1>5. ASSUME NEW c \in Int, NEW b \in Int
      PROVE  ~ isExif(d \o e, m, c, b) /\ ~ isExif(d, n, c, b)
  BY <1>1, NoUnitAtEnd DEF isExif
<1>6. ASSUME NEW c \in Int, NEW b \in Int, isExif(d \o e, n, c, b)
      PROVE  c = Len(d) + c0 /\ b = m
  BY <1>2, <1>4, <1>6, UnitIsUnique DEF isExif
<1>7. ASSUME NEW a \in visited(d), a # n, NEW c \in Int, NEW b \in Int
      PROVE  isExif(d, a, c, b) <=> isExif(d \o e, a, c, b)
  BY <1>7, ExifOfPrefix
<1>8. ASSUME NEW x
      PROVE  x \in exifBytes(d \o e) <=>
               \/ x \in exifBytes(d)
               \/ isExif(e, 1, c0, Len(e) + 1) /\ x \in n..m - 1
  <2> HIDE DEF n, m
  <2>1. x \in exifBytes(d \o e) <=>
          \E a \in visited(d \o e), c, b \in Int : isExif(d \o e, a, c, b) /\ x \in a..b - 1
    BY <1>1, ExifByte
  <2>2. x \in exifBytes(d) <=>
          \E a \in visited(d), c, b \in Int : isExif(d, a, c, b) /\ x \in a..b - 1
    BY ExifByte
  <2>3. ASSUME x \in exifBytes(d \o e)
        PROVE  \/ x \in exifBytes(d)
               \/ isExif(e, 1, c0, Len(e) + 1) /\ x \in n..m - 1
    <3>1. PICK a \in visited(d \o e), c \in Int, b \in Int :
                 isExif(d \o e, a, c, b) /\ x \in a..b - 1
      BY <2>1, <2>3
    <3>2. a \in visited(d)
      BY <1>2, <1>5, <3>1
    <3>3. CASE a = n
      BY <1>3, <1>6, <3>1, <3>3
    <3>4. CASE a # n
      BY <1>7, <2>2, <3>1, <3>2, <3>4
    <3>5. QED
      BY <3>3, <3>4
  <2>4. ASSUME x \in exifBytes(d) PROVE x \in exifBytes(d \o e)
    <3>1. PICK a \in visited(d), c \in Int, b \in Int :
                 isExif(d, a, c, b) /\ x \in a..b - 1
      BY <2>2, <2>4
    <3>2. a # n
      BY <1>5, <3>1
    <3>3. QED
      BY <1>2, <1>7, <2>1, <3>1, <3>2
  <2>5. ASSUME isExif(e, 1, c0, Len(e) + 1), x \in n..m - 1
        PROVE  x \in exifBytes(d \o e)
    BY <1>2, <1>3, <1>4, <2>1, <2>5
  <2>6. QED
    BY <2>3, <2>4, <2>5
<1>9. QED
  BY <1>4, <1>8

-----------------------------------------------------------------------------
(***************************************************************************)
(* What is kept                                                            *)
(***************************************************************************)
LEMMA ExifBytesAreBytes ==
  ASSUME NEW d \in Bytes
  PROVE  exifBytes(d) \subseteq 1..Len(d)
<1>1. Len(d) \in Nat
  BY LenProperties DEF Bytes
<1> SUFFICES ASSUME NEW x \in exifBytes(d) PROVE x \in 1..Len(d)
  OBVIOUS
<1>2. PICK a \in visited(d), c \in Int, b \in Int : isExif(d, a, c, b) /\ x \in a..b - 1
  BY ExifByte
<1>3. QED
  BY <1>1, <1>2 DEF visited, isExif, isUnit

LEMMA KeptIsFinite ==
  ASSUME NEW d \in Bytes, NEW gone
  PROVE  /\ IsFiniteSet((1..Len(d)) \ gone)
         /\ Cardinality((1..Len(d)) \ gone) \in Nat
<1>1. Len(d) \in Nat
  BY LenProperties DEF Bytes
<1>2. IsFiniteSet(1..Len(d))
  BY <1>1, FS_Interval
<1>3. IsFiniteSet((1..Len(d)) \ gone)
  BY <1>2, FS_Subset
<1>4. QED
  BY <1>3, FS_CardinalityType

\* Bytes that are dropped from the end of d leave s what it is.
LEMMA DropAtEnd ==
  ASSUME NEW s \in Bytes, NEW d \in Bytes, NEW e \in Bytes, NEW gone,
         isWithout(s, d, gone)
  PROVE  isWithout(s, d \o e, gone \cup (Len(d) + 1..Len(d \o e)))
<1> DEFINE kept == (1..Len(d)) \ gone
           keptNow == (1..Len(d \o e)) \ (gone \cup (Len(d) + 1..Len(d \o e)))
<1>1. Len(d) \in Nat /\ Len(e) \in Nat /\ Len(d \o e) = Len(d) + Len(e)
  BY Joined
<1>2. keptNow = kept
  BY <1>1
<1>3. \A p \in kept : (d \o e)[p] = d[p]
  BY Joined
<1>4. QED
  BY <1>2, <1>3 DEF isWithout

\* Bytes that are kept go to the end of both.
LEMMA KeepAtEnd ==
  ASSUME NEW s \in Bytes, NEW d \in Bytes, NEW e \in Bytes, NEW gone \in SUBSET (1..Len(d)),
         isWithout(s, d, gone)
  PROVE  isWithout(s \o e, d \o e, gone)
<1> DEFINE n == Len(d)
           kept == (1..n) \ gone
           keptNow == (1..Len(d \o e)) \ gone
           upTo(p) == {q \in kept : q <= p}
           upToNow(p) == {q \in keptNow : q <= p}
<1>1. /\ n \in Nat /\ Len(e) \in Nat /\ Len(d \o e) = n + Len(e)
      /\ Len(s) \in Nat /\ Len(s \o e) = Len(s) + Len(e)
  BY Joined
<1>2. /\ Len(s) = Cardinality(kept)
      /\ \A p \in kept : s[Cardinality(upTo(p))] = d[p]
  BY DEF isWithout
<1>3. IsFiniteSet(kept) /\ Cardinality(kept) \in Nat
  BY KeptIsFinite
<1>4. ASSUME NEW r \in 0..Len(e)
      PROVE  Cardinality(kept \cup (n + 1..n + r)) = Len(s) + r
  <2>1. IsFiniteSet(n + 1..n + r) /\ Cardinality(n + 1..n + r) = r
    <3>1. n + 1 \in Int /\ n + r \in Int /\ r \in Nat
      BY <1>1
    <3>2. /\ IsFiniteSet(n + 1..n + r)
          /\ Cardinality(n + 1..n + r) = IF n + 1 > n + r THEN 0 ELSE (n + r) - (n + 1) + 1
      BY <3>1, FS_Interval
    <3>3. (IF n + 1 > n + r THEN 0 ELSE (n + r) - (n + 1) + 1) = r
      BY <1>1, <3>1
    <3>4. QED
      BY <3>2, <3>3
  <2>2. kept \cap (n + 1..n + r) = {}
    BY <1>1
  <2>3. Cardinality(kept \cup (n + 1..n + r))
          = Cardinality(kept) + Cardinality(n + 1..n + r) - Cardinality({})
    BY <1>3, <2>1, <2>2, FS_Union
  <2>4. Cardinality({}) = 0
    BY FS_EmptySet
  <2>5. QED
    BY <1>1, <1>2, <2>1, <2>3, <2>4
<1>5. Len(s \o e) = Cardinality(keptNow)
  <2>1. keptNow = kept \cup (n + 1..n + Len(e))
    BY <1>1
  <2>2. Len(e) \in 0..Len(e)
    BY <1>1
  <2>3. QED
    BY <1>1, <1>4, <2>1, <2>2
<1>6. ASSUME NEW p \in kept
      PROVE  (s \o e)[Cardinality(upToNow(p))] = (d \o e)[p]
  <2>1. upToNow(p) = upTo(p)
    BY <1>1
  <2>2. /\ IsFiniteSet(upTo(p))
        /\ Cardinality(upTo(p)) \in Nat
        /\ Cardinality(upTo(p)) <= Cardinality(kept)
        /\ Cardinality(upTo(p)) # 0
    <3>1. upTo(p) \subseteq kept /\ p \in upTo(p)
      BY <1>1
    <3>2. IsFiniteSet(upTo(p)) /\ Cardinality(upTo(p)) <= Cardinality(kept)
      <4> HIDE DEF upTo, kept
      <4>1. QED
        BY <1>3, <3>1, FS_Subset
    <3> HIDE DEF upTo
    <3>3. Cardinality(upTo(p)) \in Nat
      BY <3>2, FS_CardinalityType
    <3>4. Cardinality(upTo(p)) # 0
      BY <3>1, <3>2, FS_EmptySet
    <3>5. QED
      BY <3>2, <3>3, <3>4
  <2>3. Cardinality(upTo(p)) \in 1..Len(s)
    <3> HIDE DEF upTo, kept
    <3>1. QED
      BY <1>1, <1>2, <1>3, <2>2
  <2>4. (s \o e)[Cardinality(upTo(p))] = s[Cardinality(upTo(p))]
    <3> HIDE DEF upTo
    <3>1. QED
      BY <2>3, Joined
  <2>5. (d \o e)[p] = d[p]
    BY Joined
  <2>6. QED
    BY <1>2, <2>1, <2>4, <2>5
<1>7. ASSUME NEW r \in 1..Len(e)
      PROVE  (s \o e)[Cardinality(upToNow(n + r))] = (d \o e)[n + r]
  <2>1. upToNow(n + r) = kept \cup (n + 1..n + r)
    BY <1>1
  <2>2. Cardinality(upToNow(n + r)) = Len(s) + r
    <3>1. r \in 0..Len(e)
      BY <1>1
    <3>2. QED
      BY <1>4, <2>1, <3>1
  <2>3. (s \o e)[Len(s) + r] = e[r] /\ (d \o e)[n + r] = e[r]
    BY Joined
  <2>4. QED
    BY <2>2, <2>3
<1>8. ASSUME NEW p \in keptNow
      PROVE  (s \o e)[Cardinality(upToNow(p))] = (d \o e)[p]
  <2>1. CASE p \in kept
    BY <1>6, <2>1
  <2>2. CASE p \notin kept
    <3>1. p - n \in 1..Len(e) /\ n + (p - n) = p
      BY <1>1, <2>2
    <3>2. (s \o e)[Cardinality(upToNow(n + (p - n)))] = (d \o e)[n + (p - n)]
      <4> HIDE DEF upToNow, n
      <4>1. QED
        BY <1>7, <3>1
    <3>3. QED
      BY <3>1, <3>2
  <2>3. QED
    BY <2>1, <2>2
<1>9. QED
  BY <1>5, <1>8 DEF isWithout

-----------------------------------------------------------------------------
(***************************************************************************)
(* Slices of the photo, and the loop over it                               *)
(***************************************************************************)
LEMMA Slice ==
  ASSUME NEW d \in Bytes, NEW a \in 1..Len(d) + 1, NEW b \in a..Len(d) + 1
  PROVE  /\ SubSeq(d, a, b - 1) \in Bytes
         /\ Len(SubSeq(d, a, b - 1)) = b - a
         /\ \A p \in 1..b - a : SubSeq(d, a, b - 1)[p] = d[a + p - 1]
<1>1. Len(d) \in Nat /\ d \in Seq(0..255)
  BY LenProperties DEF Bytes
<1>2. a \in 1..Len(d) + 1 /\ b - 1 \in a - 1..Len(d)
  BY <1>1
<1>3. SubSeq(d, a, b - 1) \in Seq(0..255)
  <2>1. \A p \in a..b - 1 : d[p] \in 0..255
    <3> TAKE p \in a..b - 1
    <3>1. p \in 1..Len(d)
      BY <1>1, <1>2
    <3>2. QED
      BY <1>1, <3>1, ElementOfSeq
  <2>2. a \in Int /\ b - 1 \in Int
    BY <1>1
  <2>3. QED
    BY <2>1, <2>2, SubSeqProperties
<1>4. Len(SubSeq(d, a, b - 1)) = IF a <= b - 1 THEN b - 1 - a + 1 ELSE 0
  BY <1>1, <1>2, SubSeqProperties
<1>5. (IF a <= b - 1 THEN b - 1 - a + 1 ELSE 0) = b - a
  BY <1>1, <1>2
<1>6. \A p \in 1..b - 1 - a + 1 : SubSeq(d, a, b - 1)[p] = d[a + p - 1]
  BY <1>1, <1>2, SubSeqProperties
<1>7. b - 1 - a + 1 = b - a
  BY <1>1, <1>2
<1>8. QED
  BY <1>3, <1>4, <1>5, <1>6, <1>7 DEF Bytes

LEMMA SplitAt ==
  ASSUME NEW d \in Bytes, NEW a \in 1..Len(d) + 1, NEW b \in a..Len(d) + 1
  PROVE  SubSeq(d, 1, b - 1) = SubSeq(d, 1, a - 1) \o SubSeq(d, a, b - 1)
<1> DEFINE s == SubSeq(d, 1, b - 1)
           t == SubSeq(d, 1, a - 1)
           u == SubSeq(d, a, b - 1)
<1>1. Len(d) \in Nat
  BY LenProperties DEF Bytes
<1>2. /\ 1 \in 1..Len(d) + 1 /\ a \in 1..Len(d) + 1 /\ b \in 1..Len(d) + 1
      /\ b - 1 \in Nat /\ a - 1 \in Nat /\ b - a \in Nat
  BY <1>1
<1>3. s \in Bytes /\ Len(s) = b - 1 /\ \A p \in 1..b - 1 : s[p] = d[1 + p - 1]
  BY <1>2, Slice
<1>4. t \in Bytes /\ Len(t) = a - 1 /\ \A p \in 1..a - 1 : t[p] = d[1 + p - 1]
  BY <1>2, Slice
<1>5. u \in Bytes /\ Len(u) = b - a /\ \A p \in 1..b - a : u[p] = d[a + p - 1]
  BY <1>2, Slice
<1> HIDE DEF s, t, u
<1>6. t \o u \in Bytes /\ Len(t \o u) = b - 1
  <2>1. (a - 1) + (b - a) = b - 1
    BY <1>1
  <2>2. QED
    BY <1>4, <1>5, <2>1, Joined
<1>7. ASSUME NEW p \in 1..b - 1 PROVE s[p] = (t \o u)[p]
  <2>1. s[p] = d[p]
    <3>1. 1 + p - 1 = p
      OBVIOUS
    <3>2. QED
      BY <1>3, <3>1
  <2>2. CASE p <= a - 1
    <3>1. p \in 1..a - 1 /\ 1 + p - 1 = p
      BY <1>2, <2>2
    <3>2. (t \o u)[p] = t[p]
      BY <1>4, <1>5, <3>1, Joined
    <3>3. QED
      BY <1>4, <2>1, <3>1, <3>2
  <2>3. CASE p > a - 1
    <3>1. /\ p - (a - 1) \in 1..b - a
          /\ (a - 1) + (p - (a - 1)) = p /\ a + (p - (a - 1)) - 1 = p
      BY <1>1, <2>3
    <3>2. (t \o u)[(a - 1) + (p - (a - 1))] = u[p - (a - 1)]
      <4>1. p - (a - 1) \in 1..Len(u)
        BY <1>5, <3>1
      <4>2. (t \o u)[Len(t) + (p - (a - 1))] = u[p - (a - 1)]
        BY <1>4, <1>5, <4>1, Joined
      <4>3. QED
        BY <1>4, <4>2
    <3>3. u[p - (a - 1)] = d[a + (p - (a - 1)) - 1]
      BY <1>5, <3>1
    <3>4. QED
      BY <2>1, <3>1, <3>2, <3>3
  <2>4. p <= a - 1 \/ p > a - 1
    BY <1>2
  <2>5. QED
    BY <2>2, <2>3, <2>4
<1>8. s = t \o u
  <2>1. s \in Seq(0..255) /\ t \o u \in Seq(0..255) /\ Len(s) = Len(t \o u)
    BY <1>3, <1>6 DEF Bytes
  <2>2. QED
    BY <1>3, <1>7, <2>1, SeqEqual
<1>9. QED
  BY <1>8 DEF s, t, u

LEMMA WholeSlice ==
  ASSUME NEW d \in Bytes
  PROVE  SubSeq(d, 1, Len(d)) = d
<1>1. Len(d) \in Nat /\ d \in Seq(0..255)
  BY LenProperties DEF Bytes
<1>2. QED
  BY <1>1

\* d up to position b, and what follows.
LEMMA SplitOff ==
  ASSUME NEW d \in Bytes, NEW b \in 1..Len(d) + 1
  PROVE  /\ d = SubSeq(d, 1, b - 1) \o SubSeq(d, b, Len(d))
         /\ SubSeq(d, 1, b - 1) \in Bytes /\ SubSeq(d, b, Len(d)) \in Bytes
         /\ Len(SubSeq(d, 1, b - 1)) = b - 1
<1>1. Len(d) \in Nat /\ d \in Seq(0..255)
  BY LenProperties DEF Bytes
<1>2. /\ 1 \in 1..Len(d) + 1 /\ Len(d) + 1 \in b..Len(d) + 1 /\ b \in 1..Len(d) + 1
      /\ (Len(d) + 1) - 1 = Len(d)
  BY <1>1
<1>3. SubSeq(d, 1, (Len(d) + 1) - 1) = SubSeq(d, 1, b - 1) \o SubSeq(d, b, (Len(d) + 1) - 1)
  BY <1>2, SplitAt
<1>4. SubSeq(d, 1, Len(d)) = d
  BY WholeSlice
<1>5. SubSeq(d, b, (Len(d) + 1) - 1) \in Bytes
  BY <1>2, Slice
<1>6. SubSeq(d, 1, b - 1) \in Bytes /\ Len(SubSeq(d, 1, b - 1)) = b - 1
  BY <1>2, Slice
<1>7. QED
  BY <1>2, <1>3, <1>4, <1>5, <1>6

\* The markers of d, and those of the slice of d that one of them is.
LEMMA UnitOfSlice ==
  ASSUME NEW d \in Bytes, NEW a \in 1..Len(d) + 1, NEW c \in Int, NEW b \in Int,
         isUnit(d, a, c, b)
  PROVE  /\ b \in a..Len(d) + 1
         /\ isUnit(SubSeq(d, a, b - 1), 1, c - (a - 1), Len(SubSeq(d, a, b - 1)) + 1)
         /\ isExif(d, a, c, b) <=>
              isExif(SubSeq(d, a, b - 1), 1, c - (a - 1), Len(SubSeq(d, a, b - 1)) + 1)
<1> DEFINE t == SubSeq(d, 1, a - 1)
           u == SubSeq(d, a, b - 1)
           s == SubSeq(d, 1, b - 1)
           r == SubSeq(d, b, Len(d))
<1>1. Len(d) \in Nat
  BY LenProperties DEF Bytes
<1>2. /\ b \in a..Len(d) + 1 /\ b \in 1..Len(d) + 1 /\ a >= 1 /\ a \in Int
      /\ c - (a - 1) \in Int /\ (a - 1) + (c - (a - 1)) = c
      /\ (b - a) + 1 \in Int /\ (a - 1) + ((b - a) + 1) = b /\ (a - 1) + 1 = a
      /\ (b - 1) + 1 = b
  BY <1>1 DEF isUnit
<1>3. s = t \o u
  BY <1>2, SplitAt
<1>4. d = s \o r /\ s \in Bytes /\ r \in Bytes /\ Len(s) = b - 1
  BY <1>2, SplitOff
<1>5. t \in Bytes /\ Len(t) = a - 1
  BY SplitOff
<1>6. u \in Bytes /\ Len(u) = b - a
  BY <1>2, Slice
<1> HIDE DEF t, u, s, r
<1>7. /\ isUnit(s, a, c, b) <=> isUnit(s \o r, a, c, b)
      /\ isExif(s, a, c, b) <=> isExif(s \o r, a, c, b)
  <2>1. b <= Len(s) + 1
    BY <1>2, <1>4
  <2>2. QED
    BY <1>2, <1>4, <2>1, UnitOfPrefix
<1> DEFINE c0 == c - (a - 1)
           b0 == Len(u) + 1
<1>8. Len(t) + 1 = a /\ Len(t) + c0 = c /\ Len(t) + b0 = b
  BY <1>2, <1>5, <1>6
<1>9. t \in Bytes /\ u \in Bytes /\ c0 \in Int /\ b0 \in Int
  BY <1>2, <1>5, <1>6
<1> HIDE DEF c0, b0
<1>10. /\ isUnit(u, 1, c0, b0) <=> isUnit(t \o u, Len(t) + 1, Len(t) + c0, Len(t) + b0)
       /\ isExif(u, 1, c0, b0) <=> isExif(t \o u, Len(t) + 1, Len(t) + c0, Len(t) + b0)
  BY <1>9, UnitOfSuffix
<1>11. /\ isUnit(d, a, c, b) <=> isUnit(u, 1, c0, b0)
       /\ isExif(d, a, c, b) <=> isExif(u, 1, c0, b0)
  BY <1>3, <1>4, <1>7, <1>8, <1>10
<1>12. QED
  BY <1>2, <1>11 DEF u, c0, b0

\* A marker is read: it is dropped if it is EXIF, and kept if it is not.
LEMMA WalkOn ==
  ASSUME NEW d \in Bytes, NEW n \in Int, NEW s \in Bytes, walked(d, n, s),
         NEW c \in Int, NEW b \in Int, isUnit(d, n, c, b)
  PROVE  /\ isExif(d, n, c, b) => walked(d, b, s)
         /\ ~ isExif(d, n, c, b) => walked(d, b, s \o SubSeq(d, n, b - 1))
         /\ SubSeq(d, n, b - 1) \in Bytes
<1> DEFINE read == SubSeq(d, 1, n - 1)
           u == SubSeq(d, n, b - 1)
           c0 == c - (n - 1)
<1>1. Len(d) \in Nat
  BY LenProperties DEF Bytes
<1>2. /\ n \in 3..Len(d) + 1 /\ Len(s) >= 2 /\ whole(read) /\ whole(s) /\ exifBytes(s) = {}
      /\ isWithout(s, read, exifBytes(read))
  BY DEF walked
<1>3. n \in 1..Len(d) + 1 /\ c0 \in Int
  BY <1>1, <1>2
<1>4. /\ b \in n..Len(d) + 1 /\ isUnit(u, 1, c0, Len(u) + 1)
      /\ isExif(d, n, c, b) <=> isExif(u, 1, c0, Len(u) + 1)
  BY <1>3, UnitOfSlice
<1>5. read \in Bytes /\ Len(read) = n - 1
  BY <1>3, SplitOff
<1>6. u \in Bytes
  BY <1>3, <1>4, Slice
<1>7. SubSeq(d, 1, b - 1) = read \o u
  BY <1>3, <1>4, SplitAt
<1>8. b \in 3..Len(d) + 1 /\ Len(read) >= 2
  BY <1>1, <1>2, <1>4, <1>5
<1>9. s \o u \in Bytes /\ Len(s \o u) >= 2
  BY <1>2, <1>6, Joined
<1>10. exifBytes(read) \in SUBSET (1..Len(read))
  BY <1>5, ExifBytesAreBytes
<1> HIDE DEF read, u, c0
<1>11. whole(read \o u)
  BY <1>2, <1>3, <1>4, <1>5, <1>6, <1>8, WholePastUnit
<1>12. ASSUME isExif(d, n, c, b)
       PROVE  /\ walked(d, b, s)
  <2>1. exifBytes(read \o u) = exifBytes(read) \cup (Len(read) + 1..Len(read \o u))
    BY <1>2, <1>3, <1>4, <1>5, <1>6, <1>8, <1>12, ExifPastUnit
  <2>2. isWithout(s, read \o u, exifBytes(read \o u))
    BY <1>2, <1>5, <1>6, <2>1, DropAtEnd
  <2>3. QED
    BY <1>2, <1>7, <1>8, <1>11, <2>2 DEF walked
<1>13. ASSUME ~ isExif(d, n, c, b)
       PROVE  walked(d, b, s \o u)
  <2>1. exifBytes(read \o u) = exifBytes(read)
    BY <1>2, <1>3, <1>4, <1>5, <1>6, <1>8, <1>13, ExifPastUnit
  <2>2. isWithout(s \o u, read \o u, exifBytes(read \o u))
    BY <1>2, <1>5, <1>6, <1>10, <2>1, KeepAtEnd
  <2>3. exifBytes(s \o u) = {}
    BY <1>2, <1>3, <1>4, <1>6, <1>13, ExifPastUnit
  <2>4. whole(s \o u)
    BY <1>2, <1>3, <1>4, <1>6, WholePastUnit
  <2>5. QED
    BY <1>7, <1>8, <1>9, <1>11, <2>2, <2>3, <2>4 DEF walked
<1>14. QED
  BY <1>6, <1>12, <1>13 DEF u

\* A reader can stop at position p of d: at the scan data, at EOI or at the end.
isEnd(d, p) ==
  \/ p = Len(d) + 1
  \/ /\ d[p] = jpegMarkerByte
     /\ \E c \in p + 1..Len(d) :
          /\ d[c] \in {jpegSOSMarker, jpegEOIMarker}
          /\ \A f \in p..c - 1 : d[f] = jpegMarkerByte

\* So it can at position 1 of e, if and only if it can at the end of d in d \o e.
LEMMA EndOfSuffix ==
  ASSUME NEW d \in Bytes, NEW e \in Bytes
  PROVE  isEnd(e, 1) <=> isEnd(d \o e, Len(d) + 1)
<1> DEFINE n == Len(d)
           scan(x, p, c) == /\ x[p] = jpegMarkerByte
                            /\ x[c] \in {jpegSOSMarker, jpegEOIMarker}
                            /\ \A f \in p..c - 1 : x[f] = jpegMarkerByte
<1>1. /\ n \in Nat /\ Len(e) \in Nat /\ Len(d \o e) = n + Len(e)
      /\ \A p \in 1..Len(e) : (d \o e)[n + p] = e[p]
  BY Joined
<1>2. isEnd(e, 1) <=> 1 = Len(e) + 1 \/ \E c \in 2..Len(e) : scan(e, 1, c)
  BY DEF isEnd
<1>3. isEnd(d \o e, n + 1) <=>
        n + 1 = Len(d \o e) + 1 \/ \E c \in n + 2..Len(d \o e) : scan(d \o e, n + 1, c)
  <2>1. (n + 1) + 1 = n + 2
    BY <1>1
  <2>2. isEnd(d \o e, n + 1) <=>
          \/ n + 1 = Len(d \o e) + 1
          \/ \E c \in (n + 1) + 1..Len(d \o e) : scan(d \o e, n + 1, c)
    BY Zenon DEF isEnd
  <2> HIDE DEF scan, n
  <2>3. QED
    BY <2>1, <2>2
<1>4. 1 = Len(e) + 1 <=> n + 1 = Len(d \o e) + 1
  BY <1>1
<1>5. ASSUME NEW c \in 2..Len(e)
      PROVE  scan(e, 1, c) <=> scan(d \o e, n + 1, n + c)
  <2>1. 1 \in 1..Len(e) /\ c \in 1..Len(e)
    BY <1>1
  <2>2. (d \o e)[n + 1] = e[1] /\ (d \o e)[n + c] = e[c]
    BY <1>1, <2>1
  <2>3. ASSUME \A f \in 1..c - 1 : e[f] = jpegMarkerByte, NEW f \in n + 1..n + c - 1
        PROVE  (d \o e)[f] = jpegMarkerByte
    <3>1. f - n \in 1..c - 1 /\ f - n \in 1..Len(e) /\ n + (f - n) = f
      BY <1>1
    <3>2. QED
      BY <1>1, <2>3, <3>1
  <2>4. ASSUME \A f \in n + 1..n + c - 1 : (d \o e)[f] = jpegMarkerByte, NEW f \in 1..c - 1
        PROVE  e[f] = jpegMarkerByte
    <3>1. n + f \in n + 1..n + c - 1 /\ f \in 1..Len(e)
      BY <1>1
    <3>2. QED
      BY <1>1, <2>4, <3>1
  <2>5. QED
    BY <2>2, <2>3, <2>4
<1> HIDE DEF scan
<1>6. ASSUME NEW c \in n + 2..Len(d \o e)
      PROVE  c - n \in 2..Len(e) /\ n + (c - n) = c
  BY <1>1
<1>7. ASSUME NEW c \in 2..Len(e) PROVE n + c \in n + 2..Len(d \o e)
  BY <1>1
<1> HIDE DEF n
<1>8. (\E c \in 2..Len(e) : scan(e, 1, c)) <=> (\E c \in n + 2..Len(d \o e) : scan(d \o e, n + 1, c))
  BY <1>5, <1>6, <1>7
<1>9. QED
  BY <1>2, <1>3, <1>4, <1>8 DEF n

LEMMA NoUnitAtScan ==
  ASSUME NEW d \in Bytes, NEW p \in 3..Len(d) + 1, isEnd(d, p), NEW c \in Int, NEW b \in Int
  PROVE  ~ isUnit(d, p, c, b)
<1>1. Len(d) \in Nat /\ p \in Int
  BY LenProperties DEF Bytes
<1> SUFFICES ASSUME isUnit(d, p, c, b) PROVE FALSE
  OBVIOUS
<1>2. /\ p < c /\ c < b /\ b <= Len(d) + 1
      /\ d[c] \notin {jpegMarkerByte, jpegSOSMarker, jpegEOIMarker}
      /\ \A f \in p..c - 1 : d[f] = jpegMarkerByte
  BY DEF isUnit
<1>3. p # Len(d) + 1
  BY <1>1, <1>2
<1>4. PICK x \in p + 1..Len(d) :
              /\ d[x] \in {jpegSOSMarker, jpegEOIMarker}
              /\ \A f \in p..x - 1 : d[f] = jpegMarkerByte
  BY <1>3 DEF isEnd
<1>5. x \in Int /\ p < x
  BY <1>1
<1>6. CASE x = c
  BY <1>2, <1>4, <1>6
<1>7. CASE x < c
  <2>1. d[x] = jpegMarkerByte
    BY <1>2, <1>5, <1>7
  <2>2. QED
    BY <1>4, <2>1 DEF jpegMarkerByte, jpegSOSMarker, jpegEOIMarker
<1>8. CASE c < x
  <2>1. d[c] = jpegMarkerByte
    BY <1>2, <1>4, <1>5, <1>8
  <2>2. QED
    BY <1>2, <2>1
<1>9. QED
  BY <1>5, <1>6, <1>7, <1>8

\* No marker is read: the photo is followed to its end if, and only if, a reader
\* can stop there, and the rest is kept as it is.
LEMMA WalkEnds ==
  ASSUME NEW d \in Bytes, NEW n \in Int, NEW s \in Bytes, walked(d, n, s),
         \A c, b \in Int : ~ isUnit(d, n, c, b)
  PROVE  /\ wellFormed(d) <=> isEnd(d, n)
         /\ wellFormed(d) => wellFormed(s \o SubSeq(d, n, Len(d)))
         /\ s \o SubSeq(d, n, Len(d)) \in Bytes
         /\ exifBytes(s \o SubSeq(d, n, Len(d))) = {}
         /\ isWithout(s \o SubSeq(d, n, Len(d)), d, exifBytes(d))
<1> DEFINE read == SubSeq(d, 1, n - 1)
           r == SubSeq(d, n, Len(d))
<1>1. Len(d) \in Nat
  BY LenProperties DEF Bytes
<1>2. /\ n \in 3..Len(d) + 1 /\ Len(s) >= 2 /\ whole(read) /\ whole(s) /\ exifBytes(s) = {}
      /\ isWithout(s, read, exifBytes(read))
  BY DEF walked
<1>3. n \in 1..Len(d) + 1
  BY <1>1, <1>2
<1>4. d = read \o r /\ read \in Bytes /\ r \in Bytes /\ Len(read) = n - 1
  BY <1>3, SplitOff
<1>5. /\ Len(read) >= 2 /\ Len(read) + 1 = n /\ Len(read) \in Nat
  BY <1>1, <1>2, <1>4
<1>6. exifBytes(read) \in SUBSET (1..Len(read))
  BY <1>4, ExifBytesAreBytes
<1> HIDE DEF read, r
<1>7. ASSUME NEW c \in Int, NEW b \in Int
      PROVE  ~ isUnit(r, 1, c, b)
  <2>1. isUnit(r, 1, c, b) <=> isUnit(read \o r, Len(read) + 1, Len(read) + c, Len(read) + b)
    BY <1>4, UnitOfSuffix
  <2>2. Len(read) + c \in Int /\ Len(read) + b \in Int
    BY <1>5
  <2>3. QED
    BY <1>4, <1>5, <2>1, <2>2
<1>8. visited(d) = visited(read)
  BY <1>2, <1>4, <1>5, <1>7, VisitedAtEnd
<1>9. exifBytes(d) = exifBytes(read)
  BY <1>2, <1>4, <1>5, <1>7, ExifAtEnd
<1>10. isWithout(s \o r, d, exifBytes(d))
  BY <1>2, <1>4, <1>6, <1>9, KeepAtEnd
<1>11. exifBytes(s \o r) = {}
  BY <1>2, <1>4, <1>7, ExifAtEnd
<1>12. wellFormed(d) <=> \E p \in 3..Len(d) + 1 : isEnd(d, p) /\ reached(d, p)
  BY DEF wellFormed, isEnd
<1>13. n \in visited(d)
  BY <1>2, <1>4, <1>5, <1>8 DEF whole, visited
<1>14. isEnd(d, n) => wellFormed(d)
  BY <1>2, <1>12, <1>13 DEF visited
<1>15. ASSUME wellFormed(d) PROVE isEnd(d, n)
  <2>1. PICK p \in 3..Len(d) + 1 : isEnd(d, p) /\ reached(d, p)
    BY <1>12, <1>15
  <2>2. p \in visited(read)
    BY <1>8, <2>1 DEF visited
  <2>3. CASE p = n
    BY <2>1, <2>3
  <2>4. CASE p # n
    <3>1. PICK c \in Int, b \in Int : isUnit(read, p, c, b) /\ b <= Len(read) + 1
      BY <1>2, <1>4, <1>5, <2>2, <2>4, WholeUnit
    <3>2. isUnit(d, p, c, b)
      <4>1. p \in Int /\ p >= 1
        BY <1>1
      <4>2. isUnit(read \o r, p, c, b)
        BY <1>4, <3>1, <4>1, UnitOfPrefix
      <4>3. QED
        BY <1>4, <4>2
    <3>3. QED
      BY <2>1, <3>2, NoUnitAtScan
  <2>5. QED
    BY <2>3, <2>4
<1>16. s \o r \in Bytes
  BY <1>4, Joined
<1>17. ASSUME isEnd(d, n) PROVE wellFormed(s \o r)
  <2> DEFINE m == Len(s) + 1
  <2>1. isEnd(s \o r, m)
    <3>1. isEnd(r, 1)
      BY <1>4, <1>5, <1>17, EndOfSuffix
    <3>2. QED
      BY <1>4, <3>1, EndOfSuffix
  <2>2. m \in visited(s)
    BY <1>4, Joined DEF whole, visited, walked
  <2>3. visited(s \o r) = visited(s)
    BY <1>2, <1>4, <1>7, VisitedAtEnd
  <2>4. m \in 3..Len(s \o r) + 1 /\ reached(s \o r, m)
    BY <2>2, <2>3 DEF visited
  <2>5. wellFormed(s \o r) <=> \E p \in 3..Len(s \o r) + 1 : isEnd(s \o r, p) /\ reached(s \o r, p)
    BY DEF wellFormed, isEnd
  <2>6. QED
    BY <2>1, <2>4, <2>5
<1>18. QED
  BY <1>10, <1>11, <1>14, <1>15, <1>16, <1>17 DEF r

\* The loop starts behind SOI.
LEMMA WalkStarts ==
  ASSUME NEW d \in Bytes, NEW n \in Int, n = 3, Len(d) >= 2,
         NEW s \in Bytes, s = SubSeq(d, 1, n - 1), Len(s) = 2
  PROVE  walked(d, n, s)
<1>1. Len(d) \in Nat /\ n \in 3..Len(d) + 1
  BY LenProperties DEF Bytes
<1>2. n \in visited(s)
  <2>1. n \in 3..Len(s) + 1 /\ Len(s) >= 2
    BY <1>1
  <2>2. QED
    BY <2>1, VisitedStep
<1>3. whole(s)
  <2>1. Len(s) + 1 = n /\ 3..Len(s) = {}
    OBVIOUS
  <2>2. reached(s, n)
    BY <1>2 DEF visited
  <2>3. QED
    BY <2>1, <2>2 DEF whole
<1>4. exifBytes(s) = {}
  <2> SUFFICES ASSUME NEW x \in exifBytes(s) PROVE FALSE
    OBVIOUS
  <2>1. PICK a \in visited(s), c \in Int, b \in Int : isExif(s, a, c, b)
    BY ExifByte
  <2>2. a \in Int /\ a >= 3 /\ a < c /\ c < b /\ b <= 3
    BY <2>1 DEF isExif, isUnit, visited
  <2>3. QED
    BY <2>2
<1>5. isWithout(s, s, exifBytes(s))
  <2>1. (1..Len(s)) \ exifBytes(s) = 1..2
    BY <1>4
  <2>2. ASSUME NEW p \in 1..2 PROVE Cardinality({q \in 1..2 : q <= p}) = p
    <3>1. {q \in 1..2 : q <= p} = 1..p
      OBVIOUS
    <3>2. PICK x \in Int, y \in Int : x = 1 /\ y = p
      OBVIOUS
    <3>3. Cardinality(x..y) = IF x > y THEN 0 ELSE y - x + 1
      BY FS_Interval
    <3>4. (IF x > y THEN 0 ELSE y - x + 1) = p
      BY <3>2
    <3>5. QED
      BY <3>1, <3>2, <3>3, <3>4
  <2>3. Cardinality(1..2) = 2
    <3>1. {q \in 1..2 : q <= 2} = 1..2
      OBVIOUS
    <3>2. 2 \in 1..2
      OBVIOUS
    <3>3. QED
      BY <2>2, <3>1, <3>2
  <2>4. QED
    BY <2>1, <2>2, <2>3 DEF isWithout
<1>6. QED
  BY <1>1, <1>3, <1>4, <1>5 DEF walked

LEMMA StartsWithSOI ==
  ASSUME NEW d \in Bytes, isJPEG(d), NEW s, s = <<jpegMarkerByte, jpegSOIMarker>>
  PROVE  s \in Bytes /\ Len(s) = 2 /\ Len(d) >= 2 /\ s = SubSeq(d, 1, 2)
<1>1. Len(s) = 2
  OBVIOUS
<1>2. s \in Bytes
  <2>1. jpegMarkerByte \in 0..255 /\ jpegSOIMarker \in 0..255
    BY DEF jpegMarkerByte, jpegSOIMarker
  <2>2. QED
    BY <2>1 DEF Bytes
<1>3. 2 <= Len(d) /\ SubSeq(s, 1, 2) = SubSeq(d, 1, 2)
  BY <1>1 DEF isJPEG, IsPrefix
<1>4. SubSeq(s, 1, Len(s)) = s
  BY <1>2, WholeSlice
<1>5. Len(d) \in Nat
  BY LenProperties DEF Bytes
<1>6. QED
  BY <1>1, <1>2, <1>3, <1>4, <1>5

-----------------------------------------------------------------------------
(***************************************************************************)
(* The steps of Scrub                                                      *)
(***************************************************************************)
LEMMA FillEnds ==
  ASSUME data \in Bytes, NEW a \in 1..Len(data) + 1
  PROVE  /\ skipFill(a) \in a..Len(data) + 1
         /\ skipFill(a) <= Len(data) => data[skipFill(a)] # jpegMarkerByte
         /\ \A f \in a..skipFill(a) - 1 : data[f] = jpegMarkerByte
<1> DEFINE P(j) == /\ j <= Len(data) => data[j] # jpegMarkerByte
                   /\ \A f \in a..j - 1 : data[f] = jpegMarkerByte
           T == {j \in a..Len(data) + 1 : j <= Len(data) => data[j] # jpegMarkerByte}
<1>1. Len(data) \in Nat
  BY LenProperties DEF Bytes
<1>2. T \subseteq Nat /\ Len(data) + 1 \in T
  BY <1>1
<1>3. PICK j \in T : \A f \in T : ~ (<<f, j>> \in OpToRel(<, Nat))
  <2> HIDE DEF T
  <2>1. QED
    BY <1>2, NatLessThanWellFounded, WFMin
<1>4. ASSUME NEW f \in a..j - 1 PROVE data[f] = jpegMarkerByte
  <2>1. f \in Nat /\ j \in Nat /\ f < j /\ f \in a..Len(data) + 1 /\ f <= Len(data)
    BY <1>1
  <2>2. f \notin T
    BY <1>3, <2>1 DEF OpToRel
  <2>3. QED
    BY <2>1, <2>2
<1>5. j \in a..Len(data) + 1 /\ P(j)
  BY <1>4
<1>6. skipFill(a) = CHOOSE x \in a..Len(data) + 1 : P(x)
  BY DEF skipFill
<1>7. skipFill(a) \in a..Len(data) + 1 /\ P(skipFill(a))
  <2> HIDE DEF P
  <2>1. QED
    BY <1>5, <1>6
<1>8. QED
  BY <1>7

\* The code of a marker is the first byte behind its fill bytes.
LEMMA CodeAfterFill ==
  ASSUME NEW d \in Bytes, NEW a \in 3..Len(d), NEW j \in a + 1..Len(d) + 1,
         j <= Len(d) => d[j] # jpegMarkerByte,
         \A f \in a..j - 1 : d[f] = jpegMarkerByte,
         NEW c \in a + 1..Len(d), d[c] # jpegMarkerByte,
         \A f \in a..c - 1 : d[f] = jpegMarkerByte
  PROVE  c = j
<1>1. Len(d) \in Nat /\ a \in Int /\ j \in Int /\ c \in Int
  BY LenProperties DEF Bytes
<1>2. ~ (c < j)
  BY <1>1
<1>3. ~ (j < c)
  BY <1>1
<1>4. QED
  BY <1>1, <1>2, <1>3

LEMMA Rejected ==
  ASSUME data \in Bytes, out \in Bytes, Reject, ~ wellFormed(data)
  PROVE  ScrubInv'
<1>1. scrubPc' = "malformed" /\ out' = <<>> /\ data' = data
  BY DEF Reject, ScrubEnds
<1>2. out' \in Seq(0..255) /\ data' \in Seq(0..255)
  BY <1>1 DEF Bytes
<1>3. QED
  BY <1>1, <1>2 DEF ScrubInv, ScrubRemovesExactlyExif

LEMMA Stripped ==
  ASSUME data \in Bytes, NEW o \in Bytes, ScrubEnds("stripped", o),
         wellFormed(o), exifBytes(o) = {}, wellFormed(data), isWithout(o, data, exifBytes(data))
  PROVE  ScrubInv'
<1>1. scrubPc' = "stripped" /\ out' = o /\ data' = data
  BY DEF ScrubEnds
<1>2. QED
  BY <1>1 DEF ScrubInv, ScrubRemovesExactlyExif, Bytes

LEMMA Continued ==
  ASSUME data \in Bytes, out \in Bytes, scrubPc = "walk", NEW end \in Int, NEW written \in Bytes,
         Continue(end, written), walked(data, end, out \o written)
  PROVE  ScrubInv'
<1>1. scrubPc' = "walk" /\ i' = end /\ out' = out \o written /\ data' = data
  BY DEF Continue
<1>2. out \o written \in Bytes
  BY Joined
<1>3. QED
  BY <1>1, <1>2 DEF ScrubInv, ScrubRemovesExactlyExif, Bytes

\* Bytes from i on that are no marker and no end of the markers.
LEMMA RejectedAt ==
  ASSUME data \in Bytes, out \in Bytes, i \in Int, walked(data, i, out), Reject,
         \A c, b \in Int : ~ isUnit(data, i, c, b), ~ isEnd(data, i)
  PROVE  ScrubInv'
<1>1. ~ wellFormed(data)
  BY WalkEnds
<1>2. QED
  BY <1>1, Rejected

LEMMA StrippedAt ==
  ASSUME data \in Bytes, out \in Bytes, i \in Int, walked(data, i, out),
         ScrubEnds("stripped", out \o slice(i, Len(data) + 1)), isEnd(data, i)
  PROVE  ScrubInv'
<1>1. Len(data) \in Nat
  BY LenProperties DEF Bytes
<1>2. slice(i, Len(data) + 1) = SubSeq(data, i, Len(data))
  <2>1. (Len(data) + 1) - 1 = Len(data)
    BY <1>1
  <2>2. QED
    BY <2>1 DEF slice
<1>3. i \in 3..Len(data) + 1
  BY DEF walked
<1>4. \A c, b \in Int : ~ isUnit(data, i, c, b)
  BY <1>3, NoUnitAtScan
<1> DEFINE o == out \o SubSeq(data, i, Len(data))
<1>5. /\ wellFormed(data) /\ o \in Bytes /\ wellFormed(o) /\ exifBytes(o) = {}
      /\ isWithout(o, data, exifBytes(data))
  BY <1>4, WalkEnds
<1>6. ScrubEnds("stripped", o)
  BY <1>2
<1> HIDE DEF o
<1>7. QED
  BY <1>5, <1>6, Stripped

\* A marker from i to b - 1 is read.
LEMMA ContinuedAt ==
  ASSUME data \in Bytes, out \in Bytes, i \in Int, walked(data, i, out), scrubPc = "walk",
         NEW c \in Int, NEW b \in Int, isUnit(data, i, c, b),
         \/ isExif(data, i, c, b) /\ Continue(b, <<>>)
         \/ ~ isExif(data, i, c, b) /\ Continue(b, slice(i, b))
  PROVE  ScrubInv'
<1>1. /\ isExif(data, i, c, b) => walked(data, b, out)
      /\ ~ isExif(data, i, c, b) => walked(data, b, out \o SubSeq(data, i, b - 1))
      /\ SubSeq(data, i, b - 1) \in Bytes
  BY WalkOn
<1>2. CASE isExif(data, i, c, b)
  <2>0. <<>> \in Bytes
    BY DEF Bytes
  <2>1. PICK o \in Bytes : o = <<>>
    BY <2>0
  <2>2. out \o o = out
    BY <2>1, ConcatEmptySeq DEF Bytes
  <2>3. Continue(b, o)
    BY <1>2, <2>1
  <2>4. walked(data, b, out \o o)
    BY <1>1, <1>2, <2>2
  <2>5. QED
    BY <2>3, <2>4, Continued
<1>3. CASE ~ isExif(data, i, c, b)
  <2>1. Continue(b, SubSeq(data, i, b - 1))
    BY <1>3 DEF slice
  <2>2. QED
    BY <1>1, <1>3, <2>1, Continued
<1>4. QED
  BY <1>2, <1>3

\* One iteration of the loop, at a marker with its code at j.
LEMMA MarkerStep ==
  ASSUME data \in Bytes, out \in Bytes, i \in Int, walked(data, i, out), scrubPc = "walk",
         i <= Len(data), Marker
  PROVE  ScrubInv'
<1> DEFINE j == skipFill(i + 1)
           FF == jpegMarkerByte
           segLen == 256 * data[j + 1] + data[j + 2]
           segEnd == j + 1 + segLen
<1>1. Len(data) \in Nat /\ i \in 3..Len(data) /\ data[i] = FF
  BY LenProperties DEF Bytes, walked, Marker
<1>2. i + 1 \in 1..Len(data) + 1
  BY <1>1
<1>3. /\ j \in i + 1..Len(data) + 1
      /\ j <= Len(data) => data[j] # FF
      /\ \A f \in i + 1..j - 1 : data[f] = FF
  BY <1>2, FillEnds
<1>4. \/ j > Len(data) /\ Reject
      \/ /\ j <= Len(data)
         /\ data[j] \in {jpegSOSMarker, jpegEOIMarker}
         /\ ScrubEnds("stripped", out \o slice(i, Len(data) + 1))
      \/ /\ j <= Len(data)
         /\ data[j] \in {jpegTEMMarker} \cup jpegRestart
         /\ Continue(j + 1, slice(i, j + 1))
      \/ /\ j <= Len(data)
         /\ data[j] \notin {jpegSOSMarker, jpegEOIMarker, jpegTEMMarker} \cup jpegRestart
         /\ Segment(j)
  BY DEF Marker
<1> HIDE DEF j, FF
<1>5. j \in Int /\ j > i
  BY <1>1, <1>3
<1>6. \A f \in i..j - 1 : data[f] = FF
  BY <1>1, <1>3, <1>5
<1>7. ASSUME NEW c \in i + 1..Len(data), data[c] # FF, \A f \in i..c - 1 : data[f] = FF
      PROVE  c = j
  BY <1>1, <1>3, <1>6, <1>7, CodeAfterFill DEF FF
<1>8. ASSUME NEW c \in Int, NEW b \in Int, isUnit(data, i, c, b)
      PROVE  c = j
  <2>1. /\ i < c /\ c < b /\ b <= Len(data) + 1 /\ data[c] # FF
        /\ \A f \in i..c - 1 : data[f] = FF
    BY <1>8 DEF isUnit, FF
  <2>2. c \in i + 1..Len(data)
    BY <1>1, <2>1
  <2>3. QED
    BY <1>7, <2>1, <2>2
<1>9. isEnd(data, i) <=> j <= Len(data) /\ data[j] \in {jpegSOSMarker, jpegEOIMarker}
  <2>1. ASSUME isEnd(data, i)
        PROVE  j <= Len(data) /\ data[j] \in {jpegSOSMarker, jpegEOIMarker}
    <3>1. i # Len(data) + 1
      BY <1>1
    <3>2. PICK c \in i + 1..Len(data) :
                 /\ data[c] \in {jpegSOSMarker, jpegEOIMarker}
                 /\ \A f \in i..c - 1 : data[f] = FF
      BY <2>1, <3>1 DEF isEnd, FF
    <3>3. data[c] # FF
      BY <3>2 DEF FF, jpegMarkerByte, jpegSOSMarker, jpegEOIMarker
    <3>4. c = j
      BY <1>7, <3>2, <3>3
    <3>5. QED
      BY <1>1, <3>2, <3>4
  <2>2. ASSUME j <= Len(data), data[j] \in {jpegSOSMarker, jpegEOIMarker}
        PROVE  isEnd(data, i)
    <3>1. j \in i + 1..Len(data)
      BY <1>1, <1>5, <2>2
    <3>2. QED
      BY <1>1, <1>6, <2>2, <3>1 DEF isEnd, FF
  <2>3. QED
    BY <2>1, <2>2
<1>10. CASE j > Len(data) /\ Reject
  <2>1. ~ isEnd(data, i)
    BY <1>1, <1>5, <1>9, <1>10
  <2>2. ASSUME NEW c \in Int, NEW b \in Int PROVE ~ isUnit(data, i, c, b)
    <3> SUFFICES ASSUME isUnit(data, i, c, b) PROVE FALSE
      OBVIOUS
    <3>1. c = j /\ c < b /\ b <= Len(data) + 1
      BY <1>8 DEF isUnit
    <3>2. QED
      BY <1>1, <1>5, <1>10, <3>1
  <2>3. QED
    BY <1>10, <2>1, <2>2, RejectedAt
<1>11. CASE /\ j <= Len(data)
            /\ data[j] \in {jpegSOSMarker, jpegEOIMarker}
            /\ ScrubEnds("stripped", out \o slice(i, Len(data) + 1))
  BY <1>9, <1>11, StrippedAt
<1>12. CASE /\ j <= Len(data)
            /\ data[j] \in {jpegTEMMarker} \cup jpegRestart
            /\ Continue(j + 1, slice(i, j + 1))
  <2>1. /\ data[j] \notin {jpegMarkerByte, jpegSOSMarker, jpegEOIMarker}
        /\ data[j] # jpegAPP1Marker
    <3>1. PICK x : x = data[j]
      OBVIOUS
    <3>2. x = 1 \/ x \in 208..215
      BY <1>12, <3>1 DEF jpegTEMMarker, jpegRestart
    <3>3. x \notin {255, 218, 217, 225}
      BY <3>2
    <3>4. QED
      BY <3>1, <3>3 DEF jpegMarkerByte, jpegSOSMarker, jpegEOIMarker, jpegAPP1Marker
  <2>2. isUnit(data, i, j, j + 1)
    BY <1>1, <1>5, <1>6, <1>12, <2>1 DEF isUnit, FF
  <2>3. ~ isExif(data, i, j, j + 1)
    BY <2>1 DEF isExif, isExifAPP1
  <2>4. j + 1 \in Int
    BY <1>5
  <2>5. QED
    BY <1>5, <1>12, <2>2, <2>3, <2>4, ContinuedAt
<1>13. CASE /\ j <= Len(data)
            /\ data[j] \notin {jpegSOSMarker, jpegEOIMarker, jpegTEMMarker} \cup jpegRestart
            /\ Segment(j)
  <2>1. ~ isEnd(data, i)
    BY <1>9, <1>13
  <2>2. ASSUME NEW c \in Int, NEW b \in Int, isUnit(data, i, c, b)
        PROVE  c = j /\ j + 3 <= b /\ b <= Len(data) + 1 /\ b = j + 1 + 256 * data[j + 1] + data[j + 2]
    <3>1. c = j
      BY <1>8, <2>2
    <3>2. data[j] \notin {jpegTEMMarker} \cup jpegRestart
      BY <1>13
    <3>3. QED
      BY <2>2, <3>1, <3>2 DEF isUnit
  <2>3. CASE j + jpegLengthBytes > Len(data)
    <3>1. Reject
      BY <1>13, <2>3 DEF Segment
    <3>2. ASSUME NEW c \in Int, NEW b \in Int PROVE ~ isUnit(data, i, c, b)
      BY <1>1, <1>5, <2>2, <2>3 DEF jpegLengthBytes
    <3>3. QED
      BY <2>1, <3>1, <3>2, RejectedAt
  <2>4. CASE ~ (j + jpegLengthBytes > Len(data))
    <3>1. PICK x \in Int, y \in Int : x = data[j + 1] /\ y = data[j + 2]
      <4>1. j + 1 \in 1..Len(data) /\ j + 2 \in 1..Len(data)
        BY <1>1, <1>5, <2>4 DEF jpegLengthBytes
      <4>2. QED
        BY <4>1, ByteIsInt
    <3>2. segLen = 256 * x + y
      BY <3>1
    <3>3. segLen \in Int /\ segEnd \in Int
      <4> HIDE DEF segLen
      <4>1. segLen \in Int
        BY <3>2
      <4>2. QED
        BY <1>5, <4>1
    <3>4. ASSUME NEW c \in Int, NEW b \in Int, isUnit(data, i, c, b)
          PROVE  c = j /\ j + 3 <= b /\ b <= Len(data) + 1 /\ b = segEnd
      <4>1. c = j /\ j + 3 <= b /\ b <= Len(data) + 1 /\ b = j + 1 + 256 * x + y
        BY <2>2, <3>1, <3>4
      <4>2. segEnd = j + 1 + 256 * x + y
        BY <1>5, <3>2
      <4>3. QED
        BY <4>1, <4>2
    <3>5. IF segLen < jpegLengthBytes \/ j + segLen > Len(data)
          THEN Reject
          ELSE Continue(segEnd, IF isExifAPP1(data[j], slice(j + 3, segEnd))
                                THEN <<>> ELSE slice(i, segEnd))
      BY <1>13, <2>4 DEF Segment
    <3> HIDE DEF segLen
    <3>6. CASE segLen < jpegLengthBytes \/ j + segLen > Len(data)
      <4>1. ASSUME NEW c \in Int, NEW b \in Int PROVE ~ isUnit(data, i, c, b)
        BY <1>1, <1>5, <3>3, <3>4, <3>6 DEF jpegLengthBytes
      <4>2. QED
        BY <2>1, <3>5, <3>6, <4>1, RejectedAt
    <3>7. CASE ~ (segLen < jpegLengthBytes \/ j + segLen > Len(data))
      <4>1. /\ i < j /\ j < segEnd /\ segEnd <= Len(data) + 1 /\ j + 3 <= segEnd
        BY <1>1, <1>5, <3>3, <3>7 DEF jpegLengthBytes
      <4>2. segEnd = j + 1 + 256 * data[j + 1] + data[j + 2]
        <5>1. segEnd = j + 1 + 256 * x + y
          BY <1>5, <3>2
        <5>2. QED
          BY <3>1, <5>1
      <4>3. data[j] \notin {jpegMarkerByte, jpegSOSMarker, jpegEOIMarker}
        BY <1>3, <1>13 DEF FF
      <4> HIDE DEF segEnd
      <4>4. isUnit(data, i, j, segEnd)
        BY <1>6, <1>13, <4>1, <4>2, <4>3 DEF isUnit, FF
      <4>5. isExif(data, i, j, segEnd) <=> isExifAPP1(data[j], slice(j + 3, segEnd))
        BY <4>4 DEF isExif, slice
      <4>6. QED
        BY <1>5, <3>3, <3>5, <3>7, <4>4, <4>5, ContinuedAt
    <3>8. QED
      BY <3>6, <3>7
  <2>5. QED
    BY <2>3, <2>4
<1>14. QED
  BY <1>4, <1>10, <1>11, <1>12, <1>13

LEMMA WalkStep ==
  ASSUME ScrubInv, Walk
  PROVE  ScrubInv'
<1>1. /\ data \in Bytes /\ out \in Bytes /\ scrubPc = "walk" /\ walked(data, i, out)
  BY DEF ScrubInv, Walk, Bytes
<1>2. Len(data) \in Nat /\ i \in 3..Len(data) + 1 /\ i \in Int
  <2>1. Len(data) \in Nat
    BY <1>1, LenProperties DEF Bytes
  <2>2. i \in 3..Len(data) + 1
    BY <1>1 DEF walked
  <2>3. QED
    BY <2>1, <2>2
<1>3. CASE i <= Len(data) /\ NoMarker
  <2>1. data[i] # jpegMarkerByte /\ Reject
    BY <1>3 DEF NoMarker
  <2>2. ~ isEnd(data, i)
    BY <1>2, <1>3, <2>1 DEF isEnd
  <2>3. ASSUME NEW c \in Int, NEW b \in Int PROVE ~ isUnit(data, i, c, b)
    BY <1>2, <2>1 DEF isUnit
  <2>4. QED
    BY <1>1, <1>2, <2>1, <2>2, <2>3, RejectedAt
<1>4. CASE i <= Len(data) /\ Marker
  BY <1>1, <1>2, <1>4, MarkerStep
<1>5. CASE i > Len(data) /\ ScrubEnds("stripped", out)
  <2>1. i = Len(data) + 1
    BY <1>2, <1>5
  <2>2. isEnd(data, i)
    BY <2>1 DEF isEnd
  <2>3. slice(i, Len(data) + 1) = <<>>
    <3>1. (Len(data) + 1) - 1 < Len(data) + 1 /\ (Len(data) + 1) - 1 \in Int /\ Len(data) + 1 \in Int
      BY <1>2
    <3>2. QED
      BY <2>1, <3>1, SubSeqEmpty DEF slice
  <2>4. out \o slice(i, Len(data) + 1) = out
    BY <1>1, <2>3, ConcatEmptySeq DEF Bytes
  <2>5. QED
    BY <1>1, <1>2, <1>5, <2>2, <2>4, StrippedAt
<1>6. QED
  BY <1>3, <1>4, <1>5 DEF Walk

LEMMA ReencodeStep ==
  ASSUME ScrubInv, Reencode
  PROVE  ScrubInv'
<1>1. data \in Bytes
  BY DEF ScrubInv, Bytes
<1>2. CASE ScrubEnds("undecodable", <<>>)
  <2>1. scrubPc' = "undecodable" /\ out' = <<>> /\ data' = data
    BY <1>2 DEF ScrubEnds
  <2>2. out' \in Seq(0..255)
    BY <2>1
  <2>3. QED
    BY <1>1, <2>1, <2>2 DEF ScrubInv, ScrubRemovesExactlyExif, Bytes
<1>3. CASE ScrubEnds("reencoded", encoded)
  <2>1. scrubPc' = "reencoded" /\ out' = encoded /\ data' = data
    BY <1>3 DEF ScrubEnds
  <2>2. encoded \in Bytes
    BY DEF encoded, Bytes, jpegMarkerByte, jpegSOIMarker, jpegSOSMarker
  <2>3. exifBytes(encoded) = {}
    <3> SUFFICES ASSUME NEW x \in exifBytes(encoded) PROVE FALSE
      OBVIOUS
    <3>1. PICK a \in visited(encoded), c \in Int, b \in Int : isExif(encoded, a, c, b)
      BY <2>2, ExifByte
    <3>2. Len(encoded) = 4
      BY DEF encoded
    <3>3. a \in 3..5 /\ a < c /\ c < b /\ b <= 5 /\ encoded[c] = jpegAPP1Marker
      BY <3>1, <3>2 DEF visited, isExif, isUnit, isExifAPP1
    <3>4. c = 4
      BY <3>3
    <3>5. encoded[4] = jpegSOSMarker
      BY DEF encoded
    <3>6. QED
      BY <3>3, <3>4, <3>5 DEF jpegAPP1Marker, jpegSOSMarker
  <2>4. wellFormed(encoded)
    <3>1. Len(encoded) = 4 /\ 3 \in 3..5 /\ 4 \in 4..4
      BY DEF encoded
    <3>2. encoded[3] = jpegMarkerByte /\ encoded[4] = jpegSOSMarker
      BY DEF encoded
    <3>3. reached(encoded, 3)
      BY <2>2, <3>1, VisitedStep DEF visited
    <3>4. \A f \in 3..3 : encoded[f] = jpegMarkerByte
      BY <3>2
    <3>5. \E c \in 4..4 : /\ encoded[c] \in {jpegSOSMarker, jpegEOIMarker}
                          /\ \A f \in 3..c - 1 : encoded[f] = jpegMarkerByte
      BY <3>1, <3>2, <3>4
    <3>6. QED
      BY <3>1, <3>2, <3>3, <3>5 DEF wellFormed
  <2>5. QED
    BY <1>1, <2>1, <2>2, <2>3, <2>4 DEF ScrubInv, ScrubRemovesExactlyExif, Bytes
<1>4. QED
  BY <1>2, <1>3 DEF Reencode

LEMMA ScrubStart ==
  ASSUME NEW photo \in Photo, NEW orientation, Scrub(photo, orientation)
  PROVE  ScrubInv'
<1>1. photo \in Bytes /\ data' = photo /\ i' = 3
  BY PhotoAssumption DEF Scrub, Bytes
<1>2. CASE scrubPc' = "reencode" /\ out' = <<>>
  <2>1. out' \in Seq(0..255)
    BY <1>2
  <2>2. QED
    BY <1>1, <1>2, <2>1 DEF ScrubInv, ScrubRemovesExactlyExif, Bytes
<1>3. CASE scrubPc' = "not a JPEG" /\ out' = photo
  BY <1>1, <1>3 DEF ScrubInv, ScrubRemovesExactlyExif, Bytes
<1>4. CASE isJPEG(photo) /\ scrubPc' = "walk" /\ out' = <<jpegMarkerByte, jpegSOIMarker>>
  <2>1. PICK s : s = <<jpegMarkerByte, jpegSOIMarker>>
    OBVIOUS
  <2>2. s \in Bytes /\ Len(s) = 2 /\ Len(photo) >= 2 /\ s = SubSeq(photo, 1, 2)
    BY <1>1, <1>4, <2>1, StartsWithSOI
  <2>3. PICK n \in Int : n = 3
    OBVIOUS
  <2>4. n - 1 = 2
    BY <2>3
  <2>5. walked(photo, n, s)
    BY <1>1, <2>2, <2>3, <2>4, WalkStarts
  <2>6. out' = s /\ i' = n
    BY <1>1, <1>4, <2>1, <2>3
  <2>7. walked(data', i', out')
    BY <1>1, <2>5, <2>6
  <2>8. QED
    BY <1>1, <1>4, <2>2, <2>6, <2>7 DEF ScrubInv, ScrubRemovesExactlyExif, Bytes
<1>5. QED
  BY <1>2, <1>3, <1>4 DEF Scrub

LEMMA ScrubInitially ==
  ASSUME ScrubInit
  PROVE  ScrubInv
<1>1. <<>> \in Seq(0..255)
  OBVIOUS
<1>2. QED
  BY <1>1 DEF ScrubInit, ScrubInv, ScrubRemovesExactlyExif

LEMMA ScrubStops ==
  ASSUME StopScrub
  PROVE  ScrubInv'
<1>1. <<>> \in Seq(0..255)
  OBVIOUS
<1>2. QED
  BY <1>1 DEF StopScrub, ScrubInv, ScrubRemovesExactlyExif

LEMMA NothingTakenOut ==
  ASSUME NEW d \in Bytes, NEW s \in Bytes
  PROVE  isWithout(s, d, {}) <=> s = d
<1> DEFINE kept == (1..Len(d)) \ {}
           upTo(p) == {q \in kept : q <= p}
<1>1. Len(d) \in Nat
  BY LenProperties DEF Bytes
<1>2. ASSUME NEW p \in 0..Len(d) PROVE Cardinality(upTo(p)) = p
  <2>1. upTo(p) = 1..p
    BY <1>1
  <2>2. PICK x \in Int, y \in Int : x = 1 /\ y = p
    BY <1>1
  <2>3. Cardinality(x..y) = IF x > y THEN 0 ELSE y - x + 1
    BY FS_Interval
  <2>4. (IF x > y THEN 0 ELSE y - x + 1) = p
    BY <2>2, <1>1
  <2>5. QED
    BY <2>1, <2>2, <2>3, <2>4
<1>3. Cardinality(kept) = Len(d)
  <2>1. kept = upTo(Len(d)) /\ Len(d) \in 0..Len(d)
    BY <1>1
  <2>2. QED
    BY <1>2, <2>1
<1>4. isWithout(s, d, {}) <=>
        Len(s) = Cardinality(kept) /\ \A p \in kept : s[Cardinality(upTo(p))] = d[p]
  BY DEF isWithout
<1>5. \A p \in 1..Len(d) : p \in kept /\ Cardinality(upTo(p)) = p
  BY <1>1, <1>2
<1>6. isWithout(s, d, {}) <=> Len(s) = Len(d) /\ \A p \in 1..Len(d) : s[p] = d[p]
  BY <1>3, <1>4, <1>5
<1>7. Len(s) = Len(d) /\ (\A p \in 1..Len(d) : s[p] = d[p]) => s = d
  BY SeqEqual DEF Bytes
<1>8. QED
  BY <1>6, <1>7

\* The loop reads at least a marker byte and a code in every iteration and never
\* goes past the end of the photo, so it ends for every photo (stripJPEGExif).
LEMMA WalkAdvances ==
  ASSUME ScrubInv, Walk, scrubPc' = "walk"
  PROVE  i' >= i + 2 /\ i' <= Len(data) + 1
<1>1. /\ data \in Bytes /\ walked(data, i, out) /\ i \in 3..Len(data) + 1 /\ Len(data) \in Nat
  BY LenProperties DEF ScrubInv, Walk, Bytes, walked
<1>2. walked(data', i', out')
  BY WalkStep DEF ScrubInv
<1>3. i <= Len(data) /\ Marker
  BY DEF Walk, NoMarker, Reject, ScrubEnds
<1> DEFINE j == skipFill(i + 1)
<1>4. j \in i + 1..Len(data) + 1
  <2>1. i + 1 \in 1..Len(data) + 1
    BY <1>1, <1>3
  <2>2. QED
    BY <1>1, <2>1, FillEnds
<1>5. \/ Continue(j + 1, slice(i, j + 1))
      \/ j <= Len(data) /\ Segment(j)
  BY <1>3 DEF Marker, Reject, ScrubEnds
<1> HIDE DEF j
<1>6. data' = data
  BY <1>5 DEF Segment, Continue, Reject, ScrubEnds
<1>7. i' \in 3..Len(data) + 1
  BY <1>2, <1>6 DEF walked
<1>8. CASE Continue(j + 1, slice(i, j + 1))
  BY <1>1, <1>4, <1>7, <1>8 DEF Continue
<1>9. CASE j <= Len(data) /\ Segment(j)
  <2> DEFINE segLen == 256 * data[j + 1] + data[j + 2]
             segEnd == j + 1 + segLen
  <2>1. /\ ~ (j + jpegLengthBytes > Len(data))
        /\ ~ (segLen < jpegLengthBytes)
        /\ i' = segEnd
    BY <1>9 DEF Segment, Continue, Reject, ScrubEnds
  <2>2. PICK x \in Int, y \in Int : x = data[j + 1] /\ y = data[j + 2]
    <3>1. j + 1 \in 1..Len(data) /\ j + 2 \in 1..Len(data)
      BY <1>1, <1>4, <2>1 DEF jpegLengthBytes
    <3>2. QED
      BY <1>1, <3>1, ByteIsInt
  <2>3. segLen = 256 * x + y
    BY <2>2
  <2> HIDE DEF segLen
  <2>4. QED
    BY <1>1, <1>4, <1>7, <2>1, <2>3 DEF jpegLengthBytes
<1>10. QED
  BY <1>5, <1>8, <1>9

-----------------------------------------------------------------------------
(***************************************************************************)
(* ExifScrub: applyOrientation, for images of every size                   *)
(***************************************************************************)
\* The comment above applyOrientation defines each orientation as a flip
\* followed by a rotation.  Each takes a pixel of a w by h image.
flipHorizontal(w, h, p) == <<w - 1 - p[1], p[2]>>
flipVertical(w, h, p)   == <<p[1], h - 1 - p[2]>>
rotate180(w, h, p)      == <<w - 1 - p[1], h - 1 - p[2]>>
rotate90CW(w, h, p)     == <<h - 1 - p[2], p[1]>>
rotate270CW(w, h, p)    == <<p[2], w - 1 - p[1]>>

documented(o, w, h, p) ==
  CASE o = 2 -> flipHorizontal(w, h, p)
    [] o = 3 -> rotate180(w, h, p)
    [] o = 4 -> flipVertical(w, h, p)
    [] o = 5 -> rotate270CW(w, h, flipHorizontal(w, h, p))
    [] o = 6 -> rotate90CW(w, h, p)
    [] o = 7 -> rotate90CW(w, h, flipHorizontal(w, h, p))
    [] o = 8 -> rotate270CW(w, h, p)
    [] OTHER -> p

\* The orientation that undoes another: quarter turns undo each other, every
\* other orientation undoes itself.
undo(o) == CASE o = 6 -> 8 [] o = 8 -> 6 [] OTHER -> o

\* The switch, one case at a time.
LEMMA OrientCases ==
  ASSUME NEW w, NEW h, NEW x, NEW y
  PROVE  /\ orient(2, w, h, x, y) = <<w - 1 - x, y>>
         /\ orient(3, w, h, x, y) = <<w - 1 - x, h - 1 - y>>
         /\ orient(4, w, h, x, y) = <<x, h - 1 - y>>
         /\ orient(5, w, h, x, y) = <<y, x>>
         /\ orient(6, w, h, x, y) = <<h - 1 - y, x>>
         /\ orient(7, w, h, x, y) = <<h - 1 - y, w - 1 - x>>
         /\ orient(8, w, h, x, y) = <<y, w - 1 - x>>
  BY DEF orient

\* applyOrientation's switch computes what its comment says, for every
\* orientation and every pixel of an image of any size.
THEOREM OrientationIsAsDocumented ==
  ASSUME NEW o \in 2..8, NEW w \in Nat, NEW h \in Nat,
         NEW x \in 0..w - 1, NEW y \in 0..h - 1
  PROVE  orient(o, w, h, x, y) = documented(o, w, h, <<x, y>>)
<1>1. /\ flipHorizontal(w, h, <<x, y>>) = <<w - 1 - x, y>>
      /\ flipVertical(w, h, <<x, y>>) = <<x, h - 1 - y>>
      /\ rotate180(w, h, <<x, y>>) = <<w - 1 - x, h - 1 - y>>
      /\ rotate90CW(w, h, <<x, y>>) = <<h - 1 - y, x>>
      /\ rotate270CW(w, h, <<x, y>>) = <<y, w - 1 - x>>
  BY DEF flipHorizontal, flipVertical, rotate180, rotate90CW, rotate270CW
<1>2. rotate90CW(w, h, <<w - 1 - x, y>>) = <<h - 1 - y, w - 1 - x>>
  BY DEF rotate90CW
<1>3. rotate270CW(w, h, <<w - 1 - x, y>>) = <<y, x>>
  BY DEF rotate270CW
<1>4. o = 2 \/ o = 3 \/ o = 4 \/ o = 5 \/ o = 6 \/ o = 7 \/ o = 8
  OBVIOUS
<1>5. QED
  BY <1>1, <1>2, <1>3, <1>4, OrientCases DEF documented

\* No pixel is written outside the new image, so Set never drops one.
THEOREM OrientationStaysInBounds ==
  ASSUME NEW o \in 2..8, NEW w \in Nat, NEW h \in Nat,
         NEW x \in 0..w - 1, NEW y \in 0..h - 1
  PROVE  orient(o, w, h, x, y) \in (0..dx(o, w, h) - 1) \X (0..dy(o, w, h) - 1)
<1>1. o = 2 \/ o = 3 \/ o = 4 \/ o = 5 \/ o = 6 \/ o = 7 \/ o = 8
  OBVIOUS
<1>2. /\ w - 1 - x \in 0..w - 1
      /\ h - 1 - y \in 0..h - 1
  OBVIOUS
<1>3. CASE o = 2 \/ o = 3 \/ o = 4
  BY <1>2, <1>3, OrientCases DEF dx, dy
<1>4. CASE o = 5 \/ o = 6 \/ o = 7 \/ o = 8
  BY <1>2, <1>4, OrientCases DEF dx, dy
<1>5. QED
  BY <1>1, <1>3, <1>4

\* Orienting back gives every pixel its old place, so no two pixels share a new
\* one, and every place of the new image is written: as many places as pixels.
THEOREM OrientationIsInvertible ==
  ASSUME NEW o \in 2..8, NEW w \in Nat, NEW h \in Nat,
         NEW x \in 0..w - 1, NEW y \in 0..h - 1
  PROVE  LET to == orient(o, w, h, x, y)
         IN  orient(undo(o), dx(o, w, h), dy(o, w, h), to[1], to[2]) = <<x, y>>
<1> DEFINE to == orient(o, w, h, x, y)
<1>1. o = 2 \/ o = 3 \/ o = 4 \/ o = 5 \/ o = 6 \/ o = 7 \/ o = 8
  OBVIOUS
<1>2. CASE o = 2 \/ o = 3 \/ o = 4
  <2>1. undo(o) = o /\ dx(o, w, h) = w /\ dy(o, w, h) = h
    BY <1>2 DEF undo, dx, dy
  <2>2. orient(o, w, h, to[1], to[2]) = <<x, y>>
    BY <1>2, OrientCases
  <2>3. QED
    BY <2>1, <2>2
<1>3. CASE o = 5 \/ o = 7
  <2>1. undo(o) = o /\ dx(o, w, h) = h /\ dy(o, w, h) = w
    BY <1>3 DEF undo, dx, dy
  <2>2. orient(o, h, w, to[1], to[2]) = <<x, y>>
    BY <1>3, OrientCases
  <2>3. QED
    BY <2>1, <2>2
<1>4. CASE o = 6
  <2>1. undo(o) = 8 /\ dx(o, w, h) = h /\ dy(o, w, h) = w
    BY <1>4 DEF undo, dx, dy
  <2>2. orient(8, h, w, to[1], to[2]) = <<x, y>>
    BY <1>4, OrientCases
  <2>3. QED
    BY <2>1, <2>2
<1>5. CASE o = 8
  <2>1. undo(o) = 6 /\ dx(o, w, h) = h /\ dy(o, w, h) = w
    BY <1>5 DEF undo, dx, dy
  <2>2. orient(6, h, w, to[1], to[2]) = <<x, y>>
    BY <1>5, OrientCases
  <2>3. QED
    BY <2>1, <2>2
<1>6. QED
  BY <1>1, <1>2, <1>3, <1>4, <1>5

=============================================================================
