----------------------------- MODULE ExifScrub -----------------------------
(***************************************************************************)
(* Scrub, which a photo goes through before it is stored: the loop of      *)
(* stripJPEGExif over the segments ahead of the scan data, one step per    *)
(* iteration, or, for a photo that declares an orientation, decoding it    *)
(* and encoding it again the right way up.                                 *)
(*                                                                         *)
(* Photos are sequences of bytes, with their real values.  Go's offset p   *)
(* is position p + 1 here.                                                 *)
(***************************************************************************)
EXTENDS Integers, FiniteSets, Sequences, SequencesExt

CONSTANT Photo   \* what may be scrubbed

ASSUME PhotoAssumption == Photo \subseteq Seq(0..255)

VARIABLES
  scrubPc,   \* where Scrub is, or how it ended
  data,      \* the photo it was called with
  i,         \* the loop's position in data
  out        \* what it has written

scrubVars == <<scrubPc, data, i, out>>

-----------------------------------------------------------------------------
jpegMarkerByte == 255
jpegSOIMarker  == 216
jpegEOIMarker  == 217
jpegSOSMarker  == 218
jpegTEMMarker  == 1
jpegRestart    == 208..215
jpegAPP1Marker == 225
jpegLengthBytes == 2

\* "Exif" and two zero bytes.
exifAPP1Signature == <<69, 120, 105, 102, 0, 0>>

isExifAPP1(marker, payload) ==
  marker = jpegAPP1Marker /\ IsPrefix(exifAPP1Signature, payload)

ScrubInit ==
  /\ scrubPc = "idle"
  /\ data = <<>>
  /\ i = 0
  /\ out = <<>>

-----------------------------------------------------------------------------
isJPEG(d) == IsPrefix(<<jpegMarkerByte, jpegSOIMarker>>, d)

\* A photo without an SOI marker is returned as it is.
Scrub(photo, orientation) ==
  /\ scrubPc = "idle"
  /\ data' = photo
  /\ i' = 3
  /\ \/ /\ orientation \in 2..8
        /\ scrubPc' = "reencode"
        /\ out' = <<>>
     \/ /\ orientation \notin 2..8
        /\ isJPEG(photo)
        /\ scrubPc' = "walk"
        /\ out' = <<jpegMarkerByte, jpegSOIMarker>>
     \/ /\ orientation \notin 2..8
        /\ ~ isJPEG(photo)
        /\ scrubPc' = "not a JPEG"
        /\ out' = photo

ScrubEnds(how, result) ==
  /\ scrubPc' = how
  /\ out' = result
  /\ UNCHANGED <<data, i>>

Reject == ScrubEnds("malformed", <<>>)

Continue(end, written) ==
  /\ i' = end
  /\ out' = out \o written
  /\ UNCHANGED <<scrubPc, data>>

\* The bytes from position a up to, and without, position b.
slice(a, b) == SubSeq(data, a, b - 1)

\* The first byte from position a on that is not 0xFF, or the end of data.
skipFill(a) ==
  CHOOSE j \in a..Len(data) + 1 :
    /\ j <= Len(data) => data[j] # jpegMarkerByte
    /\ \A f \in a..j - 1 : data[f] = jpegMarkerByte

\* Mutation: the walk gives up on a byte that is no marker and keeps the rest.
NoMarkerKept ==
  /\ data[i] # jpegMarkerByte
  /\ ScrubEnds("stripped", out \o slice(i, Len(data) + 1))

NoMarker == data[i] # jpegMarkerByte /\ Reject

\* A marker with a length field: copied, or dropped with the fill bytes ahead
\* of it when it is EXIF.
Segment(j) ==
  LET segLen == 256 * data[j + 1] + data[j + 2]
      segEnd == j + 1 + segLen
  IN IF j + jpegLengthBytes > Len(data)
     THEN Reject
     ELSE IF segLen < jpegLengthBytes \/ j + segLen > Len(data)
          THEN Reject
          ELSE Continue(segEnd, IF isExifAPP1(data[j], slice(j + 3, segEnd))
                                THEN <<>> ELSE slice(i, segEnd))

Marker ==
  LET j == skipFill(i + 1)
  IN /\ data[i] = jpegMarkerByte
     /\ \/ j > Len(data) /\ Reject
        \/ /\ j <= Len(data)
           /\ data[j] \in {jpegSOSMarker, jpegEOIMarker}
           /\ ScrubEnds("stripped", out \o slice(i, Len(data) + 1))
        \/ /\ j <= Len(data)
           /\ data[j] \in {jpegTEMMarker} \cup jpegRestart
           /\ Continue(j + 1, slice(i, j + 1))
        \/ /\ j <= Len(data)
           /\ data[j] \notin {jpegSOSMarker, jpegEOIMarker, jpegTEMMarker} \cup jpegRestart
           /\ Segment(j)

\* One iteration of stripJPEGExif's loop, or its end.
Walk ==
  /\ scrubPc = "walk"
  /\ \/ i <= Len(data) /\ NoMarker
     \/ i <= Len(data) /\ Marker
     \/ i > Len(data) /\ ScrubEnds("stripped", out)

\* What jpeg.Encode writes: no APP1 segment among its own.
encoded == <<jpegMarkerByte, jpegSOIMarker, jpegMarkerByte, jpegSOSMarker>>

\* reencodeUpright: the header or the pixels do not decode, the claimed size is
\* over maxDecodePixels, or the encoder fails; or it succeeds.
Reencode ==
  /\ scrubPc = "reencode"
  /\ \/ ScrubEnds("undecodable", <<>>)
     \/ ScrubEnds("reencoded", encoded)

StopScrub ==
  /\ scrubPc' = "idle"
  /\ data' = <<>>
  /\ i' = 0
  /\ out' = <<>>

-----------------------------------------------------------------------------
(***************************************************************************)
(* applyOrientation: where the pixel at (x, y) of a w by h image goes      *)
(***************************************************************************)
orient(o, w, h, x, y) ==
  CASE o = 2 -> <<w - 1 - x, y>>
    [] o = 3 -> <<w - 1 - x, h - 1 - y>>
    [] o = 4 -> <<x, h - 1 - y>>
    [] o = 5 -> <<y, x>>
    [] o = 6 -> <<h - 1 - y, x>>
    [] o = 7 -> <<h - 1 - y, w - 1 - x>>
    [] o = 8 -> <<y, w - 1 - x>>
    [] OTHER -> <<x, y>>

\* The bounds of the new image.
dx(o, w, h) == IF o >= 5 THEN h ELSE w
dy(o, w, h) == IF o >= 5 THEN w ELSE h

-----------------------------------------------------------------------------
(***************************************************************************)
(* What a reader of a JPEG finds ahead of the scan data                    *)
(***************************************************************************)
\* The bytes of d from position a to b - 1 are one marker, with its fill bytes,
\* and c is the position of its code.
isUnit(d, a, c, b) ==
  /\ a < c /\ c < b /\ b <= Len(d) + 1
  /\ d[c] \notin {jpegMarkerByte, jpegSOSMarker, jpegEOIMarker}
  /\ \A f \in a..c - 1 : d[f] = jpegMarkerByte
  /\ IF d[c] \in {jpegTEMMarker} \cup jpegRestart
     THEN b = c + 1
     ELSE c + 3 <= b /\ b = c + 1 + 256 * d[c + 1] + d[c + 2]

\* For each position of d, whether a reader that goes from marker to marker
\* comes to it.
visits(d) ==
  LET at[b \in 3..Len(d) + 1] ==
        b = 3 \/ \E a \in {a \in 3..b - 2 : d[a] = jpegMarkerByte} :
                   /\ \E c \in a + 1..b - 1 : isUnit(d, a, c, b)
                   /\ at[a]
  IN at

reached(d, p) == visits(d)[p]

\* The positions of all bytes that belong to an EXIF segment.
exifBytes(d) ==
  LET at(byte) == {p \in 3..Len(d) : d[p] = byte}
      exif == {u \in at(jpegMarkerByte) \X at(jpegAPP1Marker) \X (4..Len(d) + 1) :
                 /\ isUnit(d, u[1], u[2], u[3])
                 /\ isExifAPP1(jpegAPP1Marker, SubSeq(d, u[2] + 3, u[3] - 1))
                 /\ reached(d, u[1])}
  IN UNION {u[1]..u[3] - 1 : u \in exif}

\* The reader gets to the scan data, to EOI or to the end of the file.
wellFormed(d) ==
  \E p \in 3..Len(d) + 1 :
    /\ \/ p = Len(d) + 1
       \/ /\ d[p] = jpegMarkerByte
          /\ \E c \in p + 1..Len(d) :
               /\ d[c] \in {jpegSOSMarker, jpegEOIMarker}
               /\ \A f \in p..c - 1 : d[f] = jpegMarkerByte
    /\ reached(d, p)

\* s is d with the positions in gone taken out: the byte at a position that is
\* kept comes after those at the kept positions ahead of it.
isWithout(s, d, gone) ==
  LET kept == (1..Len(d)) \ gone
      upTo(p) == {q \in kept : q <= p}
  IN /\ Len(s) = Cardinality(kept)
     /\ \A p \in kept : s[Cardinality(upTo(p))] = d[p]

\* Scrub's promise of a JPEG: what it returns can be followed to its scan data
\* and has no EXIF segment that a reader would come to; when it need not encode
\* the photo again, that is the photo with exactly the EXIF segments taken out,
\* and a photo is rejected only if its markers cannot be followed to the scan
\* data.
ScrubRemovesExactlyExif ==
  /\ scrubPc \in {"stripped", "reencoded"} => wellFormed(out) /\ exifBytes(out) = {}
  /\ scrubPc = "stripped" => wellFormed(data) /\ isWithout(out, data, exifBytes(data))
  /\ scrubPc = "malformed" => ~ wellFormed(data)

\* Every marker of d that a reader comes to is all there, up to the end of d.
whole(d) ==
  /\ reached(d, Len(d) + 1)
  /\ \A a \in 3..Len(d) :
       reached(d, a) => \E c, b \in a + 1..Len(d) + 1 : isUnit(d, a, c, b)

\* s is what is left of the first n - 1 bytes of d, which are whole, without
\* their EXIF segments, and is whole itself.
walked(d, n, s) ==
  LET read == SubSeq(d, 1, n - 1)
  IN /\ n \in 3..Len(d) + 1
     /\ Len(s) >= 2
     /\ whole(read) /\ whole(s)
     /\ exifBytes(s) = {}
     /\ isWithout(s, read, exifBytes(read))

\* What makes the promise inductive.
ScrubInv ==
  /\ data \in Seq(0..255) /\ out \in Seq(0..255)
  /\ scrubPc = "walk" => walked(data, i, out)
  /\ ScrubRemovesExactlyExif

=============================================================================
