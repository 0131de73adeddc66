------------------------ MODULE CatFileBatch_proofs ------------------------
(***************************************************************************)
(* Proofs about CatFileBatch: the reads of a revision stay in step with the *)
(* child, and the source implements FileSource, for blobs and pipes of      *)
(* every size, and whenever the child dies.                                 *)
(***************************************************************************)
EXTENDS CatFileBatch, SequenceTheorems, TLAPS

Token == [token : {"header", "byte", "newline"}, path : Path]
Reading == pc \in {"header", "body", "discard"}

TypeOK ==
    /\ child \in {"absent", "alive", "dead", "reaped"}
    /\ requests \in Seq(Path)
    /\ todo \in Seq(Token) /\ output \in Seq(Token) /\ content \in Seq(Token)
    /\ pc \in {"spawn", "idle", "header", "body", "discard", "killed", "closing", "closed"}
    /\ want \in Path \cup {NoPath}

\* Where the reader can be, with each state of the child.
PhaseInv ==
    /\ pc = "spawn" => /\ child = "absent" /\ answer = NoAnswer
                       /\ requests = <<>> /\ todo = <<>> /\ output = <<>>
    /\ child = "absent" => pc \in {"spawn", "idle", "closed"}
    /\ child = "alive" => Reading \/ pc \in {"idle", "closing"}
    /\ child = "dead" => todo = <<>>
    /\ child = "reaped" => pc = "closed"
    /\ pc \notin {"body", "discard"} => content = <<>>

\* The last read answered what it should have.
Kept == answer = NoAnswer \/ answer.content = Expected(answer.path)

\* Between two reads nothing is on its way.
QuietInv ==
    child = "alive" /\ ~Reading => /\ requests = <<>> /\ todo = <<>> /\ output = <<>>
                                   /\ Kept

\* How much of the answer the reader took.
taken == IF pc = "header" THEN 0 ELSE 1 + Len(content)

\* During a read the request is not accepted yet, or what is still to be read of
\* the answer is on its way: all of it, unless the child died.
Asked == pc = "header" /\ requests = <<want>> /\ todo = <<>> /\ output = <<>>
OnItsWay ==
    /\ requests = <<>>
    /\ \A i \in DOMAIN output : output[i] = Response(want)[taken + i]
    /\ \A i \in DOMAIN todo : todo[i] = Response(want)[taken + Len(output) + i]
    /\ taken + Len(output) + Len(todo) <= Len(Response(want))
    /\ child = "alive" => taken + Len(output) + Len(todo) = Len(Response(want))
ReadInv ==
    Reading =>
        /\ child \in {"alive", "dead"} /\ want \in Path /\ Kept
        /\ Asked \/ OnItsWay
        /\ pc # "header" =>
             /\ IsBlob(want) /\ size = Size[want] /\ Len(content) <= size
             /\ \A i \in DOMAIN content : content[i] = Byte(want)
             /\ pc = "body" <=> ~(size > kMaxBlobSizeBytes)

IInv == TypeOK /\ PhaseInv /\ QuietInv /\ ReadInv
-----------------------------------------------------------------------------
(* The answers of the child.                                               *)

\* What git writes for a request: a header, and for a blob its bytes and a newline.
LEMMA ResponseIs ==
    ASSUME NEW p \in Path
    PROVE  /\ Response(p) \in Seq(Token)
           /\ IsBlob(p) => /\ Size[p] \in Nat
                           /\ Len(Response(p)) = Size[p] + 2
                           /\ \A i \in 1 .. Size[p] : Response(p)[1 + i] = Byte(p)
                           /\ Bytes(p) \in Seq(Token) /\ Len(Bytes(p)) = Size[p]
           /\ ~IsBlob(p) => Len(Response(p)) = 1
           /\ Response(p)[1] = Header(p)
<1>1. Header(p) \in Token /\ Byte(p) \in Token /\ Newline(p) \in Token
  BY DEF Token, Header, Byte, Newline
<1>2. CASE ~IsBlob(p)
  <2>1. Response(p) = <<Header(p)>>
    BY <1>2 DEF Response
  <2> QED
    BY <1>1, <1>2, <2>1
<1>3. CASE IsBlob(p)
  <2>1. Size[p] \in Nat
    BY <1>3, SizeAssumption DEF IsBlob
  <2>2. Response(p) = <<Header(p)>> \o Bytes(p) \o <<Newline(p)>>
    BY <1>3 DEF Response
  <2>3. Bytes(p) \in Seq(Token) /\ Len(Bytes(p)) = Size[p] /\ \A i \in 1 .. Size[p] : Bytes(p)[i] = Byte(p)
    BY <1>1, <2>1 DEF Bytes
  <2> DEFINE b == Bytes(p)
             h == <<Header(p)>>
             n == <<Newline(p)>>
  <2>4. h \in Seq(Token) /\ Len(h) = 1 /\ h[1] = Header(p) /\ n \in Seq(Token) /\ Len(n) = 1
    BY <1>1
  <2> HIDE DEF b, h, n
  <2>5. h \o b \in Seq(Token) /\ Len(h \o b) = 1 + Size[p] /\ (h \o b)[1] = Header(p)
        /\ \A i \in 1 .. Size[p] : (h \o b)[1 + i] = Byte(p)
    <3>1. /\ h \o b \in Seq(Token) /\ Len(h \o b) = 1 + Len(b)
          /\ \A i \in 1 .. 1 + Len(b) : (h \o b)[i] = IF i <= 1 THEN h[i] ELSE b[i - 1]
      <4>1. b \in Seq(Token) /\ Len(b) \in Nat
        BY <2>1, <2>3 DEF b
      <4>2. /\ h \o b \in Seq(Token) /\ Len(h \o b) = Len(h) + Len(b)
            /\ \A i \in 1 .. Len(h) + Len(b) :
                  (h \o b)[i] = IF i <= Len(h) THEN h[i] ELSE b[i - Len(h)]
        BY <2>4, <4>1, ConcatProperties, Zenon
      <4> QED
        BY <2>4, <4>2, Zenon
    <3>2. Len(b) = Size[p] /\ \A i \in 1 .. Size[p] : b[i] = Byte(p)
      BY <2>3 DEF b
    <3>3. (h \o b)[1] = Header(p)
      BY <2>1, <2>4, <3>1, <3>2
    <3>4. ASSUME NEW i \in 1 .. Size[p] PROVE (h \o b)[1 + i] = Byte(p)
      <4>1. 1 + i \in 1 .. 1 + Len(b) /\ ~(1 + i <= 1) /\ 1 + i - 1 = i
        BY <2>1, <3>2
      <4> QED
        BY <3>1, <3>2, <4>1
    <3> QED
      BY <3>1, <3>2, <3>3, <3>4
  <2> DEFINE hb == h \o b
  <2>6. hb \in Seq(Token) /\ Len(hb) = 1 + Size[p] /\ hb[1] = Header(p)
        /\ \A i \in 1 .. Size[p] : hb[1 + i] = Byte(p)
    BY <2>5
  <2> HIDE DEF hb
  <2>7. hb \o n \in Seq(Token) /\ Len(hb \o n) = Size[p] + 2 /\ (hb \o n)[1] = Header(p)
        /\ \A i \in 1 .. Size[p] : (hb \o n)[1 + i] = Byte(p)
    <3>1. /\ hb \o n \in Seq(Token) /\ Len(hb \o n) = Len(hb) + 1
          /\ \A i \in 1 .. Len(hb) + 1 : (hb \o n)[i] = IF i <= Len(hb) THEN hb[i] ELSE n[i - Len(hb)]
      <4>1. /\ hb \o n \in Seq(Token) /\ Len(hb \o n) = Len(hb) + Len(n)
            /\ \A i \in 1 .. Len(hb) + Len(n) :
                  (hb \o n)[i] = IF i <= Len(hb) THEN hb[i] ELSE n[i - Len(hb)]
        BY <2>4, <2>6, ConcatProperties, Zenon
      <4> QED
        BY <2>4, <4>1, Zenon
    <3>2. ASSUME NEW i \in 0 .. Size[p] PROVE (hb \o n)[1 + i] = hb[1 + i]
      <4>1. 1 + i \in 1 .. Len(hb) + 1 /\ 1 + i <= Len(hb)
        BY <2>1, <2>6
      <4> QED
        BY <3>1, <4>1
    <3>3. 0 \in 0 .. Size[p] /\ 1 + 0 = 1 /\ Len(hb) + 1 = Size[p] + 2
      BY <2>1, <2>6
    <3> QED
      BY <2>1, <2>6, <3>1, <3>2, <3>3
  <2>8. Response(p) = hb \o n
    BY <2>2 DEF hb, h, b, n
  <2> QED
    BY <1>3, <2>1, <2>3, <2>7, <2>8
<1> QED
  BY <1>2, <1>3

\* The first token of a pipe, and what is left of it.
LEMMA TailIs ==
    ASSUME NEW T, NEW s \in Seq(T), s # <<>>
    PROVE  /\ Head(s) = s[1] /\ Head(s) \in T
           /\ Tail(s) \in Seq(T) /\ Len(Tail(s)) = Len(s) - 1 /\ Len(s) \in Nat /\ Len(s) >= 1
           /\ \A i \in 1 .. Len(s) - 1 : Tail(s)[i] = s[i + 1]
           /\ Len(s) = 1 => Tail(s) = <<>>
<1>1. Len(s) \in Nat \ {0} /\ s \in [1 .. Len(s) -> T]
  BY EmptySeq, LenProperties
<1>2. /\ Tail(s) \in Seq(T) /\ Len(Tail(s)) = Len(s) - 1
      /\ \A i \in 1 .. Len(s) - 1 : Tail(s)[i] = s[i + 1]
  BY HeadTailProperties
<1>3. Head(s) = s[1] /\ s[1] \in T
  BY <1>1
<1>4. ASSUME Len(s) = 1 PROVE Tail(s) = <<>>
  <2>1. Len(Tail(s)) = 0
    BY <1>2, <1>4
  <2> DEFINE r == Tail(s)
  <2>2. r \in Seq(T) /\ Len(r) = 0
    BY <1>2, <2>1
  <2> HIDE DEF r
  <2>3. r = <<>>
    BY <2>2, EmptySeq
  <2> QED
    BY <2>3 DEF r
<1> QED
  BY <1>1, <1>2, <1>3, <1>4

\* A token that is read is the next one of the answer, and the rest is still on
\* its way.
LEMMA TakeToken ==
    ASSUME IInv, Reading, output # <<>>, output' = Tail(output),
           UNCHANGED <<child, todo, requests, want>>
    PROVE  /\ OnItsWay /\ want \in Path
           /\ Head(output) = Response(want)[taken + 1]
           /\ taken + 1 <= Len(Response(want))
           /\ output' \in Seq(Token)
           /\ taken' = taken + 1 => OnItsWay'
           /\ child = "alive" /\ taken + 1 = Len(Response(want)) => output' = <<>> /\ todo = <<>>
<1>1. OnItsWay /\ want \in Path
  BY DEF IInv, ReadInv, Asked
<1>2. output \in Seq(Token) /\ todo \in Seq(Token) /\ Len(output) \in Nat /\ Len(todo) \in Nat
      /\ DOMAIN output = 1 .. Len(output) /\ DOMAIN todo = 1 .. Len(todo)
  BY DEF IInv, TypeOK
<1>3. taken \in Nat
  BY DEF taken, IInv, TypeOK
<1>4. Len(Response(want)) \in Nat
  BY <1>1, ResponseIs
<1>5. /\ Head(output) = output[1] /\ output' \in Seq(Token)
      /\ Len(output') = Len(output) - 1 /\ Len(output) >= 1
      /\ \A i \in 1 .. Len(output) - 1 : output'[i] = output[i + 1]
      /\ Len(output) = 1 => output' = <<>>
  BY <1>2, TailIs
<1>6. 1 \in DOMAIN output
  BY <1>2, <1>5
<1>7. Head(output) = Response(want)[taken + 1]
  BY <1>1, <1>5, <1>6 DEF OnItsWay
<1>8. taken + 1 <= Len(Response(want))
  BY <1>1, <1>2, <1>3, <1>4, <1>5 DEF OnItsWay
<1>9. ASSUME taken' = taken + 1 PROVE OnItsWay'
  <2>0. DOMAIN output' = 1 .. Len(output) - 1
    BY <1>5
  <2>1. ASSUME NEW i \in 1 .. Len(output) - 1 PROVE output'[i] = Response(want)[taken + 1 + i]
    <3>1. i + 1 \in 1 .. Len(output) /\ taken + (i + 1) = taken + 1 + i
      BY <1>2, <1>3
    <3>2. output[i + 1] = Response(want)[taken + (i + 1)]
      BY <1>1, <1>2, <3>1 DEF OnItsWay
    <3> QED
      BY <1>5, <3>1, <3>2
  <2>2. ASSUME NEW i \in DOMAIN todo PROVE todo[i] = Response(want)[taken + 1 + Len(output') + i]
    <3>1. taken + 1 + Len(output') + i = taken + Len(output) + i
      BY <1>2, <1>3, <1>5
    <3> QED
      BY <1>1, <3>1 DEF OnItsWay
  <2>3. taken + 1 + Len(output') + Len(todo) = taken + Len(output) + Len(todo)
    BY <1>2, <1>3, <1>5
  <2>4. requests' = <<>>
    BY <1>1 DEF OnItsWay
  <2> QED
    BY <1>1, <1>9, <2>0, <2>1, <2>2, <2>3, <2>4 DEF OnItsWay
<1>10. ASSUME child = "alive", taken + 1 = Len(Response(want)) PROVE output' = <<>> /\ todo = <<>>
  <2>1. Len(output) = 1 /\ Len(todo) = 0
    BY <1>1, <1>2, <1>3, <1>5, <1>10 DEF OnItsWay
  <2> QED
    BY <1>2, <1>5, <2>1
<1> QED
  BY <1>1, <1>5, <1>7, <1>8, <1>9, <1>10
-----------------------------------------------------------------------------
(* Every step keeps the invariant.                                         *)

\* The child accepts a request and begins its answer.
LEMMA AcceptStep == ASSUME IInv, Accept PROVE IInv'
<1>1. /\ child = "alive" /\ todo = <<>> /\ requests # <<>>
      /\ requests' = Tail(requests) /\ todo' = Response(Head(requests))
      /\ UNCHANGED <<child, output, readerVars>>
  BY DEF Accept
<1>2. Reading /\ Asked
  BY <1>1 DEF IInv, QuietInv, ReadInv, OnItsWay
<1>3. pc = "header" /\ requests = <<want>> /\ output = <<>> /\ want \in Path /\ Kept
  BY <1>2 DEF Asked, IInv, ReadInv
<1>4. requests' = <<>> /\ todo' = Response(want)
  BY <1>1, <1>3
<1>5. /\ todo' \in Seq(Token) /\ Len(todo') \in Nat
  BY <1>3, <1>4, ResponseIs
<1>6. TypeOK'
  BY <1>1, <1>4, <1>5 DEF IInv, TypeOK, readerVars
<1>7. OnItsWay'
  <2>1. taken' = 0 /\ Len(output') = 0 /\ output' = <<>> /\ want' = want
    BY <1>1, <1>3 DEF taken, readerVars
  <2>2. /\ DOMAIN output' = {} /\ DOMAIN todo' = 1 .. Len(todo')
        /\ \A i \in 1 .. Len(todo') : 0 + 0 + i = i
    BY <1>5, <2>1
  <2> QED
    BY <1>4, <1>5, <2>1, <2>2 DEF OnItsWay
<1>8. PhaseInv' /\ QuietInv'
  BY <1>1, <1>2 DEF IInv, PhaseInv, QuietInv, Reading, readerVars
<1>9. ReadInv'
  BY <1>1, <1>3, <1>7 DEF ReadInv, Reading, Kept, readerVars
<1> QED
  BY <1>6, <1>7, <1>8, <1>9 DEF IInv

\* The child writes a token.
LEMMA WriteTokenStep == ASSUME IInv, WriteToken PROVE IInv'
<1>1. /\ child = "alive" /\ todo # <<>>
      /\ output' = Append(output, Head(todo)) /\ todo' = Tail(todo)
      /\ UNCHANGED <<child, requests, readerVars>>
  BY DEF WriteToken
<1>2. Reading /\ OnItsWay
  BY <1>1 DEF IInv, QuietInv, ReadInv, Asked
<1>3. want \in Path /\ taken \in Nat /\ taken' = taken
  BY <1>1, <1>2 DEF IInv, ReadInv, taken, TypeOK, readerVars
<1>4. /\ output \in Seq(Token) /\ todo \in Seq(Token) /\ Len(output) \in Nat /\ Len(todo) \in Nat
      /\ DOMAIN output = 1 .. Len(output) /\ DOMAIN todo = 1 .. Len(todo)
  BY DEF IInv, TypeOK
<1>5. /\ Head(todo) = todo[1] /\ Head(todo) \in Token
      /\ todo' \in Seq(Token) /\ Len(todo') = Len(todo) - 1 /\ Len(todo) >= 1
      /\ \A i \in 1 .. Len(todo) - 1 : todo'[i] = todo[i + 1]
  BY <1>1, <1>4, TailIs
<1>6. /\ output' \in Seq(Token) /\ Len(output') = Len(output) + 1
      /\ \A i \in 1 .. Len(output) : output'[i] = output[i]
      /\ output'[Len(output) + 1] = todo[1]
  <2>1. output' = Append(output, Head(todo))
    BY <1>1
  <2> QED
    BY <1>4, <1>5, <2>1, AppendProperties
<1>7. TypeOK'
  BY <1>1, <1>5, <1>6 DEF IInv, TypeOK, readerVars
<1>8. OnItsWay'
  <2>1. ASSUME NEW i \in DOMAIN output' PROVE output'[i] = Response(want)[taken + i]
    <3>1. i \in 1 .. Len(output) \/ i = Len(output) + 1
      BY <1>4, <1>6
    <3>2. CASE i \in 1 .. Len(output)
      BY <1>2, <1>4, <1>6, <3>2 DEF OnItsWay
    <3>3. CASE i = Len(output) + 1
      <4>1. 1 \in DOMAIN todo /\ taken + Len(output) + 1 = taken + i
        BY <1>3, <1>4, <1>5, <3>3
      <4>2. todo[1] = Response(want)[taken + Len(output) + 1]
        BY <1>2, <4>1 DEF OnItsWay
      <4> QED
        BY <1>6, <3>3, <4>1, <4>2
    <3> QED
      BY <3>1, <3>2, <3>3
  <2>2. ASSUME NEW i \in DOMAIN todo' PROVE todo'[i] = Response(want)[taken + Len(output') + i]
    <3>1. i \in 1 .. Len(todo) - 1 /\ i + 1 \in DOMAIN todo
      BY <1>4, <1>5
    <3>2. taken + Len(output') + i = taken + Len(output) + (i + 1)
      BY <1>3, <1>4, <1>6, <3>1
    <3> QED
      BY <1>2, <1>5, <3>1, <3>2 DEF OnItsWay
  <2>3. taken + Len(output') + Len(todo') = taken + Len(output) + Len(todo)
    BY <1>3, <1>4, <1>5, <1>6
  <2>4. want' = want /\ requests' = requests /\ child' = child
    BY <1>1 DEF readerVars
  <2> QED
    BY <1>2, <1>3, <2>1, <2>2, <2>3, <2>4 DEF OnItsWay
<1>9. PhaseInv' /\ QuietInv'
  BY <1>1, <1>2 DEF IInv, PhaseInv, QuietInv, Reading, readerVars
<1>10. ReadInv'
  BY <1>1, <1>2, <1>8 DEF IInv, ReadInv, Reading, Kept, readerVars
<1> QED
  BY <1>7, <1>9, <1>10 DEF IInv

\* The child dies: what is in the pipe stays there, the rest of its answer is lost.
LEMMA DieStep == ASSUME IInv, Die PROVE IInv'
<1>1. /\ child = "alive" /\ child' = "dead" /\ todo' = <<>>
      /\ UNCHANGED <<requests, output, readerVars>>
  BY DEF Die
<1>2. TypeOK'
  BY <1>1 DEF IInv, TypeOK, readerVars
<1>3. PhaseInv' /\ QuietInv'
  BY <1>1 DEF IInv, PhaseInv, QuietInv, Reading, readerVars
<1>4. ASSUME Reading PROVE Asked' \/ OnItsWay'
  <2>1. CASE Asked
    BY <1>1, <2>1 DEF Asked, readerVars
  <2>2. CASE OnItsWay
    <3>1. taken' = taken /\ taken \in Nat /\ Len(output) \in Nat /\ Len(todo) \in Nat
      BY <1>1 DEF IInv, TypeOK, taken, readerVars
    <3>2. want \in Path /\ Len(Response(want)) \in Nat
      BY <1>4, ResponseIs DEF IInv, ReadInv
    <3>3. Len(todo') = 0 /\ DOMAIN todo' = {}
      BY <1>1
    <3>4. taken + Len(output) + 0 <= Len(Response(want))
      BY <2>2, <3>1, <3>2 DEF OnItsWay
    <3> QED
      BY <1>1, <2>2, <3>1, <3>3, <3>4 DEF OnItsWay, readerVars
  <2> QED
    BY <1>4, <2>1, <2>2 DEF IInv, ReadInv
<1>5. ReadInv'
  BY <1>1, <1>4 DEF IInv, ReadInv, Reading, Kept, readerVars
<1> QED
  BY <1>2, <1>3, <1>5 DEF IInv

\* What a read returns is what it should, unless the child died.
LEMMA ReturnStep ==
    ASSUME IInv, Reading, NEW tokens, Return(tokens), output' \in Seq(Token),
           UNCHANGED <<childVars, requests, want>>,
           child = "alive" => /\ requests = <<>> /\ todo = <<>> /\ output' = <<>>
                              /\ tokens = Expected(want)
    PROVE  IInv'
<1>1. answer' = [path |-> want, content |-> tokens] /\ pc' = "idle" /\ content' = <<>>
      /\ child' = child /\ todo' = todo /\ requests' = requests /\ want' = want
  BY DEF Return, childVars
<1>2. child \in {"alive", "dead"}
  BY DEF IInv, ReadInv
<1>3. TypeOK'
  BY <1>1 DEF IInv, TypeOK
<1>4. PhaseInv'
  BY <1>1, <1>2 DEF IInv, PhaseInv, Reading
<1>5. QuietInv'
  BY <1>1 DEF QuietInv, Kept, Expected, Reading
<1>6. ReadInv'
  BY <1>1 DEF ReadInv, Reading
<1> QED
  BY <1>3, <1>4, <1>5, <1>6 DEF IInv

\* The line that is read is the header of the blob that was asked for, or says
\* that it is missing.
LEMMA ReadLineIs ==
    ASSUME IInv, ReadLine
    PROVE  /\ Reading /\ want \in Path /\ pc = "header" /\ content = <<>> /\ output # <<>>
           /\ output' = Tail(output) /\ output' \in Seq(Token)
           /\ UNCHANGED <<childVars, requests, want, reads>>
           /\ \/ /\ IsBlob(want) /\ size' = Size[want]
                 /\ pc' = IF size' > kMaxBlobSizeBytes THEN "discard" ELSE "body"
                 /\ UNCHANGED <<content, answer>>
                 /\ OnItsWay'
              \/ /\ ~IsBlob(want) /\ Return(<<>>)
                 /\ child = "alive" => requests = <<>> /\ todo = <<>> /\ output' = <<>>
<1>1. pc = "header" /\ output # <<>> /\ output' = Tail(output)
      /\ UNCHANGED <<childVars, requests, want, reads>>
  BY DEF ReadLine
<1>2. Reading /\ content = <<>> /\ taken = 0
  BY <1>1 DEF Reading, IInv, PhaseInv, taken
<1>3. UNCHANGED <<child, todo, requests, want>>
  BY <1>1 DEF childVars
<1>4. /\ OnItsWay /\ want \in Path /\ Head(output) = Response(want)[taken + 1]
      /\ output' \in Seq(Token)
      /\ taken' = taken + 1 => OnItsWay'
      /\ child = "alive" /\ taken + 1 = Len(Response(want)) => output' = <<>> /\ todo = <<>>
  BY <1>1, <1>2, <1>3, TakeToken
<1>5. Head(output) = Header(want)
  BY <1>2, <1>4, ResponseIs
<1>6. Head(output).token = "header" /\ Head(output).path = want
  BY <1>5 DEF Header
<1>7. CASE IsBlob(want)
  <2>1. /\ size' = Size[want]
        /\ pc' = IF size' > kMaxBlobSizeBytes THEN "discard" ELSE "body"
        /\ UNCHANGED <<content, answer>>
    BY <1>2, <1>6, <1>7 DEF ReadLine, parseBlobSize, IsBlob
  <2>2. taken' = taken + 1
    BY <1>2, <2>1 DEF taken
  <2> QED
    BY <1>1, <1>2, <1>4, <1>7, <2>1, <2>2
<1>8. CASE ~IsBlob(want)
  <2>1. Return(<<>>)
    BY <1>2, <1>6, <1>8 DEF ReadLine, parseBlobSize, IsBlob
  <2>2. Len(Response(want)) = 1
    BY <1>4, <1>8, ResponseIs
  <2>3. requests = <<>>
    BY <1>4 DEF OnItsWay
  <2> QED
    BY <1>1, <1>2, <1>4, <1>8, <2>1, <2>2, <2>3
<1> QED
  BY <1>7, <1>8

\* A header is the first token of the answer to this read; it ends the read if
\* there is no blob, and gives the size of what follows if there is one.
LEMMA ReadLineStep == ASSUME IInv, ReadLine PROVE IInv'
<1>1. /\ Reading /\ want \in Path /\ pc = "header" /\ content = <<>>
      /\ output' \in Seq(Token) /\ UNCHANGED <<childVars, requests, want, reads>>
  BY ReadLineIs
<1>2. CASE /\ IsBlob(want) /\ size' = Size[want]
           /\ pc' = IF size' > kMaxBlobSizeBytes THEN "discard" ELSE "body"
           /\ UNCHANGED <<content, answer>>
           /\ OnItsWay'
  <2>1. child' = child /\ todo' = todo /\ requests' = requests /\ want' = want /\ content' = <<>>
        /\ answer' = answer /\ pc' \in {"body", "discard"}
    BY <1>1, <1>2 DEF childVars
  <2>2. TypeOK'
    BY <1>1, <2>1 DEF IInv, TypeOK
  <2>3. PhaseInv' /\ QuietInv'
    BY <1>1, <2>1 DEF IInv, PhaseInv, QuietInv, ReadInv, Reading
  <2>4. Size[want] \in Nat /\ Len(content') = 0 /\ DOMAIN content' = {}
    BY <1>1, <1>2, <2>1, ResponseIs
  <2>5. ReadInv'
    BY <1>1, <1>2, <2>1, <2>4 DEF IInv, ReadInv, Reading, Kept, IsBlob
  <2> QED
    BY <2>2, <2>3, <2>5 DEF IInv
<1>3. CASE /\ ~IsBlob(want) /\ Return(<<>>)
           /\ child = "alive" => requests = <<>> /\ todo = <<>> /\ output' = <<>>
  <2>1. Expected(want) = <<>>
    BY <1>3 DEF Expected
  <2> QED
    BY <1>1, <1>3, <2>1, ReturnStep
<1> QED
  BY <1>2, <1>3, ReadLineIs

\* A byte of the body is the next token of the answer, whether it is kept or the
\* blob is too large and it is discarded.
LEMMA ReadByteStep == ASSUME IInv, ReadByte PROVE IInv'
<1>1. /\ pc \in {"body", "discard"} /\ Len(content) < size /\ output # <<>>
      /\ output' = Tail(output) /\ content' = Append(content, Head(output))
      /\ UNCHANGED <<child, todo, requests, pc, want, size, answer, reads>>
  BY DEF ReadByte, childVars
<1>2. Reading
  BY <1>1 DEF Reading
<1>3. /\ OnItsWay /\ want \in Path /\ Head(output) = Response(want)[taken + 1]
      /\ output' \in Seq(Token)
      /\ taken' = taken + 1 => OnItsWay'
  BY <1>1, <1>2, TakeToken
<1>4. /\ IsBlob(want) /\ size = Size[want] /\ Size[want] \in Nat
      /\ \A i \in DOMAIN content : content[i] = Byte(want)
  BY <1>1, <1>2, <1>3, ResponseIs DEF IInv, ReadInv
<1>5. content \in Seq(Token) /\ Len(content) \in Nat /\ DOMAIN content = 1 .. Len(content)
  BY DEF IInv, TypeOK
<1>6. Head(output) = Byte(want)
  <2>1. taken + 1 = 1 + (Len(content) + 1) /\ Len(content) + 1 \in 1 .. Size[want]
    BY <1>1, <1>4, <1>5 DEF taken
  <2> QED
    BY <1>3, <1>4, <2>1, ResponseIs
<1>7. Byte(want) \in Token
  BY <1>3 DEF Byte, Token
<1>8. /\ content' \in Seq(Token) /\ Len(content') = Len(content) + 1
      /\ \A i \in 1 .. Len(content) : content'[i] = content[i]
      /\ content'[Len(content) + 1] = Byte(want)
  <2>1. content' = Append(content, Byte(want))
    BY <1>1, <1>6
  <2> QED
    BY <1>5, <1>7, <2>1, AppendProperties
<1>9. \A i \in DOMAIN content' : content'[i] = Byte(want)
  <2>1. \A i \in DOMAIN content' : i \in 1 .. Len(content) \/ i = Len(content) + 1
    BY <1>5, <1>8
  <2> QED
    BY <1>4, <1>5, <1>8, <2>1
<1>10. taken' = taken + 1
  BY <1>1, <1>5, <1>8 DEF taken
<1>11. TypeOK'
  BY <1>1, <1>3, <1>8 DEF IInv, TypeOK
<1>12. PhaseInv' /\ QuietInv'
  BY <1>1, <1>2 DEF IInv, PhaseInv, QuietInv, Reading
<1>13. ReadInv'
  <2>1. Len(content') <= size
    BY <1>1, <1>4, <1>5, <1>8
  <2> QED
    BY <1>1, <1>2, <1>3, <1>9, <1>10, <2>1 DEF IInv, ReadInv, Reading, Kept, IsBlob
<1> QED
  BY <1>11, <1>12, <1>13 DEF IInv

\* The trailing newline is the last of the answer.
LEMMA TrailerIs ==
    ASSUME IInv, Trailer
    PROVE  /\ Reading /\ want \in Path /\ output' \in Seq(Token)
           /\ UNCHANGED <<childVars, requests, want>>
           /\ Return(Expected(want))
           /\ child = "alive" => requests = <<>> /\ todo = <<>> /\ output' = <<>>
<1>1. /\ pc \in {"body", "discard"} /\ Len(content) = size
      /\ output # <<>> \/ EndOfOutput
      /\ output' = IF output = <<>> THEN <<>> ELSE Tail(output)
      /\ Return(IF pc = "body" THEN content ELSE <<>>)
      /\ UNCHANGED <<child, todo, requests, want>>
  BY DEF Trailer, childVars
<1>2. Reading
  BY <1>1 DEF Reading
<1>3. /\ want \in Path /\ IsBlob(want) /\ size = Size[want] /\ Size[want] \in Nat
      /\ \A i \in DOMAIN content : content[i] = Byte(want)
      /\ pc = "body" <=> ~(size > kMaxBlobSizeBytes)
  BY <1>1, <1>2, ResponseIs DEF IInv, ReadInv
<1>4. content \in Seq(Token) /\ DOMAIN content = 1 .. Len(content)
  BY DEF IInv, TypeOK
<1>5. Return(Expected(want))
  <2>1. size <= kMaxBlobSizeBytes <=> ~(size > kMaxBlobSizeBytes)
    BY <1>3, LimitsAssumption
  <2>2. content = Bytes(want)
    BY <1>1, <1>3, <1>4 DEF Bytes
  <2> QED
    BY <1>1, <1>3, <2>1, <2>2 DEF Expected
<1>6. CASE output = <<>>
  <2>1. output' = <<>> /\ output' \in Seq(Token) /\ child = "dead"
    BY <1>1, <1>6 DEF EndOfOutput, IInv, TypeOK
  <2> QED
    BY <1>1, <1>2, <1>3, <1>5, <2>1 DEF childVars
<1>7. CASE output # <<>>
  <2>1. /\ OnItsWay /\ output' \in Seq(Token)
        /\ child = "alive" /\ taken + 1 = Len(Response(want)) => output' = <<>> /\ todo = <<>>
    BY <1>1, <1>2, <1>7, TakeToken
  <2>2. taken + 1 = Len(Response(want))
    <3>1. taken = 1 + Size[want] /\ Len(Response(want)) = Size[want] + 2
      BY <1>1, <1>3, ResponseIs DEF taken
    <3> QED
      BY <1>3, <3>1
  <2>3. requests = <<>>
    BY <2>1 DEF OnItsWay
  <2> QED
    BY <1>1, <1>2, <1>3, <1>5, <2>1, <2>2, <2>3 DEF childVars
<1> QED
  BY <1>6, <1>7

\* The reader asks for a path.
LEMMA SendRequestStep == ASSUME IInv, NEW p \in Path, SendRequest(p) PROVE IInv'
<1>1. /\ pc = "idle" /\ child = "alive" /\ want' = p /\ requests' = Append(requests, p)
      /\ pc' = "header" /\ UNCHANGED <<child, todo, output, size, content, answer>>
  BY DEF SendRequest, childVars
<1>2. requests = <<>> /\ todo = <<>> /\ output = <<>> /\ Kept /\ content = <<>>
  BY <1>1 DEF IInv, QuietInv, PhaseInv, Reading
<1>3. requests' = <<p>> /\ requests' \in Seq(Path)
  BY <1>1, <1>2
<1>4. TypeOK'
  BY <1>1, <1>3 DEF IInv, TypeOK
<1>5. PhaseInv' /\ QuietInv'
  BY <1>1, <1>2 DEF IInv, PhaseInv, QuietInv, Reading
<1>6. ReadInv'
  BY <1>1, <1>2, <1>3 DEF ReadInv, Reading, Asked, Kept
<1> QED
  BY <1>4, <1>5, <1>6 DEF IInv

\* Every state of a run satisfies the invariant.
THEOREM Invariance == Spec => []IInv
<1>1. Init => IInv
  BY DEF Init, IInv, TypeOK, PhaseInv, QuietInv, ReadInv, Reading
<1>2. ASSUME IInv, [Next]_vars PROVE IInv'
  <2>1. CASE spawnCatFileBatch
    BY <1>2, <2>1 DEF spawnCatFileBatch, IInv, TypeOK, PhaseInv, QuietInv, ReadInv, Reading, Kept
  <2>2. ASSUME NEW p \in Path, ReadNothing(p) PROVE IInv'
    BY <1>2, <2>2 DEF ReadNothing, childVars, IInv, TypeOK, PhaseInv, QuietInv, ReadInv, Reading
  <2>3. ASSUME NEW p \in Path, SendToDead(p) PROVE IInv'
    BY <1>2, <2>3 DEF SendToDead, childVars, IInv, TypeOK, PhaseInv, QuietInv, ReadInv, Reading
  <2>4. CASE NoHeader
    <3>1. /\ Reading /\ Return(<<>>) /\ output' \in Seq(Token) /\ child = "dead"
          /\ UNCHANGED <<childVars, requests, want>>
      BY <1>2, <2>4 DEF NoHeader, EndOfOutput, Reading, IInv, TypeOK
    <3> QED
      BY <1>2, <3>1, ReturnStep
  <2>5. CASE ShortBody
    <3>1. /\ Reading /\ Return(<<>>) /\ output' \in Seq(Token) /\ child = "dead"
          /\ UNCHANGED <<childVars, requests, want>>
      BY <1>2, <2>5 DEF ShortBody, EndOfOutput, Reading, IInv, TypeOK
    <3> QED
      BY <1>2, <3>1, ReturnStep
  <2>6. CASE Trailer
    <3>1. /\ Reading /\ Return(Expected(want)) /\ output' \in Seq(Token)
          /\ UNCHANGED <<childVars, requests, want>>
          /\ child = "alive" => requests = <<>> /\ todo = <<>> /\ output' = <<>>
      BY <1>2, <2>6, TrailerIs
    <3> QED
      BY <1>2, <3>1, ReturnStep
  <2>7. CASE CloseChild
    BY <1>2, <2>7 DEF CloseChild, childVars, IInv, TypeOK, PhaseInv, QuietInv, ReadInv, Reading, Kept
  <2>8. CASE WaitChild
    BY <1>2, <2>8 DEF WaitChild, IInv, TypeOK, PhaseInv, QuietInv, ReadInv, Reading
  <2>9. CASE Leave
    BY <1>2, <2>9 DEF Leave, readerVars, IInv, TypeOK, PhaseInv, QuietInv, ReadInv, Reading
  <2>10. CASE UNCHANGED vars
    BY <1>2, <2>10 DEF vars, childVars, readerVars, IInv, TypeOK, PhaseInv, QuietInv, ReadInv,
                       Reading, Kept, Asked, OnItsWay, taken
  <2> QED
    BY <1>2, <2>1, <2>2, <2>3, <2>4, <2>5, <2>6, <2>7, <2>8, <2>9, <2>10, SendRequestStep,
       ReadLineStep, ReadByteStep, AcceptStep, WriteTokenStep, DieStep
       DEF Next, ReaderSteps, ChildSteps
<1> QED
  BY <1>1, <1>2, PTL DEF Spec
-----------------------------------------------------------------------------
\* Between two reads nothing of an earlier answer is left on its way.
THEOREM StaysInSync == Spec => []InSync
<1>1. IInv => InSync
  BY DEF IInv, QuietInv, InSync, Reading
<1> QED
  BY <1>1, Invariance, PTL

\* The source is broken once a read did not answer what it should have.
Broken == answer # NoAnswer /\ (child = "absent" \/ answer.content # Expected(answer.path))

\* A read that returns is an answer of the abstract source, or its failure.
LEMMA ReturnIsAnswer ==
    ASSUME IInv, Reading, NEW tokens, Return(tokens), child' = child,
           tokens = Expected(want) \/ tokens = <<>>
    PROVE  \E p \in Path : Abstract!Answer(p) \/ Abstract!Fail(p)
<1>1. want \in Path /\ Kept /\ child \in {"alive", "dead"}
  BY DEF IInv, ReadInv
<1>2. answer' = [path |-> want, content |-> tokens] /\ answer' # NoAnswer
  BY <1>1, PathAssumption DEF Return, NoAnswer
<1>3. ~Broken
  BY <1>1 DEF Broken, Kept
<1>4. Broken' <=> tokens # Expected(want)
  BY <1>1, <1>2 DEF Broken, Expected, Bytes, IsBlob, Byte
<1>5. CASE tokens = Expected(want)
  <2>1. Abstract!Answer(want)
    BY <1>1, <1>2, <1>3, <1>4, <1>5 DEF Abstract!Answer, Broken
  <2> QED
    BY <1>1, <2>1
<1>6. CASE tokens # Expected(want)
  <2>1. Abstract!Fail(want)
    BY <1>2, <1>4, <1>6 DEF Abstract!Fail, Broken
  <2> QED
    BY <1>1, <2>1
<1> QED
  BY <1>5, <1>6

\* Every step of the reader and the child is one of the abstract source, or
\* changes nothing that it shows.
LEMMA StepIsAbstract == ASSUME IInv, [Next]_vars PROVE [Abstract!Next]_(Abstract!vars)
<1>1. ASSUME answer' = answer, child' = child PROVE UNCHANGED Abstract!vars
  BY <1>1 DEF Abstract!vars, Expected, IsBlob, Bytes, Byte
<1>2. ASSUME answer' = answer, child # "absent", child' # "absent" PROVE UNCHANGED Abstract!vars
  BY <1>2 DEF Abstract!vars, Expected, IsBlob, Bytes, Byte
<1>3. CASE spawnCatFileBatch
  <2>1. answer = NoAnswer /\ answer' = NoAnswer
    BY <1>3 DEF spawnCatFileBatch, IInv, PhaseInv
  <2> QED
    BY <2>1 DEF Abstract!vars, NoAnswer
<1>4. ASSUME NEW p \in Path, ReadNothing(p) PROVE Abstract!Next
  <2>1. answer' = [path |-> p, content |-> <<>>] /\ child' = "absent" /\ answer' # NoAnswer
    BY <1>4, PathAssumption DEF ReadNothing, childVars, NoAnswer
  <2>2. Abstract!Fail(p)
    BY <2>1 DEF Abstract!Fail
  <2> QED
    BY <2>2 DEF Abstract!Next
<1>5. CASE ReadLine
  <2>1. Reading /\ child' = child
    BY <1>5, ReadLineIs DEF childVars
  <2>2. CASE Return(<<>>)
    BY <2>1, <2>2, ReturnIsAnswer DEF Abstract!Next
  <2>3. CASE answer' = answer
    BY <1>1, <2>1, <2>3
  <2> QED
    BY <1>5, <2>2, <2>3, ReadLineIs
<1>6. CASE NoHeader \/ ShortBody
  <2>1. Reading /\ Return(<<>>) /\ child' = child
    BY <1>6 DEF NoHeader, ShortBody, Reading, childVars
  <2> QED
    BY <2>1, ReturnIsAnswer DEF Abstract!Next
<1>7. CASE Trailer
  <2>1. Reading /\ Return(Expected(want)) /\ child' = child
    BY <1>7, TrailerIs DEF childVars
  <2> QED
    BY <2>1, ReturnIsAnswer DEF Abstract!Next
<1>8. CASE ReadByte \/ CloseChild \/ Accept \/ WriteToken \/ UNCHANGED vars
           \/ \E p \in Path : SendRequest(p) \/ SendToDead(p)
  <2>1. answer' = answer /\ child' = child
    BY <1>8 DEF ReadByte, CloseChild, Accept, WriteToken, vars, SendRequest, SendToDead, childVars,
                readerVars
  <2> QED
    BY <1>1, <2>1
<1>9. CASE WaitChild \/ Leave \/ Die
  <2>1. answer' = answer /\ child # "absent" /\ child' # "absent"
    BY <1>9 DEF WaitChild, Leave, Die, readerVars
  <2> QED
    BY <1>2, <2>1
<1> QED
  BY <1>3, <1>4, <1>5, <1>6, <1>7, <1>8, <1>9 DEF Next, ReaderSteps, ChildSteps

\* The reads over the pipes implement the abstract source: a read answers with
\* the whole content of its path, or with nothing once the child is gone.
THEOREM SourceRefinement == Spec => ImplementsFileSource
<1>1. Init => Abstract!Init
  BY DEF Init, Abstract!Init, NoAnswer, Abstract!None
<1> QED
  BY <1>1, StepIsAbstract, Invariance, PTL DEF Spec, ImplementsFileSource, Abstract!Spec
=============================================================================
