--------------------------- MODULE HttpFileProofs ---------------------------
(***************************************************************************)
(* For any files, buffers and number of changes, and entries that cannot   *)
(* be read, have no end or cannot be opened among them: the body that      *)
(* HttpFileHandler::do_GET sends is the file it opened, and agrees with    *)
(* Content-Length unless the name or the file was changed meanwhile.       *)
(***************************************************************************)
EXTENDS HttpFile, LeastNumber, SequenceTheorems, TLAPS

-----------------------------------------------------------------------------
(* The chunks of a wire, joined.                                           *)

Rule(items, n, f) == f = [k \in 0 .. n |-> IF k <= 3 THEN <<>> ELSE f[k - 1] \o items[k]]

\* The recursive function exists up to any position.
LEMMA RuleExists ==
  ASSUME NEW items, NEW n \in Nat
  PROVE  \E f : Rule(items, n, f)
<1> DEFINE T == {m \in Nat : ~\E f : Rule(items, m, f)}
<1> SUFFICES ASSUME T # {} PROVE FALSE
  OBVIOUS
<1>1. PICK m \in T : \A l \in T : m <= l
  <2> HIDE DEF T
  <2>1. T \in SUBSET Nat
    BY DEF T
  <2> QED
    BY <2>1, Least
<1>2. CASE m = 0
  <2> DEFINE f == [k \in 0 .. 0 |-> <<>>]
  <2>1. Rule(items, 0, f)
    BY DEF Rule
  <2> QED
    BY <1>2, <2>1
<1>3. CASE m # 0
  <2>1. m - 1 \in Nat /\ m - 1 \notin T
    BY <1>1, <1>3
  <2>2. PICK f : Rule(items, m - 1, f)
    BY <2>1
  <2>3. \A k \in 0 .. m - 1 : f[k] = IF k <= 3 THEN <<>> ELSE f[k - 1] \o items[k]
    BY <2>2 DEF Rule
  <2> DEFINE g == [k \in 0 .. m |-> IF k < m THEN f[k]
                                    ELSE IF m <= 3 THEN <<>> ELSE f[m - 1] \o items[m]]
  <2>4. ASSUME NEW k \in 0 .. m
        PROVE  g[k] = IF k <= 3 THEN <<>> ELSE g[k - 1] \o items[k]
    <3>1. CASE k < m
      <4>1. k \in 0 .. m - 1 /\ g[k] = f[k] /\ (k > 3 => g[k - 1] = f[k - 1])
        BY <2>1, <3>1
      <4> QED
        BY <2>3, <4>1
    <3>2. CASE k = m
      <4>1. m > 3 => g[m - 1] = f[m - 1]
        BY <2>1
      <4> QED
        BY <3>2, <4>1
    <3> QED
      BY <3>1, <3>2
  <2>5. Rule(items, m, g)
    <3>1. g = [k \in 0 .. m |-> g[k]]
      OBVIOUS
    <3> HIDE DEF g
    <3> QED
      BY <2>4, <3>1 DEF Rule
  <2> QED
    BY <2>5
<1> QED
  BY <1>2, <1>3

\* It is what Joined computes with.
LEMMA JoinedRule ==
  ASSUME NEW items, Len(items) \in Nat
  PROVE  \E f : Rule(items, Len(items), f) /\ Joined(items) = f[Len(items)]
<1> DEFINE g == CHOOSE f : Rule(items, Len(items), f)
<1>1. \E f : Rule(items, Len(items), f)
  BY RuleExists
<1>2. Rule(items, Len(items), g)
  BY <1>1, Zenon
<1>3. Joined(items) = g[Len(items)]
  BY DEF Joined, Rule
<1> QED
  BY <1>2, <1>3, Zenon

Agree(w, v, n) == \A i \in 1 .. n : w[i] = v[i]

\* Two of them agree where both are defined.
LEMMA RuleUnique ==
  ASSUME NEW w, NEW v, NEW n \in Nat, NEW m \in Nat, n <= m, Agree(w, v, n),
         NEW f, NEW g, Rule(w, n, f), Rule(v, m, g)
  PROVE  f[n] = g[n]
<1> DEFINE T == {k \in 0 .. n : f[k] # g[k]}
<1>1. \A k \in 0 .. n : /\ f[k] = IF k <= 3 THEN <<>> ELSE f[k - 1] \o w[k]
                        /\ g[k] = IF k <= 3 THEN <<>> ELSE g[k - 1] \o v[k]
  <2>1. \A k \in 0 .. n : k \in 0 .. m
    OBVIOUS
  <2> QED
    BY <2>1 DEF Rule
<1>2. T = {}
  <2> SUFFICES ASSUME T # {} PROVE FALSE
    OBVIOUS
  <2>1. PICK k \in T : \A l \in T : k <= l
    <3> HIDE DEF T
    <3>1. T \in SUBSET Nat
      BY DEF T
    <3> QED
      BY <3>1, Least
  <2>2. k > 3
    BY <1>1, <2>1
  <2>3. k - 1 \in 0 .. n /\ k - 1 \notin T
    BY <2>1, <2>2
  <2>4. f[k - 1] = g[k - 1] /\ w[k] = v[k]
    BY <2>2, <2>3 DEF Agree
  <2> QED
    BY <1>1, <2>1, <2>2, <2>4
<1> QED
  BY <1>2

\* The header is no part of the body.
LEMMA JoinedHeader ==
  ASSUME NEW items, Len(items) \in 0 .. 3
  PROVE  Joined(items) = <<>>
<1>1. PICK f : Rule(items, Len(items), f) /\ Joined(items) = f[Len(items)]
  BY JoinedRule
<1> QED
  BY <1>1 DEF Rule

\* A chunk more.
LEMMA JoinedAppend ==
  ASSUME NEW S, NEW items \in Seq(S), NEW chunk \in S, Len(items) >= 3
  PROVE  Joined(Append(items, chunk)) = Joined(items) \o chunk
<1>0. Append(items, chunk) \in Seq(S)
  BY AppendProperties
<1>1. PICK longer \in Seq(S) : longer = Append(items, chunk)
  BY <1>0
<1>2. /\ Len(items) \in Nat
      /\ Len(longer) = Len(items) + 1
      /\ longer[Len(items) + 1] = chunk
      /\ \A i \in 1 .. Len(items) : items[i] = longer[i]
  BY <1>1
<1>3. PICK f : Rule(items, Len(items), f) /\ Joined(items) = f[Len(items)]
  BY <1>2, JoinedRule
<1>4. PICK g : Rule(longer, Len(longer), g) /\ Joined(longer) = g[Len(longer)]
  BY <1>2, JoinedRule
<1>5. f[Len(items)] = g[Len(items)]
  <2>1. PICK n \in Nat, m \in Nat : n = Len(items) /\ m = Len(longer) /\ n <= m
    BY <1>2
  <2>2. Rule(items, n, f) /\ Rule(longer, m, g) /\ Agree(items, longer, n)
    BY <1>2, <1>3, <1>4, <2>1 DEF Agree
  <2>3. f[n] = g[n]
    BY <2>1, <2>2, RuleUnique
  <2> QED
    BY <2>1, <2>3
<1>6. g[Len(items) + 1] = g[Len(items)] \o chunk
  <2>1. Len(items) + 1 \in 0 .. Len(longer) /\ ~(Len(items) + 1 <= 3) /\ (Len(items) + 1) - 1 = Len(items)
    BY <1>2
  <2>2. g[Len(items) + 1] = g[(Len(items) + 1) - 1] \o longer[Len(items) + 1]
    BY <1>4, <2>1 DEF Rule
  <2> QED
    BY <1>2, <2>1, <2>2
<1> QED
  BY <1>1, <1>2, <1>3, <1>4, <1>5, <1>6

-----------------------------------------------------------------------------
(* The invariant.                                                          *)

Units == Files \X Nat \X Nat
Codes == {"403 Forbidden", "404 Not Found", "200 OK", "empty line"}
WireItems == Codes \cup {<<"Content-Length", n>> : n \in Int} \cup Seq(Units)

Reading == {"read", "write"}
Ended == {"close", "closed"}

Typed ==
  /\ disk \in [Names -> Entries]
  /\ size \in [Files -> 0 .. MaxUnits]
  /\ version \in [Files -> Nat]
  /\ \A f \in Files : version[f] <= changes
  /\ changes \in 0 .. MaxChanges
  /\ touched \subseteq {"name", "units"}
  /\ pc \in {"resolve", "open", "403", "404", "size", "200", "length", "end_headers", "stuck"}
            \cup Reading \cup Ended
  /\ opened \in Entries
  /\ offset \in 0 .. MaxUnits
  /\ ahead \in Seq(Units) /\ Len(ahead) <= FILEBUF_SIZE
  /\ fail \in BOOLEAN
  /\ buf \in Seq(Units) /\ Len(buf) <= BUF_SIZE
  /\ length \in (-1 .. MaxUnits) \cup {Huge}
  /\ peer \in {"reads", "stalled", "reset"}
  /\ wire \in Seq(WireItems)
  /\ \A k \in 4 .. Len(wire) : Len(wire[k]) \in 1 .. BUF_SIZE
  /\ Body \in Seq(Units)

\* How much of the header was sent.
Headers ==
  /\ pc \in {"resolve", "open", "403", "404", "size", "200", "stuck"} => wire = <<>>
  /\ pc = "length" => Len(wire) = 1
  /\ pc = "end_headers" => Len(wire) = 2
  /\ pc \in Reading => Len(wire) >= 3

\* The units s come from the beginning of file o, which has version v now;
\* all of them if it was not written since it was opened.
Genuine(s, o, v, intact) ==
  \A i \in 1 .. Len(s) :
    /\ s[i][1] = o
    /\ s[i][2] \in 0 .. v
    /\ s[i][3] = i
    /\ i > 1 => s[i - 1][2] <= s[i][2]
    /\ intact => s[i][2] = v

Intact == "units" \notin touched
GenuineNow(s) == Genuine(s, opened, version[opened], Intact)

\* What was taken from the file: sent, in do_GET's buffer, in the stream's.
Flow == Body \o (buf \o ahead)

\* Nothing is read before the header is sent.
Waiting == pc \notin Reading \cup Ended => buf = <<>> /\ ahead = <<>> /\ offset = 0 /\ fail = FALSE

\* Nothing is lost or repeated between the file and the client.
Flowing == pc \in Reading => Len(Flow) = offset /\ (opened \in Files => GenuineNow(Flow))

\* What was sent is genuine, also after an exception.
Sent ==
  /\ Len(Body) <= offset
  /\ opened \in Files => GenuineNow(Body)
  /\ opened \notin Files => offset = 0

\* The stream fails at the end of the file, and only then is nothing read from
\* what has an end.
AtEnd ==
  /\ pc = "read" => Len(buf) < BUF_SIZE
  /\ pc \in Reading /\ fail => ahead = <<>> /\ (opened \in Files /\ Intact => offset = size[opened])
  /\ pc = "write" /\ buf = <<>> /\ opened # Endless => fail
  /\ opened \in Files /\ Intact => offset <= size[opened]

\* The second open found the file of the first, and its size.
Measured ==
  /\ pc \in {"resolve", "open", "403"} => opened = Missing
  /\ pc = "404" => opened = Missing
  /\ pc = "size" /\ "name" \notin touched => disk[Name] = opened
  /\ pc \in {"200", "length", "end_headers"} \cup Reading \cup Ended /\ touched = {} /\ opened \in Files
       => length = size[opened]
  /\ pc \in Ended /\ peer # "reset" /\ touched = {} /\ opened \in Files => Len(Body) = length

FileInv == Typed /\ Headers /\ Waiting /\ Flowing /\ Sent /\ AtEnd /\ Measured

-----------------------------------------------------------------------------
(* Sequences of units.                                                     *)

\* The beginning of a genuine sequence is genuine.
LEMMA GenuinePrefix ==
  ASSUME NEW s \in Seq(Units), NEW t \in Seq(Units), NEW o, NEW v, NEW intact,
         Genuine(s \o t, o, v, intact)
  PROVE  Genuine(s, o, v, intact)
<1>1. /\ Len(s \o t) = Len(s) + Len(t)
      /\ Len(s) \in Nat /\ Len(t) \in Nat
      /\ \A i \in 1 .. Len(s) : (s \o t)[i] = s[i]
  BY ConcatProperties
<1>2. PICK st : st = s \o t
  OBVIOUS
<1> QED
  BY <1>1, <1>2 DEF Genuine

\* A function on 1 .. n is a sequence.
LEMMA FunctionSeq ==
  ASSUME NEW S, NEW n \in Nat, NEW t \in [1 .. n -> S]
  PROVE  t \in Seq(S) /\ Len(t) = n
OBVIOUS

\* The n units of a file after position m.
Following(o, v, m, n) == [i \in 1 .. n |-> <<o, v, m + i>>]

\* The next units of the file.
LEMMA GenuineMore ==
  ASSUME NEW s \in Seq(Units), NEW o \in Files, NEW v \in Nat, NEW intact, Genuine(s, o, v, intact),
         NEW n \in Nat, NEW t, t = Following(o, v, Len(s), n)
  PROVE  /\ t \in Seq(Units)
         /\ Len(t) = n
         /\ Genuine(s \o t, o, v, intact)
<1>1. \A i \in 1 .. n : <<o, v, Len(s) + i>> \in Units
  BY DEF Units
<1>2. t \in Seq(Units) /\ Len(t) = n
  <2>1. t \in [1 .. n -> Units]
    BY <1>1 DEF Following
  <2> QED
    BY <2>1, FunctionSeq
<1>3. /\ Len(s \o t) = Len(s) + n
      /\ Len(s) \in Nat
      /\ \A i \in 1 .. Len(s) : (s \o t)[i] = s[i]
      /\ \A i \in Len(s) + 1 .. Len(s) + n : (s \o t)[i] = t[i - Len(s)]
  <2>1. PICK u \in Seq(Units) : u = t /\ Len(u) = n
    BY <1>2
  <2>2. /\ Len(s \o u) = Len(s) + Len(u)
        /\ Len(s) \in Nat
        /\ \A i \in 1 .. Len(s) : (s \o u)[i] = s[i]
        /\ \A i \in Len(s) + 1 .. Len(s) + Len(u) : (s \o u)[i] = u[i - Len(s)]
    BY ConcatProperties
  <2> QED
    BY <2>1, <2>2
<1>4. PICK st, m : st = s \o t /\ m = Len(s)
  OBVIOUS
<1>5. \A i \in m + 1 .. m + n : st[i] = <<o, v, i>>
  <2> TAKE i \in m + 1 .. m + n
  <2>1. i - m \in 1 .. n /\ m + (i - m) = i
    BY <1>3, <1>4
  <2>2. st[i] = t[i - m] /\ t[i - m] = <<o, v, m + (i - m)>>
    BY <1>3, <1>4, <2>1 DEF Following
  <2> QED
    BY <2>1, <2>2
<1>6. ASSUME NEW i \in 1 .. m + n
      PROVE  /\ st[i][1] = o /\ st[i][2] \in 0 .. v /\ st[i][3] = i
             /\ i > 1 => st[i - 1][2] <= st[i][2]
             /\ intact => st[i][2] = v
  <2>1. CASE i <= m
    BY <1>3, <1>4, <2>1 DEF Genuine
  <2>2. CASE i > m
    <3>1. i \in m + 1 .. m + n
      BY <1>3, <1>4, <2>2
    <3>2. st[i] = <<o, v, i>>
      BY <1>5, <3>1
    <3>3. i > 1 => st[i - 1][2] <= v
      <4>1. CASE i = m + 1 /\ i > 1
        <5>1. i - 1 \in 1 .. m
          BY <1>3, <1>4, <4>1
        <5> QED
          BY <1>3, <1>4, <5>1 DEF Genuine
      <4>2. CASE i # m + 1 /\ i > 1
        <5>1. i - 1 \in m + 1 .. m + n
          BY <1>3, <1>4, <3>1, <4>2
        <5>2. st[i - 1] = <<o, v, i - 1>>
          BY <1>5, <5>1
        <5> QED
          BY <5>2
      <4> QED
        BY <4>1, <4>2
    <3> QED
      BY <3>2, <3>3
  <2> QED
    BY <1>3, <1>4, <2>1, <2>2
<1> QED
  BY <1>2, <1>3, <1>4, <1>6 DEF Genuine

\* The file is written: what was taken is older now.
LEMMA GenuineOlder ==
  ASSUME NEW s, NEW o, NEW v \in Nat, NEW intact, Genuine(s, o, v, intact)
  PROVE  Genuine(s, o, v + 1, FALSE)
BY DEF Genuine

\* A sequence is its two parts.
LEMMA TakeDrop ==
  ASSUME NEW s \in Seq(Units), NEW n \in 0 .. Len(s)
  PROVE  /\ SubSeq(s, 1, n) \in Seq(Units) /\ Len(SubSeq(s, 1, n)) = n
         /\ SubSeq(s, n + 1, Len(s)) \in Seq(Units) /\ Len(SubSeq(s, n + 1, Len(s))) = Len(s) - n
         /\ SubSeq(s, 1, n) \o SubSeq(s, n + 1, Len(s)) = s
<1>1. Len(s) \in Nat /\ n \in Nat
  OBVIOUS
<1>2. \A i \in 1 .. Len(s) : s[i] \in Units
  OBVIOUS
<1> HIDE DEF Units
<1>3. /\ SubSeq(s, 1, n) \in Seq(Units) /\ Len(SubSeq(s, 1, n)) = n
      /\ \A i \in 1 .. n : SubSeq(s, 1, n)[i] = s[i]
  BY <1>1, <1>2
<1>4. /\ SubSeq(s, n + 1, Len(s)) \in Seq(Units) /\ Len(SubSeq(s, n + 1, Len(s))) = Len(s) - n
      /\ \A i \in 1 .. Len(s) - n : SubSeq(s, n + 1, Len(s))[i] = s[n + i]
  BY <1>1, <1>2
<1>5. PICK a \in Seq(Units), b \in Seq(Units) : a = SubSeq(s, 1, n) /\ b = SubSeq(s, n + 1, Len(s))
  BY <1>3, <1>4
<1>6. a \o b = s
  <2>0. /\ Len(a) = n /\ Len(b) = Len(s) - n
        /\ \A i \in 1 .. n : a[i] = s[i]
        /\ \A i \in 1 .. Len(s) - n : b[i] = s[n + i]
    BY <1>3, <1>4, <1>5
  <2>1. /\ a \o b \in Seq(Units) /\ Len(a \o b) = Len(s)
        /\ \A i \in 1 .. n : (a \o b)[i] = a[i]
        /\ \A i \in n + 1 .. Len(s) : (a \o b)[i] = b[i - n]
    BY <1>1, <2>0
  <2>2. ASSUME NEW i \in 1 .. Len(s) PROVE (a \o b)[i] = s[i]
    <3>1. CASE i <= n
      BY <1>1, <2>0, <2>1, <3>1
    <3>2. CASE i > n
      <4>1. i \in n + 1 .. Len(s) /\ i - n \in 1 .. Len(s) - n /\ n + (i - n) = i
        BY <1>1, <3>2
      <4>2. (a \o b)[i] = b[i - n]
        BY <2>1, <4>1
      <4>3. b[i - n] = s[n + (i - n)]
        BY <2>0, <4>1
      <4> QED
        BY <4>1, <4>2, <4>3
    <3>3. i <= n \/ i > n
      BY <1>1
    <3> QED
      BY <3>1, <3>2, <3>3, Zenon
  <2> QED
    BY <2>1, <2>2, SeqEqual
<1> QED
  BY <1>3, <1>4, <1>5, <1>6

-----------------------------------------------------------------------------
(* Before the body.                                                        *)

\* Connection::send with a part of the header.
LEMMA HeaderSent ==
  ASSUME Typed, Len(wire) \in {0, 1, 2}, NEW item \in WireItems, NEW next, Send(item, next)
  PROVE  /\ wire' \in Seq(WireItems)
         /\ Len(wire) \in Nat
         /\ Len(wire') \in 0 .. 3
         /\ Body' = <<>>
         /\ \/ peer = "reads" /\ pc' = next /\ Len(wire') = Len(wire) + 1
            \/ peer = "reset" /\ pc' = "close"
<1>1. wire \in Seq(WireItems)
  BY DEF Typed
<1>2. CASE peer = "reads" /\ wire' = Append(wire, item) /\ pc' = next
  <2>1. wire' \in Seq(WireItems) /\ Len(wire') = Len(wire) + 1 /\ Len(wire) \in Nat
    BY <1>1, <1>2
  <2>2. Len(wire') \in 0 .. 3
    <3>1. PICK n \in {0, 1, 2} : n = Len(wire)
      BY Zenon
    <3>2. n + 1 \in 0 .. 3
      OBVIOUS
    <3>3. Len(wire') = n + 1
      BY <2>1, <3>1
    <3> QED
      BY <3>2, <3>3
  <2>3. Body' = <<>>
    BY <2>2, JoinedHeader DEF Body
  <2> QED
    BY <1>2, <2>1, <2>2, <2>3
<1>3. CASE peer = "reset" /\ pc' = "close" /\ UNCHANGED wire
  <2>0. Len(wire) \in Nat
    BY <1>1
  <2>1. /\ Len(wire') \in 0 .. 3
        /\ wire' \in Seq(WireItems)
    <3>1. wire' = wire
      BY <1>3
    <3>2. Len(wire) \in 0 .. 3
      BY <2>0
    <3> QED
      BY <1>1, <3>1, <3>2
  <2>2. Body' = <<>>
    BY <2>1, JoinedHeader DEF Body
  <2> QED
    BY <1>3, <2>0, <2>1, <2>2
<1> QED
  BY <1>2, <1>3 DEF Send

\* While the header is sent there is no body, and nothing was read.
LEMMA NothingRead ==
  ASSUME FileInv, pc \notin Reading \cup Ended
  PROVE  /\ Len(wire) \in {0, 1, 2}
         /\ buf = <<>> /\ ahead = <<>> /\ offset = 0 /\ fail = FALSE
<1>1. Len(<<>>) = 0
  OBVIOUS
<1>2. Len(wire) \in {0, 1, 2}
  <2>1. pc \in {"resolve", "open", "403", "404", "size", "200", "length", "end_headers", "stuck"}
    BY DEF FileInv, Typed, Reading, Ended
  <2> QED
    BY <1>1, <2>1 DEF FileInv, Headers
<1> QED
  BY <1>2 DEF FileInv, Waiting

\* Nothing to speak of is genuine.
LEMMA GenuineEmpty ==
  ASSUME NEW o, NEW v, NEW intact
  PROVE  Genuine(<<>>, o, v, intact)
BY DEF Genuine

\* A step of the header.
LEMMA HeaderInv ==
  ASSUME FileInv, pc \notin Reading \cup Ended, NEW item \in WireItems, NEW next,
         Send(item, next), UNCHANGED <<fsVars, path, streamVars, length, peer>>,
         \/ pc \in {"403", "404"} /\ next = "close"
         \/ pc = "200" /\ next = "length"
         \/ pc = "length" /\ next = "end_headers"
         \/ pc = "end_headers" /\ next = "read"
  PROVE  FileInv'
<1>1. /\ Len(wire) \in {0, 1, 2}
      /\ buf = <<>> /\ ahead = <<>> /\ offset = 0 /\ fail = FALSE
  BY NothingRead
<1>2. /\ wire' \in Seq(WireItems)
      /\ Len(wire) \in Nat
      /\ Len(wire') \in 0 .. 3
      /\ Body' = <<>>
      /\ \/ peer = "reads" /\ pc' = next /\ Len(wire') = Len(wire) + 1
         \/ peer = "reset" /\ pc' = "close"
  BY <1>1, HeaderSent DEF FileInv
<1>3. UNCHANGED <<disk, size, version, changes, touched, opened, offset, ahead, fail, buf, length, peer, path>>
  BY DEF fsVars, streamVars
<1>4. pc' \in {"length", "end_headers", "read", "close"}
  BY <1>2
<1>5. Typed'
  <2>1. \A k \in 4 .. Len(wire') : Len(wire'[k]) \in 1 .. BUF_SIZE
    BY <1>2
  <2>2. Body' \in Seq(Units)
    BY <1>2
  <2> QED
    BY <1>2, <1>3, <1>4, <2>1, <2>2 DEF FileInv, Typed, Reading, Ended
<1>6. Headers'
  <2>1. pc \in {"403", "404", "200"} => Len(wire) = 0
    BY DEF FileInv, Headers
  <2>2. pc = "length" => Len(wire) = 1
    BY DEF FileInv, Headers
  <2>3. pc = "end_headers" => Len(wire) = 2
    BY DEF FileInv, Headers
  <2>4. /\ pc' = "length" => Len(wire') = 1
        /\ pc' = "end_headers" => Len(wire') = 2
        /\ pc' = "read" => Len(wire') = 3
    <3>1. CASE peer = "reset" /\ pc' = "close"
      BY <3>1
    <3>2. CASE pc' = next /\ Len(wire') = Len(wire) + 1
      <4>1. PICK n \in {0, 1, 2} : n = Len(wire)
        BY <1>1
      <4>2. Len(wire') = n + 1
        BY <3>2, <4>1
      <4>3. /\ next = "length" => n = 0
            /\ next = "end_headers" => n = 1
            /\ next = "read" => n = 2
        BY <2>1, <2>2, <2>3, <4>1
      <4> QED
        BY <3>2, <4>2, <4>3
    <3> QED
      BY <1>2, <3>1, <3>2
  <2>5. pc' \in Reading => pc' = "read" /\ Len(wire') >= 3
    BY <1>4, <2>4 DEF Reading
  <2> QED
    BY <1>4, <2>4, <2>5 DEF Headers
<1>7. Waiting'
  BY <1>1, <1>3 DEF Waiting
<1>8. Flow' = <<>> /\ Len(<<>>) = 0
  BY <1>1, <1>2, <1>3 DEF Flow
<1>9. Flowing'
  BY <1>1, <1>3, <1>8, GenuineEmpty DEF Flowing, GenuineNow
<1>10. Sent'
  BY <1>1, <1>2, <1>3, <1>8, GenuineEmpty DEF Sent, GenuineNow
<1>11. AtEnd'
  <2>1. 0 < BUF_SIZE /\ (opened \in Files => 0 <= size[opened])
    BY HttpFileAssumption DEF FileInv, Typed
  <2> QED
    BY <1>1, <1>3, <1>4, <1>8, <2>1 DEF AtEnd, Reading, Intact
<1>12. Measured'
  <2>1. pc \in {"403", "404"} => opened \notin Files
    BY HttpFileAssumption DEF FileInv, Measured, Special
  <2>2. pc \in {"200", "length", "end_headers"} /\ touched = {} /\ opened \in Files => length = size[opened]
    BY DEF FileInv, Measured
  <2>3. pc' \in {"length", "end_headers", "read", "close"} /\ (pc' = "close" => peer' = "reset" \/ opened' \notin Files)
    BY <1>2, <1>3, <1>4, <2>1
  <2> QED
    BY <1>3, <2>1, <2>2, <2>3 DEF Measured, Reading, Ended
<1> QED
  BY <1>5, <1>6, <1>7, <1>9, <1>10, <1>11, <1>12 DEF FileInv

\* Steps that touch neither the wire nor the streams.
LEMMA SameFlow ==
  ASSUME UNCHANGED <<wire, buf, ahead>>
  PROVE  Body' = Body /\ Flow' = Flow
BY DEF Body, Flow

\* do_GET resolves the path, and opens the file twice.
LEMMA OpenInv ==
  ASSUME FileInv, Resolve \/ Open \/ GetFileSize
  PROVE  FileInv'
<1>1. pc \in {"resolve", "open", "size"}
  BY DEF Resolve, Open, GetFileSize
<1>2. /\ Len(wire) \in {0, 1, 2} /\ wire = <<>>
      /\ buf = <<>> /\ ahead = <<>> /\ offset = 0 /\ fail = FALSE
  BY <1>1, NothingRead DEF FileInv, Headers, Reading, Ended
<1>3. UNCHANGED <<disk, size, version, changes, touched, path, offset, ahead, fail, buf, wire, peer>>
  BY DEF Resolve, Open, GetFileSize, fsVars, streamVars
<1>4. Body' = Body /\ Flow' = Flow /\ Body = <<>>
  <2>1. Len(wire) = 0
    BY <1>2
  <2> QED
    BY <1>3, <2>1, SameFlow, JoinedHeader DEF Body
<1>5. Name \in Names /\ disk[Name] \in Entries
  BY DEF Name, Names, FileInv, Typed
<1>6. pc' \in {"403", "open", "404", "size", "200", "stuck"}
  BY DEF Resolve, Open, GetFileSize
<1>7. opened' \in Entries
  BY <1>5 DEF Resolve, Open, GetFileSize, streamVars, FileInv, Typed
<1>8. length' \in (-1 .. MaxUnits) \cup {Huge}
  <2>1. CASE GetFileSize
    <3>0. Missing \notin Files /\ Directory \notin Files /\ Endless \notin Files /\ Pipe \notin Files
      BY HttpFileAssumption DEF Special
    <3>1. CASE disk[Name] \in Files
      <4>1. length' = size[disk[Name]]
        BY <2>1, <3>0, <3>1 DEF GetFileSize
      <4> QED
        BY <3>1, <4>1, HttpFileAssumption DEF FileInv, Typed
    <3>2. CASE disk[Name] = Missing
      BY <2>1, <3>0, <3>2, HttpFileAssumption DEF GetFileSize, Missing, Directory, Endless, Pipe
    <3>3. CASE disk[Name] = Directory
      BY <2>1, <3>0, <3>3, HttpFileAssumption DEF GetFileSize, Missing, Directory, Endless, Pipe
    <3>4. CASE disk[Name] = Endless
      BY <2>1, <3>0, <3>4, HttpFileAssumption DEF GetFileSize, Missing, Directory, Endless, Pipe
    <3>5. CASE disk[Name] = Pipe
      <4>1. length' = length
        BY <2>1, <3>0, <3>5 DEF GetFileSize, Missing, Directory, Endless, Pipe
      <4> QED
        BY <4>1 DEF FileInv, Typed
    <3> QED
      BY <1>5, <3>1, <3>2, <3>3, <3>4, <3>5 DEF Entries, Special
  <2>2. CASE Resolve \/ Open
    BY <2>2 DEF Resolve, Open, FileInv, Typed
  <2> QED
    BY <2>1, <2>2
<1>9. Typed'
  BY <1>3, <1>4, <1>6, <1>7, <1>8 DEF FileInv, Typed, Reading, Ended
<1>10. Headers'
  BY <1>2, <1>3, <1>6 DEF Headers, Reading
<1>11. Waiting'
  BY <1>2, <1>3 DEF Waiting
<1>12. Flowing'
  BY <1>6 DEF Flowing, Reading
<1>13. Sent'
  <2>1. Len(<<>>) = 0
    OBVIOUS
  <2> QED
    BY <1>2, <1>3, <1>4, <2>1, GenuineEmpty DEF Sent, GenuineNow
<1>14. AtEnd'
  BY <1>2, <1>3, <1>6, <1>7 DEF AtEnd, Reading, Intact, FileInv, Typed
<1>15. Measured'
  <2>1. CASE Resolve
    BY <2>1 DEF Resolve, FileInv, Measured, streamVars, Reading, Ended
  <2>2. CASE Open
    BY <1>3, <2>2 DEF Open, Measured, Name, Reading, Ended
  <2>3. CASE GetFileSize
    <3>1. pc' \in {"200", "stuck"} /\ opened' = opened
      BY <2>3 DEF GetFileSize, streamVars
    <3>2. ASSUME touched = {}, opened \in Files PROVE length' = size[opened]
      <4>1. disk[Name] = opened
        BY <2>3, <3>2 DEF FileInv, Measured, GetFileSize
      <4> QED
        BY <2>3, <3>2, <4>1, HttpFileAssumption DEF GetFileSize, Special
    <3> QED
      BY <1>3, <3>1, <3>2 DEF Measured, Reading, Ended
  <2> QED
    BY <2>1, <2>2, <2>3
<1> QED
  BY <1>9, <1>10, <1>11, <1>12, <1>13, <1>14, <1>15 DEF FileInv

\* The header's items.
LEMMA HeaderItems ==
  ASSUME FileInv
  PROVE  /\ {"403 Forbidden", "404 Not Found", "200 OK", "empty line"} \subseteq WireItems
         /\ <<"Content-Length", length>> \in WireItems
<1>1. length \in Int
  BY HttpFileAssumption DEF FileInv, Typed, Huge
<1> QED
  BY <1>1 DEF WireItems, Codes

\* do_GET sends a part of the header.
LEMMA HeadersInv ==
  ASSUME FileInv,
         \/ Status("403", "403 Forbidden", "close") \/ Status("404", "404 Not Found", "close")
         \/ Status("200", "200 OK", "length") \/ ContentLength \/ end_headers
  PROVE  FileInv'
<1>1. /\ {"403 Forbidden", "404 Not Found", "200 OK", "empty line"} \subseteq WireItems
      /\ <<"Content-Length", length>> \in WireItems
  BY HeaderItems
<1>2. UNCHANGED <<fsVars, path, streamVars, length, peer>>
  BY DEF Status, http_response_code, ContentLength, end_headers
<1>3. CASE pc = "403" /\ Send("403 Forbidden", "close")
  <2>1. pc \notin Reading \cup Ended
    BY <1>3 DEF Reading, Ended
  <2> QED
    BY <1>1, <1>2, <1>3, <2>1, HeaderInv
<1>4. CASE pc = "404" /\ Send("404 Not Found", "close")
  <2>1. pc \notin Reading \cup Ended
    BY <1>4 DEF Reading, Ended
  <2> QED
    BY <1>1, <1>2, <1>4, <2>1, HeaderInv
<1>5. CASE pc = "200" /\ Send("200 OK", "length")
  <2>1. pc \notin Reading \cup Ended
    BY <1>5 DEF Reading, Ended
  <2> QED
    BY <1>1, <1>2, <1>5, <2>1, HeaderInv
<1>6. CASE pc = "length" /\ Send(<<"Content-Length", length>>, "end_headers")
  <2>1. pc \notin Reading \cup Ended
    BY <1>6 DEF Reading, Ended
  <2> QED
    BY <1>1, <1>2, <1>6, <2>1, HeaderInv
<1>7. CASE pc = "end_headers" /\ Send("empty line", "read")
  <2>1. pc \notin Reading \cup Ended
    BY <1>7 DEF Reading, Ended
  <2> QED
    BY <1>1, <1>2, <1>7, <2>1, HeaderInv
<1> QED
  BY <1>3, <1>4, <1>5, <1>6, <1>7 DEF Status, http_response_code, ContentLength, end_headers

-----------------------------------------------------------------------------
(* The body.                                                               *)

\* The parts of what was taken are sequences of units.
LEMMA Parts ==
  ASSUME Typed
  PROVE  /\ Body \in Seq(Units) /\ Len(Body) \in Nat
         /\ buf \in Seq(Units) /\ Len(buf) \in Nat
         /\ ahead \in Seq(Units) /\ Len(ahead) \in Nat
         /\ Flow \in Seq(Units) /\ Len(Flow) = Len(Body) + (Len(buf) + Len(ahead))
<1>1. Body \in Seq(Units) /\ buf \in Seq(Units) /\ ahead \in Seq(Units)
  BY DEF Typed
<1> HIDE DEF Body
<1>2. buf \o ahead \in Seq(Units) /\ Len(buf \o ahead) = Len(buf) + Len(ahead)
  BY <1>1, ConcatProperties
<1> QED
  BY <1>1, <1>2, ConcatProperties DEF Flow

\* in.read() moves units between the file and the buffers, and loses none.
LEMMA ReadStep ==
  ASSUME FileInv, pc = "read", pc' \in Reading,
         UNCHANGED <<fsVars, path, opened, length, wire, peer>>,
         ahead' \in Seq(Units), Len(ahead') <= FILEBUF_SIZE,
         buf' \in Seq(Units), Len(buf') <= BUF_SIZE,
         offset' \in offset .. MaxUnits, fail' \in BOOLEAN,
         Len(Flow') = offset', opened \in Files => Genuine(Flow', opened, version[opened], Intact),
         opened \notin Files => offset' = 0,
         AtEnd'
  PROVE  FileInv'
<1>1. UNCHANGED <<disk, size, version, changes, touched, path, opened, length, wire, peer, Intact, Body>>
  BY DEF fsVars, Intact, Body
<1>2. Typed'
  <2>1. offset' \in 0 .. MaxUnits
    BY HttpFileAssumption DEF FileInv, Typed
  <2> QED
    BY <1>1, <2>1 DEF FileInv, Typed
<1>3. Headers'
  BY <1>1 DEF FileInv, Headers, Reading
<1>4. Waiting'
  BY DEF Waiting
<1>5. Flowing'
  BY <1>1 DEF Flowing, GenuineNow
<1>6. Sent'
  <2>1. Len(Body) <= offset'
    <3>1. Len(Body) \in Nat /\ offset \in Nat /\ MaxUnits \in Nat /\ Len(Body) <= offset
      BY HttpFileAssumption, Parts DEF FileInv, Typed, Sent
    <3> QED
      BY <3>1
  <2> QED
    BY <1>1, <2>1 DEF FileInv, Sent, GenuineNow
<1>7. Measured'
  BY <1>1 DEF FileInv, Measured, Reading, Ended, Name
<1> QED
  BY <1>2, <1>3, <1>4, <1>5, <1>6, <1>7 DEF FileInv

\* The stream's buffer is filled, or the file has ended.
LEMMA UnderflowInv ==
  ASSUME FileInv, Underflow
  PROVE  FileInv'
<1> DEFINE last == IF opened \notin Files THEN 0
                   ELSE IF size[opened] < offset + FILEBUF_SIZE THEN size[opened]
                   ELSE offset + FILEBUF_SIZE
<1>1. /\ pc = "read" /\ fail = FALSE /\ ahead = <<>> /\ Len(buf) < BUF_SIZE
      /\ UNCHANGED <<fsVars, path, opened, length, wire, peer>> /\ UNCHANGED buf
  BY DEF Underflow, FileInv, Typed
<1>2. /\ offset \in Nat /\ MaxUnits \in Nat /\ offset <= MaxUnits
      /\ FILEBUF_SIZE \in Nat /\ FILEBUF_SIZE > 0 /\ BUF_SIZE \in Nat
      /\ opened \in Files => size[opened] \in Nat /\ size[opened] <= MaxUnits /\ version[opened] \in Nat
  BY HttpFileAssumption DEF FileInv, Typed
<1>3. /\ Len(Flow) = offset
      /\ opened \in Files => Genuine(Flow, opened, version[opened], Intact)
      /\ opened \notin Files => offset = 0
      /\ opened \in Files /\ Intact => offset <= size[opened]
  BY <1>1 DEF FileInv, Flowing, Reading, GenuineNow, Sent, AtEnd
<1>4. UNCHANGED <<size, version, touched, opened, Body, Intact>>
  BY <1>1 DEF fsVars, Body, Intact
<1>5. Body \in Seq(Units) /\ buf \in Seq(Units) /\ Len(buf) \in Nat /\ Len(buf) <= BUF_SIZE
  BY Parts DEF FileInv, Typed
<1>6. Flow = Body \o buf
  <2> HIDE DEF Body
  <2>1. buf \o <<>> = buf
    BY <1>5, ConcatEmptySeq
  <2> QED
    BY <1>1, <2>1 DEF Flow
<1>7. CASE last > offset
  <2>1. /\ ahead' = [i \in 1 .. last - offset |-> Unit(opened, offset + i)]
        /\ offset' = last /\ pc' = "read" /\ fail' = FALSE
    BY <1>1, <1>7 DEF Underflow
  <2>2. opened \in Files
    BY <1>2, <1>7
  <2>3. /\ last \in Nat /\ last <= MaxUnits /\ last - offset \in Nat /\ last - offset <= FILEBUF_SIZE
        /\ last <= size[opened] /\ last \in offset .. MaxUnits
    BY <1>2, <1>7, <2>2
  <2> HIDE DEF last
  <2>4. ahead' = [i \in 1 .. last - offset |-> <<opened, version[opened], Len(Flow) + i>>]
    BY <1>3, <2>1 DEF Unit
  <2>5. Flow \in Seq(Units)
    BY Parts DEF FileInv
  <2>6. /\ ahead' \in Seq(Units)
        /\ Len(ahead') = last - offset
        /\ Genuine(Flow \o ahead', opened, version[opened], Intact)
    <3>1. PICK s \in Seq(Units), v \in Nat, k \in Nat, intact \in BOOLEAN, t \in {ahead'} :
            s = Flow /\ v = version[opened] /\ k = last - offset /\ intact = Intact /\ t = ahead'
      BY <1>2, <2>2, <2>3, <2>5 DEF Intact
    <3>2. Genuine(s, opened, v, intact)
      BY <1>3, <2>2, <3>1
    <3>3. t = Following(opened, v, Len(s), k)
      BY <2>4, <3>1 DEF Following
    <3>4. t \in Seq(Units) /\ Len(t) = k /\ Genuine(s \o t, opened, v, intact)
      BY <2>2, <3>1, <3>2, <3>3, GenuineMore
    <3> QED
      BY <3>1, <3>4
  <2>7. Flow' = Flow \o ahead'
    <3>1. Flow' = Body \o (buf \o ahead')
      BY <1>1, <1>4 DEF Flow
    <3> HIDE DEF Body
    <3> QED
      BY <1>5, <1>6, <2>6, <3>1, ConcatAssociative
  <2>8. Len(Flow') = offset'
    <3>1. Len(Flow \o ahead') = Len(Flow) + Len(ahead')
      BY <2>5, <2>6, ConcatProperties
    <3> QED
      BY <1>2, <1>3, <2>1, <2>3, <2>6, <2>7, <3>1
  <2>9. AtEnd'
    BY <1>1, <1>4, <2>1, <2>3, <2>8 DEF AtEnd, Reading
  <2> QED
    BY <1>1, <1>5, <2>1, <2>2, <2>3, <2>6, <2>7, <2>8, <2>9, ReadStep DEF Reading
<1>8. CASE ~(last > offset)
  <2>1. ahead' = ahead /\ offset' = offset /\ pc' = "write" /\ fail' = TRUE
    BY <1>1, <1>8 DEF Underflow
  <2>2. Flow' = Flow
    BY <1>1, <1>4, <2>1 DEF Flow
  <2>3. opened \in Files /\ Intact => offset = size[opened]
    BY <1>2, <1>3, <1>8
  <2>4. AtEnd'
    BY <1>1, <1>2, <1>3, <1>4, <2>1, <2>3 DEF AtEnd, Reading
  <2>5. ahead' \in Seq(Units) /\ Len(ahead') <= FILEBUF_SIZE /\ offset' \in offset .. MaxUnits
    BY <1>2, <2>1 DEF FileInv, Typed
  <2> QED
    BY <1>1, <1>3, <1>5, <2>1, <2>2, <2>4, <2>5, ReadStep DEF Reading
<1> QED
  BY <1>7, <1>8

\* Units move from the stream's buffer to do_GET's.
LEMMA TakeBufferedInv ==
  ASSUME FileInv, TakeBuffered
  PROVE  FileInv'
<1> DEFINE room == BUF_SIZE - Len(buf)
           n == IF Len(ahead) < room THEN Len(ahead) ELSE room
           taken == SubSeq(ahead, 1, n)
           rest == SubSeq(ahead, n + 1, Len(ahead))
<1>1. /\ pc = "read" /\ ahead # <<>>
      /\ UNCHANGED <<fsVars, path, opened, length, wire, peer>> /\ UNCHANGED <<offset, fail>>
      /\ buf' = buf \o taken /\ ahead' = rest
      /\ pc' = IF n = room THEN "write" ELSE "read"
  BY DEF TakeBuffered
<1>2. /\ Body \in Seq(Units)
      /\ buf \in Seq(Units) /\ Len(buf) \in Nat /\ Len(buf) < BUF_SIZE /\ BUF_SIZE \in Nat
      /\ ahead \in Seq(Units) /\ Len(ahead) \in Nat /\ Len(ahead) # 0 /\ Len(ahead) <= FILEBUF_SIZE
      /\ FILEBUF_SIZE \in Nat
  <2>1. Len(ahead) # 0
    BY <1>1, Parts, EmptySeq DEF FileInv
  <2> QED
    BY <1>1, <2>1, Parts, HttpFileAssumption DEF FileInv, AtEnd, Typed
<1>3. fail = FALSE
  BY <1>1 DEF FileInv, AtEnd, Reading, Typed
<1>4. n \in 0 .. Len(ahead) /\ n \in Nat /\ n <= room /\ n > 0 /\ room \in Nat
  BY <1>2
<1> HIDE DEF n
<1>5. /\ taken \in Seq(Units) /\ Len(taken) = n
      /\ rest \in Seq(Units) /\ Len(rest) = Len(ahead) - n
      /\ taken \o rest = ahead
  BY <1>2, <1>4, TakeDrop
<1> HIDE DEF taken, rest
<1>6. /\ buf' \in Seq(Units) /\ Len(buf') = Len(buf) + n
      /\ ahead' \in Seq(Units) /\ Len(ahead') <= FILEBUF_SIZE
  <2>1. buf \o taken \in Seq(Units) /\ Len(buf \o taken) = Len(buf) + Len(taken)
    BY <1>2, <1>5, ConcatProperties
  <2> QED
    BY <1>1, <1>2, <1>4, <1>5, <2>1
<1>7. UNCHANGED <<size, version, touched, opened, Body, Intact>>
  BY <1>1 DEF fsVars, Body, Intact
<1>8. Flow' = Flow
  <2>1. (buf \o taken) \o rest = buf \o (taken \o rest)
    <3>1. taken \in Seq(Units) /\ rest \in Seq(Units) /\ buf \in Seq(Units)
      BY <1>2, <1>5
    <3> QED
      BY <3>1, ConcatAssociative
  <2> QED
    BY <1>1, <1>5, <1>7, <2>1 DEF Flow
<1>9. /\ Len(Flow) = offset
      /\ opened \in Files => Genuine(Flow, opened, version[opened], Intact)
      /\ opened \notin Files => offset = 0
  BY <1>1 DEF FileInv, Flowing, Reading, GenuineNow, Sent
<1>10. AtEnd'
  <2>1. pc' = "read" => Len(buf') < BUF_SIZE
    <3>1. pc' = "read" => n # room
      BY <1>1
    <3>2. n # room => n < room
      BY <1>4
    <3>3. n < BUF_SIZE - Len(buf) => Len(buf) + n < BUF_SIZE
      BY <1>2, <1>4
    <3> QED
      BY <1>6, <3>1, <3>2, <3>3
  <2>2. buf' # <<>>
    BY <1>2, <1>4, <1>6, EmptySeq
  <2>3. opened \in Files /\ Intact => offset <= size[opened]
    BY DEF FileInv, AtEnd
  <2> QED
    BY <1>1, <1>3, <1>7, <2>1, <2>2, <2>3 DEF AtEnd
<1>11. offset' \in offset .. MaxUnits /\ Len(buf') <= BUF_SIZE
  <2>1. offset \in Nat /\ MaxUnits \in Nat /\ offset <= MaxUnits
    BY HttpFileAssumption DEF FileInv, Typed
  <2> QED
    BY <1>1, <1>2, <1>4, <1>6, <2>1
<1> QED
  BY <1>1, <1>3, <1>6, <1>8, <1>9, <1>10, <1>11, ReadStep DEF Reading

\* A failed stream reads nothing.
LEMMA ReadAfterFailInv ==
  ASSUME FileInv, ReadAfterFail
  PROVE  FileInv'
<1>1. /\ pc = "read" /\ fail = TRUE /\ pc' = "write"
      /\ UNCHANGED <<fsVars, path, opened, length, wire, peer>>
      /\ UNCHANGED <<offset, fail, ahead, buf>>
  BY DEF ReadAfterFail, streamVars, FileInv, Typed
<1>2. UNCHANGED <<size, version, touched, opened, Body, Intact>>
  BY <1>1 DEF fsVars, Body, Intact
<1>3. Flow' = Flow
  BY <1>1, <1>2 DEF Flow
<1>4. /\ Len(Flow) = offset
      /\ opened \in Files => Genuine(Flow, opened, version[opened], Intact)
      /\ opened \notin Files => offset = 0
  BY <1>1 DEF FileInv, Flowing, Reading, GenuineNow, Sent
<1>5. AtEnd'
  BY <1>1, <1>2 DEF FileInv, AtEnd, Reading
<1>6. /\ ahead' \in Seq(Units) /\ Len(ahead') <= FILEBUF_SIZE
      /\ buf' \in Seq(Units) /\ Len(buf') <= BUF_SIZE
      /\ offset' \in offset .. MaxUnits
  BY <1>1, HttpFileAssumption DEF FileInv, Typed
<1> QED
  BY <1>1, <1>3, <1>4, <1>5, <1>6, ReadStep DEF Reading

\* out.write() sends a chunk, or ends the response.
LEMMA WriteInv ==
  ASSUME FileInv, Write
  PROVE  FileInv'
<1>1. /\ pc = "write" /\ opened # Endless /\ buf' = <<>>
      /\ UNCHANGED <<disk, size, version, changes, touched, path, opened, offset, ahead, fail, length, peer>>
  BY DEF Write, fsVars
<1>2. /\ Body \in Seq(Units) /\ Len(Body) \in Nat
      /\ buf \in Seq(Units) /\ Len(buf) \in Nat
      /\ ahead \in Seq(Units) /\ Len(ahead) \in Nat
      /\ Flow \in Seq(Units) /\ Len(Flow) = Len(Body) + (Len(buf) + Len(ahead))
  BY Parts DEF FileInv
<1>3. /\ Len(Flow) = offset
      /\ opened \in Files => GenuineNow(Flow)
  BY <1>1 DEF FileInv, Flowing, Reading
<1>4. buf' \in Seq(Units) /\ Len(buf') = 0 /\ 0 < BUF_SIZE /\ BUF_SIZE \in Nat
  BY <1>1, HttpFileAssumption, EmptySeq
<1>5. UNCHANGED Intact
  BY <1>1 DEF Intact
<1>6. CASE /\ pc' = "close" /\ UNCHANGED wire
           /\ peer = "reset" \/ (touched = {} /\ opened \in Files => Len(Body) = length)
  <2>1. UNCHANGED Body
    BY <1>6 DEF Body
  <2>2. Typed'
    BY <1>1, <1>4, <1>6, <2>1 DEF FileInv, Typed, Ended
  <2>3. Headers' /\ Waiting' /\ Flowing'
    BY <1>6 DEF Headers, Waiting, Flowing, Reading, Ended
  <2>4. Sent'
    BY <1>1, <1>5, <2>1 DEF FileInv, Sent, GenuineNow
  <2>5. AtEnd'
    BY <1>1, <1>5, <1>6 DEF FileInv, AtEnd, Reading
  <2>6. Measured'
    BY <1>1, <1>6, <2>1 DEF FileInv, Measured, Reading, Ended
  <2> QED
    BY <2>2, <2>3, <2>4, <2>5, <2>6 DEF FileInv
<1>7. CASE buf = <<>>
  <2>1. pc' = "close" /\ UNCHANGED wire
    BY <1>7 DEF Write
  <2>2. ASSUME touched = {}, opened \in Files PROVE Len(Body) = length
    <3>1. fail /\ ahead = <<>> /\ offset = size[opened] /\ length = size[opened]
      BY <1>1, <1>7, <2>2 DEF FileInv, AtEnd, Measured, Reading, Intact, Typed
    <3>2. Len(buf) = 0 /\ Len(ahead) = 0
      BY <1>7, <3>1, EmptySeq
    <3> QED
      BY <1>2, <1>3, <3>1, <3>2
  <2> QED
    BY <1>6, <2>1, <2>2
<1>8. CASE buf # <<>> /\ peer = "reset"
  BY <1>6, <1>8 DEF Write, Send
<1>9. CASE buf # <<>> /\ peer = "reads"
  <2>1. wire' = Append(wire, buf) /\ pc' = "read"
    BY <1>9 DEF Write, Send
  <2>2. wire \in Seq(WireItems) /\ Len(wire) \in Nat /\ Len(wire) >= 3 /\ buf \in WireItems
    <3>1. buf \in WireItems
      BY <1>2 DEF WireItems
    <3>2. wire \in Seq(WireItems) /\ Len(wire) >= 3
      BY <1>1 DEF FileInv, Typed, Headers, Reading
    <3> QED
      BY <3>1, <3>2, LenProperties
  <2>3. /\ wire' \in Seq(WireItems) /\ Len(wire') = Len(wire) + 1
        /\ \A k \in 1 .. Len(wire) : wire'[k] = wire[k]
        /\ wire'[Len(wire) + 1] = buf
    BY <2>1, <2>2, AppendProperties
  <2>4. Body' = Body \o buf
    <3>1. Joined(Append(wire, buf)) = Joined(wire) \o buf
      BY <2>2, JoinedAppend
    <3> QED
      BY <2>1, <3>1 DEF Body
  <2>5. Flow' = Flow /\ Flow = Body' \o ahead /\ Body' \in Seq(Units)
    <3> HIDE DEF Body
    <3>1. <<>> \o ahead = ahead
      BY <1>2, ConcatEmptySeq
    <3>2. (Body \o buf) \o ahead = Body \o (buf \o ahead)
      BY <1>2, ConcatAssociative
    <3>3. Body \o buf \in Seq(Units)
      BY <1>2, ConcatProperties
    <3> QED
      BY <1>1, <2>4, <3>1, <3>2, <3>3 DEF Flow
  <2>6. Typed'
    <3>1. \A k \in 4 .. Len(wire') : Len(wire'[k]) \in 1 .. BUF_SIZE
      <4> TAKE k \in 4 .. Len(wire')
      <4>1. CASE k <= Len(wire)
        <5>1. k \in 1 .. Len(wire) /\ k \in 4 .. Len(wire)
          BY <2>2, <4>1
        <5>2. Len(wire[k]) \in 1 .. BUF_SIZE
          BY <5>1 DEF FileInv, Typed
        <5> QED
          BY <2>3, <5>1, <5>2
      <4>2. CASE k = Len(wire) + 1
        <5>1. Len(buf) \in Nat \ {0}
          BY <1>2, <1>9, EmptySeq
        <5>2. Len(buf) <= BUF_SIZE
          BY DEF FileInv, Typed
        <5>3. Len(buf) \in 1 .. BUF_SIZE
          BY <1>4, <5>1, <5>2
        <5> QED
          BY <2>3, <4>2, <5>3
      <4>3. k <= Len(wire) \/ k = Len(wire) + 1
        BY <2>2, <2>3
      <4> QED
        BY <4>1, <4>2, <4>3
    <3>2. /\ disk' \in [Names -> Entries] /\ size' \in [Files -> 0 .. MaxUnits]
          /\ version' \in [Files -> Nat] /\ \A f \in Files : version'[f] <= changes'
          /\ changes' \in 0 .. MaxChanges /\ touched' \subseteq {"name", "units"}
          /\ opened' \in Entries /\ offset' \in 0 .. MaxUnits
          /\ ahead' \in Seq(Units) /\ Len(ahead') <= FILEBUF_SIZE
          /\ fail' \in BOOLEAN /\ length' \in (-1 .. MaxUnits) \cup {Huge}
          /\ peer' \in {"reads", "stalled", "reset"}
      BY <1>1 DEF FileInv, Typed
    <3>3. buf' \in Seq(Units) /\ Len(buf') <= BUF_SIZE
      BY <1>4
    <3>4. pc' \in Reading
      BY <2>1 DEF Reading
    <3> QED
      BY <2>3, <2>5, <3>1, <3>2, <3>3, <3>4 DEF Typed
  <2>7. Headers'
    BY <2>1, <2>2, <2>3 DEF Headers, Reading
  <2>8. Waiting'
    BY <2>1 DEF Waiting, Reading
  <2>9. Flowing'
    BY <1>1, <1>3, <1>5, <2>5 DEF Flowing, GenuineNow
  <2>10. Sent'
    <3>1. Len(Flow) = Len(Body') + Len(ahead) /\ Len(Body') \in Nat
      BY <1>2, <2>5, ConcatProperties, LenProperties
    <3>2. Len(Body') <= offset
      BY <1>2, <1>3, <3>1
    <3>3. ASSUME opened \in Files PROVE Genuine(Body', opened, version[opened], Intact)
      <4>1. PICK s \in Seq(Units), v \in {version[opened]}, intact \in {Intact} :
              s = Body' /\ v = version[opened] /\ intact = Intact
        BY <2>5
      <4>2. Genuine(s \o ahead, opened, v, intact)
        BY <1>3, <2>5, <3>3, <4>1 DEF GenuineNow
      <4>3. Genuine(s, opened, v, intact)
        BY <1>2, <4>2, GenuinePrefix
      <4> QED
        BY <4>1, <4>3
    <3> QED
      BY <1>1, <1>5, <3>2, <3>3 DEF FileInv, Sent, GenuineNow
  <2>11. AtEnd'
    BY <1>1, <1>4, <1>5, <2>1 DEF FileInv, AtEnd, Reading
  <2>12. Measured'
    BY <1>1, <2>1 DEF FileInv, Measured, Reading, Ended
  <2> QED
    BY <2>6, <2>7, <2>8, <2>9, <2>10, <2>11, <2>12 DEF FileInv
<1>10. buf = <<>> \/ peer = "reset" \/ peer = "reads"
  BY DEF Write, Send
<1> QED
  BY <1>7, <1>8, <1>9, <1>10

\* Of what has no end nothing is kept: do_GET goes on, until the client is gone.
LEMMA EndlessInv ==
  ASSUME FileInv, ReadEndless \/ WriteEndless
  PROVE  FileInv'
<1>1. /\ pc \in Reading /\ opened = Endless
      /\ \/ pc' \in Reading
         \/ pc' = "close" /\ peer = "reset"
      /\ UNCHANGED <<disk, size, version, changes, touched, path, opened, offset, ahead, fail, buf, length, wire, peer>>
  BY DEF ReadEndless, WriteEndless, fsVars, streamVars, Reading
<1>2. opened \notin Files
  BY <1>1, HttpFileAssumption DEF Special
<1>3. UNCHANGED <<Body, Flow, Intact>>
  BY <1>1 DEF Body, Flow, Intact
<1>4. Len(buf) < BUF_SIZE
  <2>1. Len(Flow) = 0
    BY <1>1, <1>2 DEF FileInv, Flowing, Sent
  <2>2. Len(Body) \in Nat /\ Len(buf) \in Nat /\ Len(ahead) \in Nat /\ Len(Flow) = Len(Body) + (Len(buf) + Len(ahead))
    BY Parts DEF FileInv
  <2>3. Len(buf) = 0
    BY <2>1, <2>2
  <2> QED
    BY <2>3, HttpFileAssumption
<1>5. Typed'
  BY <1>1, <1>3 DEF FileInv, Typed, Ended
<1>6. Headers' /\ Waiting'
  BY <1>1 DEF FileInv, Headers, Waiting, Reading, Ended
<1>7. Flowing' /\ Sent'
  BY <1>1, <1>2, <1>3 DEF FileInv, Flowing, Sent, Reading
<1>8. AtEnd'
  BY <1>1, <1>2, <1>4 DEF FileInv, AtEnd, Reading
<1>9. Measured'
  BY <1>1, <1>2 DEF FileInv, Measured, Reading, Ended
<1> QED
  BY <1>5, <1>6, <1>7, <1>8, <1>9 DEF FileInv

\* The connection is closed.
LEMMA CloseInv ==
  ASSUME FileInv, Close
  PROVE  FileInv'
<1>1. /\ pc = "close" /\ pc' = "closed"
      /\ UNCHANGED <<disk, size, version, changes, touched, path, opened, offset, ahead, fail, buf, length, wire, peer>>
  BY DEF Close, fsVars, streamVars
<1>2. UNCHANGED <<Body, Intact>>
  BY <1>1 DEF Body, Intact
<1>3. Typed'
  BY <1>1, <1>2 DEF FileInv, Typed, Ended
<1>4. Headers' /\ Waiting' /\ Flowing'
  BY <1>1 DEF Headers, Waiting, Flowing, Reading, Ended
<1>5. Sent'
  BY <1>1, <1>2 DEF FileInv, Sent, GenuineNow
<1>6. AtEnd'
  BY <1>1, <1>2 DEF FileInv, AtEnd, Reading
<1>7. Measured'
  BY <1>1, <1>2 DEF FileInv, Measured, Reading, Ended
<1> QED
  BY <1>3, <1>4, <1>5, <1>6, <1>7 DEF FileInv

-----------------------------------------------------------------------------
(* The file system and the client.                                         *)

\* A name is removed or leads to something else: the open file stays.
LEMMA ChangeNameInv ==
  ASSUME FileInv, NEW entry \in Entries, ChangeName(Name, entry)
  PROVE  FileInv'
<1>1. /\ UNCHANGED <<size, version, path, pc, opened, offset, ahead, fail, buf, length, wire, peer>>
      /\ disk' = [disk EXCEPT ![Name] = entry]
      /\ changes < MaxChanges /\ changes' = changes + 1
      /\ touched' = touched \cup IF pc = "size" THEN {"name"} ELSE {}
  BY DEF ChangeName, streamVars
<1>2. UNCHANGED <<Body, Flow>>
  BY <1>1 DEF Body, Flow
<1>3. (touched' = {} => touched = {}) /\ Intact' = Intact /\ (pc = "size" => "name" \in touched')
  BY <1>1 DEF Intact
<1>4. /\ touched' \subseteq {"name", "units"}
      /\ changes \in Nat /\ changes' \in 0 .. MaxChanges
      /\ \A f \in Files : version[f] <= changes'
  <2>1. changes \in Nat /\ MaxChanges \in Nat
    BY HttpFileAssumption DEF FileInv, Typed
  <2>2. \A f \in Files : version[f] \in Nat /\ version[f] <= changes
    BY DEF FileInv, Typed
  <2> QED
    BY <1>1, <2>1, <2>2 DEF FileInv, Typed
<1>5. Typed'
  BY <1>1, <1>2, <1>4 DEF FileInv, Typed
<1>6. Headers' /\ Waiting'
  BY <1>1 DEF FileInv, Headers, Waiting
<1>7. Flowing' /\ Sent'
  BY <1>1, <1>2, <1>3 DEF FileInv, Flowing, Sent, GenuineNow
<1>8. AtEnd'
  BY <1>1, <1>3 DEF FileInv, AtEnd
<1>9. Measured'
  BY <1>1, <1>2, <1>3 DEF FileInv, Measured
<1> QED
  BY <1>5, <1>6, <1>7, <1>8, <1>9 DEF FileInv

\* A file is written: if it is the open one, what was taken is older now.
LEMMA ChangeUnitsInv ==
  ASSUME FileInv, NEW f \in Files, NEW n \in 0 .. MaxUnits, ChangeUnits(f, n)
  PROVE  FileInv'
<1>1. /\ UNCHANGED <<disk, path, pc, opened, offset, ahead, fail, buf, length, wire, peer>>
      /\ size' = [size EXCEPT ![f] = n]
      /\ version' = [version EXCEPT ![f] = @ + 1]
      /\ changes < MaxChanges /\ changes' = changes + 1
      /\ touched' = touched \cup IF opened = f THEN {"units"} ELSE {}
  BY DEF ChangeUnits, streamVars
<1>2. UNCHANGED <<Body, Flow>> /\ Name' = Name
  BY <1>1 DEF Body, Flow, Name
<1>3. Typed'
  <2>1. changes \in Nat /\ MaxChanges \in Nat
    BY HttpFileAssumption DEF FileInv, Typed
  <2>2. /\ version \in [Files -> Nat] /\ size \in [Files -> 0 .. MaxUnits]
        /\ \A g \in Files : version[g] \in Nat /\ version[g] <= changes
    BY DEF FileInv, Typed
  <2>3. version' \in [Files -> Nat] /\ size' \in [Files -> 0 .. MaxUnits]
    BY <1>1, <2>2
  <2>4. \A g \in Files : version'[g] <= changes'
    BY <1>1, <2>1, <2>2
  <2>5. changes' \in 0 .. MaxChanges /\ touched' \subseteq {"name", "units"}
    BY <1>1, <2>1 DEF FileInv, Typed
  <2> QED
    BY <1>1, <1>2, <2>3, <2>4, <2>5 DEF FileInv, Typed
<1>4. Headers' /\ Waiting'
  BY <1>1 DEF FileInv, Headers, Waiting
<1>5. CASE opened = f
  <2>1. Intact' = FALSE /\ touched' # {} /\ opened \in Files
    BY <1>1, <1>5 DEF Intact
  <2>2. version[opened] \in Nat /\ version'[opened] = version[opened] + 1
    BY <1>1, <1>5 DEF FileInv, Typed
  <2>3. ASSUME NEW s, GenuineNow(s) PROVE Genuine(s, opened', version'[opened'], Intact')
    <3>1. PICK v \in Nat, intact \in {Intact} : v = version[opened] /\ intact = Intact
      BY <2>2
    <3>2. Genuine(s, opened, v, intact)
      BY <2>3, <3>1 DEF GenuineNow
    <3>3. Genuine(s, opened, v + 1, FALSE)
      BY <3>2, GenuineOlder
    <3> QED
      BY <1>1, <2>1, <2>2, <3>1, <3>3
  <2>4. Flowing'
    BY <1>1, <1>2, <2>1, <2>3 DEF FileInv, Flowing, GenuineNow
  <2>5. Sent'
    BY <1>1, <1>2, <2>1, <2>3 DEF FileInv, Sent, GenuineNow
  <2>6. AtEnd'
    BY <1>1, <2>1 DEF FileInv, AtEnd
  <2>7. Measured'
    BY <1>1, <1>2, <2>1, <1>5, HttpFileAssumption DEF FileInv, Measured, Name
  <2> QED
    BY <1>3, <1>4, <2>4, <2>5, <2>6, <2>7 DEF FileInv
<1>6. CASE opened # f
  <2>1. touched' = touched /\ Intact' = Intact
    BY <1>1, <1>6 DEF Intact
  <2>2. opened \in Files => version'[opened] = version[opened] /\ size'[opened] = size[opened]
    BY <1>1, <1>6 DEF FileInv, Typed
  <2>3. Flowing' /\ Sent'
    BY <1>1, <1>2, <2>1, <2>2 DEF FileInv, Flowing, Sent, GenuineNow
  <2>4. AtEnd'
    BY <1>1, <2>1, <2>2 DEF FileInv, AtEnd
  <2>5. Measured'
    BY <1>1, <1>2, <2>1, <2>2 DEF FileInv, Measured
  <2> QED
    BY <1>3, <1>4, <2>3, <2>4, <2>5 DEF FileInv
<1> QED
  BY <1>5, <1>6

\* The client stops reading, or is gone; or nothing happens.
LEMMA ClientInv ==
  ASSUME FileInv, Client \/ UNCHANGED vars
  PROVE  FileInv'
<1>1. /\ UNCHANGED <<disk, size, version, changes, touched, path, pc, opened, offset, ahead, fail, buf, length, wire>>
      /\ peer' \in {"reads", "stalled", "reset"}
      /\ peer' # "reset" => peer # "reset"
  BY DEF Client, vars, fsVars, streamVars, FileInv, Typed
<1>2. UNCHANGED <<Body, Flow, Intact>> /\ Name' = Name
  BY <1>1 DEF Body, Flow, Intact, Name
<1>3. Typed'
  BY <1>1, <1>2 DEF FileInv, Typed
<1>4. Headers' /\ Waiting'
  BY <1>1 DEF FileInv, Headers, Waiting
<1>5. Flowing' /\ Sent'
  BY <1>1, <1>2 DEF FileInv, Flowing, Sent, GenuineNow
<1>6. AtEnd'
  BY <1>1, <1>2 DEF FileInv, AtEnd
<1>7. Measured'
  BY <1>1, <1>2 DEF FileInv, Measured
<1> QED
  BY <1>3, <1>4, <1>5, <1>6, <1>7 DEF FileInv

-----------------------------------------------------------------------------
(* The results.                                                            *)

\* No request has been looked at.
LEMMA InitFile == Init => FileInv
<1> SUFFICES ASSUME Init PROVE FileInv
  OBVIOUS
<1>0. /\ version = [f \in Files |-> 0] /\ changes = 0 /\ touched = {} /\ pc = "resolve" /\ opened = Missing
      /\ offset = 0 /\ ahead = <<>> /\ fail = FALSE /\ buf = <<>> /\ length = 0 /\ wire = <<>>
      /\ peer = "reads" /\ size \in [Files -> 0 .. MaxUnits]
  BY Zenon DEF Init
<1>1. Len(wire) = 0 /\ Len(ahead) = 0 /\ Len(buf) = 0
  BY <1>0, EmptySeq
<1>2. Body = <<>> /\ Len(Body) = 0
  BY <1>1, JoinedHeader, EmptySeq DEF Body
<1>3. /\ MaxUnits \in Nat /\ MaxChanges \in Nat
      /\ BUF_SIZE \in Nat /\ BUF_SIZE > 0 /\ FILEBUF_SIZE \in Nat
      /\ Missing \notin Files
  BY HttpFileAssumption DEF Special
<1>4. Typed
  <2>1. disk \in [Names -> Entries]
    <3>1. PICK entry \in Entries : disk = [name \in Names |-> IF name = Name THEN entry ELSE Missing]
      BY Zenon DEF Init
    <3> QED
      BY <3>1 DEF Entries, Special
  <2>2. wire \in Seq(WireItems) /\ ahead \in Seq(Units) /\ buf \in Seq(Units) /\ Body \in Seq(Units)
    BY <1>0, <1>2, EmptySeq
  <2>3. version \in [Files -> Nat] /\ \A f \in Files : version[f] <= changes
    BY <1>0
  <2>4. \A k \in 4 .. Len(wire) : Len(wire[k]) \in 1 .. BUF_SIZE
    BY <1>1
  <2>5. length \in (-1 .. MaxUnits) \cup {Huge} /\ changes \in 0 .. MaxChanges /\ offset \in 0 .. MaxUnits
    BY <1>0, <1>3
  <2>6. /\ opened \in Entries /\ touched \subseteq {"name", "units"} /\ size \in [Files -> 0 .. MaxUnits]
        /\ pc = "resolve" /\ fail = FALSE /\ peer = "reads"
    <3>1. Missing \in Entries /\ {} \subseteq {"name", "units"}
      BY DEF Entries, Special
    <3> QED
      BY <1>0, <3>1, Zenon
  <2>7. Len(ahead) <= FILEBUF_SIZE /\ Len(buf) <= BUF_SIZE
    BY <1>1, <1>3
  <2>8. /\ pc \in {"resolve", "open", "403", "404", "size", "200", "length", "end_headers", "stuck"} \cup Reading \cup Ended
        /\ peer \in {"reads", "stalled", "reset"} /\ fail \in BOOLEAN
    BY <2>6
  <2> QED
    BY <2>1, <2>2, <2>3, <2>4, <2>5, <2>6, <2>7, <2>8, Zenon DEF Typed
<1>5. Headers /\ Waiting
  BY <1>0 DEF Headers, Waiting, Reading
<1>6. Flowing /\ Sent
  BY <1>0, <1>2, <1>3 DEF Flowing, Sent, Reading
<1>7. AtEnd
  BY <1>0, <1>3 DEF AtEnd, Reading
<1>8. Measured
  BY <1>0 DEF Measured, Reading, Ended
<1> QED
  BY <1>4, <1>5, <1>6, <1>7, <1>8 DEF FileInv

\* The invariant holds in every behaviour: between the two opens, the reads
\* and the writes of do_GET, whatever the file system and the client do, the
\* header is complete before the body, and what was taken from the file is what
\* was sent and what the two buffers hold, in the file's order.
THEOREM FileInductive == Spec => []FileInv
<1>1. ASSUME FileInv, [Next]_vars PROVE FileInv'
  <2>1. CASE Resolve \/ Open \/ GetFileSize
    BY <1>1, <2>1, OpenInv
  <2>2. CASE \/ Status("403", "403 Forbidden", "close") \/ Status("404", "404 Not Found", "close")
             \/ Status("200", "200 OK", "length") \/ ContentLength \/ end_headers
    BY <1>1, <2>2, HeadersInv
  <2>3. CASE Underflow
    BY <1>1, <2>3, UnderflowInv
  <2>4. CASE TakeBuffered
    BY <1>1, <2>4, TakeBufferedInv
  <2>5. CASE ReadAfterFail
    BY <1>1, <2>5, ReadAfterFailInv
  <2>6. CASE Write
    BY <1>1, <2>6, WriteInv
  <2>7. CASE Close
    BY <1>1, <2>7, CloseInv
  <2>8. CASE FileSystem
    BY <1>1, <2>8, ChangeNameInv, ChangeUnitsInv DEF FileSystem
  <2>9. CASE Client \/ UNCHANGED vars
    BY <1>1, <2>9, ClientInv
  <2>10. CASE ReadEndless \/ WriteEndless
    BY <1>1, <2>10, EndlessInv
  <2> QED
    BY <1>1, <2>10, <2>1, <2>2, <2>3, <2>4, <2>5, <2>6, <2>7, <2>8, <2>9 DEF Next, Worker
<1> QED
  BY <1>1, InitFile, PTL DEF Spec

\* Every variable keeps its type, and no chunk that do_GET sends is empty or
\* larger than its buffer.
THEOREM FileTyping == Spec => []TypeOK
<1>1. FileInv => TypeOK
  <2> SUFFICES ASSUME FileInv PROVE TypeOK
    OBVIOUS
  <2>1. version \in [Files -> 0 .. MaxChanges]
    <3>1. /\ version \in [Files -> Nat] /\ changes \in 0 .. MaxChanges /\ MaxChanges \in Nat
          /\ \A f \in Files : version[f] <= changes
      BY HttpFileAssumption DEF FileInv, Typed
    <3>2. ASSUME NEW f \in Files PROVE version[f] \in 0 .. MaxChanges
      <4>1. version[f] \in Nat /\ version[f] <= changes /\ changes \in Nat /\ changes <= MaxChanges
        BY <3>1
      <4> QED
        BY <3>1, <4>1
    <3> QED
      BY <3>1, <3>2
  <2>2. pc \in {"resolve", "open", "403", "404", "size", "200", "length", "end_headers", "read",
                "write", "close", "closed", "stuck"}
    BY DEF FileInv, Typed, Reading, Ended
  <2> QED
    BY <2>1, <2>2 DEF FileInv, Typed, TypeOK
<1> QED
  BY <1>1, FileInductive, PTL

\* Whatever happens to the name while do_GET serves it, and however its reads
\* and chunks fall, the client gets the file of the first open, from its first
\* unit on, without gap or repetition.
THEOREM FileBody == Spec => []BodyIsOpenedFile
<1>1. FileInv => BodyIsOpenedFile
  <2> SUFFICES ASSUME FileInv, NEW i \in 1 .. Len(Body)
               PROVE  /\ Body[i][1] = opened /\ Body[i][3] = i
                      /\ i > 1 => Body[i][2] >= Body[i - 1][2]
                      /\ "units" \notin touched => Body[i] = Unit(opened, i)
    BY DEF BodyIsOpenedFile
  <2>1. Body \in Seq(Units) /\ Len(Body) \in Nat /\ Len(Body) <= offset
    BY Parts DEF FileInv, Sent
  <2>2. PICK s \in Seq(Units) : s = Body
    BY <2>1
  <2>3. opened \in Files
    BY <2>1 DEF FileInv, Sent
  <2>4. Genuine(s, opened, version[opened], Intact)
    BY <2>2, <2>3 DEF FileInv, Sent, GenuineNow
  <2>5. i \in 1 .. Len(s) /\ i \in Nat
    BY <2>2
  <2>6. s[i] \in Units
    BY <2>5
  <2>7. s[i] = <<s[i][1], s[i][2], s[i][3]>>
    BY <2>6 DEF Units
  <2>8. /\ s[i][1] = opened /\ s[i][3] = i
        /\ i > 1 => s[i - 1][2] <= s[i][2]
        /\ Intact => s[i][2] = version[opened]
    BY <2>4, <2>5 DEF Genuine
  <2>9. "units" \notin touched => s[i] = Unit(opened, i)
    BY <2>7, <2>8 DEF Unit, Intact
  <2>10. i > 1 => s[i][2] >= s[i - 1][2]
    BY <2>8
  <2> QED
    BY <2>2, <2>8, <2>9, <2>10
<1> QED
  BY <1>1, FileInductive, PTL

\* The Content-Length that do_GET measured with its second open bounds the body
\* read through the first, and is the length of a response that ended, unless
\* the name or the file was changed meanwhile or the client is gone.
THEOREM FileLength == Spec => []LengthMatchesBody
<1>1. FileInv => LengthMatchesBody
  <2> SUFFICES ASSUME FileInv, Served, opened \in Files, touched = {}
               PROVE  /\ pc # "200" => Len(Body) <= length
                      /\ pc = "closed" /\ peer # "reset" => Len(Body) = length
    BY DEF LengthMatchesBody
  <2>1. pc \in {"length", "end_headers"} \cup Reading \cup Ended
    BY DEF FileInv, Headers, Served, Typed
  <2>2. length = size[opened]
    BY <2>1 DEF FileInv, Measured
  <2>3. Len(Body) <= offset /\ offset <= size[opened]
    BY DEF FileInv, Sent, AtEnd, Intact
  <2>4. Len(Body) \in Nat /\ offset \in Nat /\ size[opened] \in Nat
    BY Parts, HttpFileAssumption DEF FileInv, Typed
  <2>5. Len(Body) <= length
    BY <2>2, <2>3, <2>4
  <2>6. pc = "closed" /\ peer # "reset" => Len(Body) = length
    BY DEF FileInv, Measured, Ended
  <2> QED
    BY <2>5, <2>6
<1> QED
  BY <1>1, FileInductive, PTL
=============================================================================
