--------------------------- MODULE LogFileProofs ---------------------------
(***************************************************************************)
(* Proofs about LogFile, for every size of the buffer, of the files and of *)
(* the thread pool.  The invariants of the specification rest on four      *)
(* inductive ones:                                                         *)
(*                                                                         *)
(*   TypeInv    the types, and the form of the requests;                   *)
(*   Lines      where the lines are, which gives LinesAccounted;           *)
(*   Ownership  who holds which descriptor as long as nothing raced, which *)
(*              gives OwnFileOnly and NoFileLeaks;                         *)
(*   Bounds     which lines a file has or will get as long as no request   *)
(*              strayed, which gives FilesBounded.                         *)
(*                                                                         *)
(* The steps of the specification are first brought into three forms:      *)
(* requests are submitted (Added), one finishes (Moved), one is called     *)
(* back (Called).                                                          *)
(***************************************************************************)
EXTENDS LogFile, SequenceTheorems, FiniteSetTheorems, TLAPS

-----------------------------------------------------------------------------
(* The inductive invariants.                                                *)

\* What a request does goes with its callback, and its file is one of the n made so far.
WellFormed(q, n) ==
  /\ q.op = "open" <=> q.cb = "on_log_open"
  /\ q.op = "write" <=> q.cb \in {"on_log_write", "close_log"}
  /\ q.op # "write" => q.lines = <<>>
  /\ q.file \in Foreign .. n

\* The requests under way, and the descriptor that an open brought.
Requests ==
  /\ \A q \in Outstanding : WellFormed(q, Len(files))
  /\ \A q \in ToSet(finished) : q.op = "open" => q.result \in (1 .. MaxFd) \cup {-1}
  /\ log_state = "LOG_IS_OPEN" => logfile \in (1 .. MaxFd) \cup {-1}

\* The elements of a sequence of sequences, and that each is there only once.
Elems(ss) == UNION {Range(ss[i]) : i \in DOMAIN ss}

Disjoint(ss) ==
  \A i, k \in DOMAIN ss : \A j \in DOMAIN ss[i], l \in DOMAIN ss[k] :
    ss[i][j] = ss[k][l] => i = k /\ j = l

\* The lines of the requests that have not finished.
LinesIn(p) == [i \in DOMAIN p |-> p[i].lines]

Pending == LinesIn(pool)

\* The lines that left the buffer and were not dropped, and the last line that left it.
Kept == Elems(Pending) \cup Elems(files) \cup lost

Taken == logged - Len(buffer)

\* The buffer holds the last lines logged, the others are pending, in a file or lost.
Lines ==
  /\ Taken \in Nat
  /\ \A i \in DOMAIN buffer : buffer[i] = Taken + i
  /\ Disjoint(Pending) /\ Disjoint(files)
  /\ Elems(Pending) \cap Elems(files) = {}
  /\ Elems(Pending) \cap lost = {}
  /\ Elems(files) \cap lost = {}
  /\ Kept \subseteq 1 .. Taken
  /\ Cardinality((1 .. Taken) \ Kept) = noOfLogLinesDropped

\* The lines of a log file, there already or on their way.
LinesOf(f) ==
  Range(files[f])
  \cup (UNION {Range(pool[i].lines) : i \in {j \in DOMAIN pool : pool[j].file = f}})

\* A log file has one descriptor.
OneDescriptor == \A a, b \in 1..MaxFd : fds[a] > 0 /\ fds[a] = fds[b] => a = b

\* A request that opened fd waits to be called back.
Opened(k, fd) == k \in DOMAIN finished /\ finished[k].op = "open" /\ finished[k].result = fd

\* A file that was just opened is empty, and nobody else has to do with it.
FreshFiles ==
  \A fd \in 1..MaxFd, k \in DOMAIN finished : Opened(k, fd) =>
    /\ fds[fd] > 0 /\ files[fds[fd]] = <<>>
    /\ \A q \in Outstanding : q.file # fds[fd]
    /\ log_state = "LOG_IS_OPEN" => logfile # fd
    /\ \A m \in DOMAIN finished : Opened(m, fd) => m = k

\* Nobody is about to close the file that is being written.
CurrentFile ==
  log_state = "LOG_IS_OPEN" /\ logfile \in 1..MaxFd =>
    LET g == fds[logfile]
    IN /\ g > 0
       /\ \A i \in DOMAIN pool : pool[i].op = "close" => pool[i].file # g
       /\ \A q \in Outstanding : q.cb = "close_log" => q.file # g

Apart == OneDescriptor /\ FreshFiles /\ CurrentFile

\* logSize covers the lines of the current file, and the last batch is all that a file
\* gets beyond the limit.
Sizes ==
  /\ \A f \in DOMAIN files : Cardinality(LinesOf(f)) < SizeLimit + Capacity
  /\ log_state = "LOG_IS_OPEN" /\ logfile \in 1..MaxFd =>
       /\ Cardinality(LinesOf(fds[logfile])) <= logSize
       /\ Cardinality(LinesOf(fds[logfile])) < SizeLimit

Bounds == ~strayed => Apart /\ Sizes

\* A write has not been called back; the log's descriptor is used or will be.
Writing == \E q \in Outstanding : q.op = "write"

InUse == log_state = "LOG_IS_OPEN" \/ Writing

\* All writes are of the current file, the last of which closes it.
Writes ==
  /\ \A q \in Outstanding : q.op = "write" => q.fd = logfile /\ q.file = At(logfile)
  /\ log_state = "LOG_IS_OPEN" => \A q \in Outstanding : q.cb # "close_log"
  /\ log_state # "LOG_IS_OPEN" /\ Writing => \E q \in Outstanding : q.cb = "close_log"
  /\ InUse /\ logfile \in 1..MaxFd => fds[logfile] > 0

\* At most one file is being opened, and its descriptor is nobody else's.
Opens ==
  /\ log_state # "OPENING_LOG" => \A q \in Outstanding : q.op # "open"
  /\ \A i, k \in DOMAIN pool : pool[i].op = "open" /\ pool[k].op = "open" => i = k
  /\ \A i, k \in DOMAIN finished : finished[i].op = "open" /\ finished[k].op = "open" => i = k
  /\ \A i \in DOMAIN pool, k \in DOMAIN finished : ~(pool[i].op = "open" /\ finished[k].op = "open")
  /\ \A fd \in 1..MaxFd, k \in DOMAIN finished : Opened(k, fd) =>
       fds[fd] > 0 /\ (InUse => fd # logfile)

\* A request to close fd has not finished.
Closing(i, fd) == i \in DOMAIN pool /\ pool[i].op = "close" /\ pool[i].fd = fd

\* What is being closed is a log file that is not used any more, and is closed once.
Closes ==
  /\ \A i \in DOMAIN pool : pool[i].op = "close" => At(pool[i].fd) = pool[i].file
  /\ \A fd \in 1..MaxFd, i \in DOMAIN pool : Closing(i, fd) =>
       /\ fds[fd] > 0
       /\ InUse => fd # logfile
       /\ \A m \in DOMAIN pool : Closing(m, fd) => m = i
       /\ \A k \in DOMAIN finished : ~Opened(k, fd)

\* Every descriptor of a log file is the current one, or will be closed, or was opened
\* just now.
Held ==
  \A fd \in 1..MaxFd : fds[fd] > 0 =>
    \/ log_state = "LOG_IS_OPEN" /\ logfile = fd
    \/ \E q \in Outstanding : q.cb = "close_log" /\ q.fd = fd
    \/ \E i \in DOMAIN pool : Closing(i, fd)
    \/ \E k \in DOMAIN finished : Opened(k, fd)

Own == ~strayed /\ Writes /\ Opens /\ Closes /\ Held

Ownership == ~raced => Own

-----------------------------------------------------------------------------
(* Sequences.                                                               *)

\* The index in s of the j-th element of RemoveAt(s, i).
Skip(i, j) == IF j < i THEN j ELSE j + 1

\* RemoveAt leaves the other elements in their order.
LEMMA RemoveAtProperties ==
  ASSUME NEW S, NEW s \in Seq(S), NEW i \in 1 .. Len(s)
  PROVE  /\ RemoveAt(s, i) \in Seq(S)
         /\ Len(RemoveAt(s, i)) = Len(s) - 1
         /\ DOMAIN RemoveAt(s, i) = 1 .. Len(s) - 1
         /\ \A j \in 1 .. Len(s) - 1 : /\ RemoveAt(s, i)[j] = s[Skip(i, j)]
                                      /\ Skip(i, j) \in (1 .. Len(s)) \ {i}
         /\ \A k \in (1 .. Len(s)) \ {i} : \E j \in 1 .. Len(s) - 1 : k = Skip(i, j)
<1>1. Len(s) \in Nat /\ \A k \in 1 .. Len(s) : s[k] \in S
  BY LenProperties, ElementOfSeq
<1>2. /\ SubSeq(s, 1, i - 1) \in Seq(S) /\ Len(SubSeq(s, 1, i - 1)) = i - 1
      /\ \A j \in 1 .. i - 1 : SubSeq(s, 1, i - 1)[j] = s[j]
  BY <1>1, SubSeqProperties
<1>3. /\ SubSeq(s, i + 1, Len(s)) \in Seq(S) /\ Len(SubSeq(s, i + 1, Len(s))) = Len(s) - i
      /\ \A j \in 1 .. Len(s) - i : SubSeq(s, i + 1, Len(s))[j] = s[i + j]
  BY <1>1, SubSeqProperties
<1>4. /\ RemoveAt(s, i) \in Seq(S) /\ Len(RemoveAt(s, i)) = Len(s) - 1
      /\ \A j \in 1 .. Len(s) - 1 : RemoveAt(s, i)[j] = s[Skip(i, j)]
  <2>0. PICK n \in Nat : n = Len(s)
    BY <1>1
  <2>1. PICK a, b : /\ a \in Seq(S) /\ Len(a) = i - 1 /\ \A j \in 1 .. i - 1 : a[j] = s[j]
                    /\ b \in Seq(S) /\ Len(b) = n - i /\ \A j \in 1 .. n - i : b[j] = s[i + j]
                    /\ RemoveAt(s, i) = a \o b
    BY <1>2, <1>3, <2>0 DEF RemoveAt
  <2>2. /\ a \o b \in Seq(S) /\ Len(a \o b) = n - 1
        /\ \A j \in 1 .. n - 1 : (a \o b)[j] = IF j <= i - 1 THEN a[j] ELSE b[j - (i - 1)]
    <3>1. Len(a) + Len(b) = n - 1
      BY <2>0, <2>1
    <3> QED BY <2>1, <3>1, ConcatProperties
  <2>3. ASSUME NEW j \in 1 .. n - 1
        PROVE  (a \o b)[j] = s[Skip(i, j)]
    <3>1. CASE j < i
      BY <2>0, <2>1, <2>2, <3>1 DEF Skip
    <3>2. CASE j >= i
      <4>1. PICK m \in 1 .. n - i : m = j - (i - 1) /\ i + m = j + 1
        BY <2>0, <3>2
      <4>2. (a \o b)[j] = b[m]
        BY <2>0, <2>2, <3>2, <4>1
      <4>3. b[m] = s[j + 1]
        BY <2>1, <4>1
      <4>4. Skip(i, j) = j + 1
        BY <2>0, <3>2 DEF Skip
      <4> QED BY <4>2, <4>3, <4>4
    <3>3. j < i \/ j >= i
      BY <2>0
    <3> QED BY <3>1, <3>2, <3>3
  <2> QED BY <2>0, <2>1, <2>2, <2>3
<1>5. DOMAIN RemoveAt(s, i) = 1 .. Len(s) - 1
  BY <1>4, LenProperties
<1>6. \A j \in 1 .. Len(s) - 1 : Skip(i, j) \in (1 .. Len(s)) \ {i}
  BY <1>1 DEF Skip
<1>7. ASSUME NEW k \in (1 .. Len(s)) \ {i}
      PROVE  \E j \in 1 .. Len(s) - 1 : k = Skip(i, j)
  <2>1. CASE k < i
    <3>1. k \in 1 .. Len(s) - 1 /\ k = Skip(i, k)
      BY <1>1, <2>1 DEF Skip
    <3> QED BY <3>1
  <2>2. CASE k > i
    <3>1. k - 1 \in 1 .. Len(s) - 1 /\ k = Skip(i, k - 1)
      BY <1>1, <2>2 DEF Skip
    <3> QED BY <3>1
  <2> QED BY <1>1, <2>1, <2>2
<1> QED BY <1>4, <1>5, <1>6, <1>7

\* The elements of a sequence one element longer or shorter.
LEMMA ToSetProperties ==
  ASSUME NEW S, NEW s \in Seq(S)
  PROVE  /\ ToSet(s) \subseteq S
         /\ \A e \in S : ToSet(Append(s, e)) = ToSet(s) \cup {e}
         /\ \A i \in 1 .. Len(s) : ToSet(s) = ToSet(RemoveAt(s, i)) \cup {s[i]}
         /\ s # <<>> => ToSet(s) = ToSet(Tail(s)) \cup {Head(s)}
<1>1. Len(s) \in Nat /\ DOMAIN s = 1 .. Len(s) /\ \A k \in 1 .. Len(s) : s[k] \in S
  BY LenProperties, ElementOfSeq
<1>2. ASSUME NEW e \in S
      PROVE  ToSet(Append(s, e)) = ToSet(s) \cup {e}
  <2>1. DOMAIN Append(s, e) = 1 .. Len(s) + 1
    BY AppendProperties, LenProperties
  <2> QED BY <1>1, <2>1, AppendProperties DEF ToSet
<1>3. ASSUME NEW i \in 1 .. Len(s)
      PROVE  ToSet(s) = ToSet(RemoveAt(s, i)) \cup {s[i]}
  <2>1. /\ DOMAIN RemoveAt(s, i) = 1 .. Len(s) - 1
        /\ \A j \in 1 .. Len(s) - 1 : /\ RemoveAt(s, i)[j] = s[Skip(i, j)]
                                     /\ Skip(i, j) \in (1 .. Len(s)) \ {i}
        /\ \A k \in (1 .. Len(s)) \ {i} : \E j \in 1 .. Len(s) - 1 : k = Skip(i, j)
    BY RemoveAtProperties
  <2>2. \A x \in ToSet(RemoveAt(s, i)) : x \in ToSet(s)
    BY <1>1, <2>1 DEF ToSet
  <2>3. ASSUME NEW k \in (1 .. Len(s)) \ {i}
        PROVE  s[k] \in ToSet(RemoveAt(s, i))
    BY <1>1, <2>1 DEF ToSet
  <2>4. s[i] \in ToSet(s)
    BY <1>1 DEF ToSet
  <2>5. \A x \in ToSet(s) : x \in ToSet(RemoveAt(s, i)) \cup {s[i]}
    BY <1>1, <2>3 DEF ToSet
  <2> QED BY <2>2, <2>4, <2>5
<1>4. ASSUME s # <<>>
      PROVE  ToSet(s) = ToSet(Tail(s)) \cup {Head(s)}
  <2>1. /\ Len(s) >= 1 /\ Head(s) = s[1] /\ DOMAIN Tail(s) = 1 .. Len(s) - 1
        /\ \A i \in 1 .. Len(s) - 1 : Tail(s)[i] = s[i + 1]
    BY <1>1, <1>4, HeadTailProperties, LenProperties, EmptySeq
  <2>2. \A k \in 2 .. Len(s) : k - 1 \in 1 .. Len(s) - 1 /\ s[k] = Tail(s)[k - 1]
    <3> SUFFICES ASSUME NEW k \in 2 .. Len(s)
                 PROVE  k - 1 \in 1 .. Len(s) - 1 /\ s[k] = Tail(s)[k - 1]
      OBVIOUS
    <3>1. k - 1 \in 1 .. Len(s) - 1 /\ k - 1 + 1 = k
      BY <1>1
    <3> QED BY <2>1, <3>1
  <2>3. \A x \in ToSet(s) : x \in ToSet(Tail(s)) \cup {Head(s)}
    <3> SUFFICES ASSUME NEW k \in 1 .. Len(s)
                 PROVE  s[k] \in ToSet(Tail(s)) \cup {Head(s)}
      BY <1>1 DEF ToSet
    <3>1. CASE k = 1
      BY <2>1, <3>1
    <3>2. CASE k # 1
      <4>1. k - 1 \in DOMAIN Tail(s) /\ s[k] = Tail(s)[k - 1]
        BY <1>1, <2>1, <2>2, <3>2
      <4> QED BY <4>1 DEF ToSet
    <3> QED BY <3>1, <3>2
  <2>4. ToSet(Tail(s)) \subseteq ToSet(s) /\ Head(s) \in ToSet(s)
    BY <1>1, <2>1 DEF ToSet
  <2> QED BY <2>3, <2>4
<1>5. ToSet(s) \subseteq S
  BY <1>1 DEF ToSet
<1> QED BY <1>2, <1>3, <1>4, <1>5

-----------------------------------------------------------------------------
(* Types, and the shape of the steps.                                       *)

TypeInv == TypeOK /\ Requests

OpenRequest == Request("open", 0, <<>>, "on_log_open")

CloseRequest(file) == [Request("close", logfile, <<>>, "on_log_close") EXCEPT !.file = file]

\* What is behind a descriptor is nothing, a connection or a log file.
LEMMA AtType ==
  ASSUME TypeOK
  PROVE  /\ Len(files) \in Nat
         /\ \A fd \in Int : At(fd) \in Foreign .. Len(files)
         /\ \A fd \in 1 .. MaxFd : At(fd) = fds[fd] /\ fds[fd] \in Foreign .. Len(files)
         /\ Foreign \in Int /\ Foreign < 0
<1>1. Len(files) \in Nat /\ Foreign = -1 /\ Free = 0
  BY LenProperties DEF TypeOK, Foreign, Free
<1>2. ASSUME NEW fd \in 1 .. MaxFd
      PROVE  At(fd) = fds[fd] /\ fds[fd] \in Foreign .. Len(files)
  BY DEF TypeOK, At
<1>3. ASSUME NEW fd \in Int, fd \notin 1 .. MaxFd
      PROVE  At(fd) \in Foreign .. Len(files)
  BY <1>1, <1>3 DEF At
<1> QED BY <1>1, <1>2, <1>3

\* A request names the file behind its descriptor.
LEMMA RequestProperties ==
  ASSUME TypeOK, NEW op \in {"open", "write", "close"}, NEW fd \in Int, NEW lines \in Seq(Nat),
         NEW cb \in {"on_log_open", "on_log_write", "close_log", "on_log_close"},
         NEW q, q = Request(op, fd, lines, cb)
  PROVE  /\ q \in RequestType
         /\ q.op = op /\ q.fd = fd /\ q.file = At(fd) /\ q.lines = lines
         /\ q.cb = cb /\ q.result = 0
         /\ q.file \in Foreign .. Len(files)
<1>1. At(fd) \in Foreign .. Len(files) /\ At(fd) \in Int
  BY AtType
<1> QED BY <1>1 DEF Request, RequestType

\* The requests that open and close a file.
LEMMA OpenClose ==
  ASSUME TypeOK, NEW file \in Int
  PROVE  /\ OpenRequest \in RequestType
         /\ OpenRequest.op = "open" /\ OpenRequest.cb = "on_log_open"
         /\ OpenRequest.fd = 0 /\ OpenRequest.file = Free /\ OpenRequest.lines = <<>>
         /\ OpenRequest.result = 0
         /\ CloseRequest(file) \in RequestType
         /\ CloseRequest(file).op = "close" /\ CloseRequest(file).cb = "on_log_close"
         /\ CloseRequest(file).fd = logfile /\ CloseRequest(file).file = file
         /\ CloseRequest(file).lines = <<>>
<1>1. <<>> \in Seq(Nat) /\ logfile \in Int
  BY EmptySeq DEF TypeOK
<1>2. At(0) = Free /\ Free = 0
  BY LogAssumption DEF At, Free
<1>3. At(logfile) \in Int
  BY <1>1, AtType
<1>4. OpenRequest = [op |-> "open", fd |-> 0, file |-> Free, lines |-> <<>>,
                     cb |-> "on_log_open", result |-> 0]
  BY <1>2 DEF OpenRequest, Request
<1>5. CloseRequest(file) = [op |-> "close", fd |-> logfile, file |-> file, lines |-> <<>>,
                            cb |-> "on_log_close", result |-> 0]
  BY DEF CloseRequest, Request
<1> QED BY <1>1, <1>2, <1>4, <1>5 DEF RequestType

\* offer() keeps the buffer a sequence of lines no longer than its capacity.
LEMMA OfferType ==
  ASSUME TypeOK, NEW b, b = offer(logged + 1)
  PROVE  /\ b \in Seq(Nat)
         /\ Len(b) \in 1 .. Capacity
         /\ b[Len(b)] = logged + 1
         /\ Len(buffer) = Capacity => /\ Len(b) = Capacity
                                      /\ \A i \in 1 .. Capacity - 1 : b[i] = buffer[i + 1]
         /\ Len(buffer) # Capacity => /\ Len(b) = Len(buffer) + 1
                                      /\ \A i \in 1 .. Len(buffer) : b[i] = buffer[i]
<1>1. /\ Capacity \in Nat \ {0} /\ Len(buffer) \in 0 .. Capacity /\ logged + 1 \in Nat
      /\ buffer \in Seq(Nat)
  BY LogAssumption, LenProperties DEF TypeOK
<1>2. ASSUME NEW t \in Seq(Nat), b = Append(t, logged + 1)
      PROVE  /\ b \in Seq(Nat) /\ Len(b) = Len(t) + 1 /\ Len(t) \in Nat
             /\ b[Len(t) + 1] = logged + 1
             /\ \A i \in 1 .. Len(t) : b[i] = t[i]
  <2>1. PICK e \in Nat : e = logged + 1
    BY <1>1
  <2>2. /\ Append(t, e) \in Seq(Nat) /\ Len(Append(t, e)) = Len(t) + 1
        /\ Append(t, e)[Len(t) + 1] = e
        /\ \A i \in 1 .. Len(t) : Append(t, e)[i] = t[i]
    BY ONLY t \in Seq(Nat), e \in Nat, AppendProperties
  <2>3. Len(t) \in Nat
    BY ONLY t \in Seq(Nat), LenProperties
  <2> QED BY ONLY <1>2, <2>1, <2>2, <2>3
<1>3. CASE Len(buffer) = Capacity
  <2>1. buffer # <<>>
    BY <1>1, <1>3, EmptySeq
  <2>2. PICK t \in Seq(Nat) : t = Tail(buffer) /\ Len(t) = Capacity - 1
                              /\ \A i \in 1 .. Capacity - 1 : t[i] = buffer[i + 1]
    <3>1. /\ Tail(buffer) \in Seq(Nat) /\ Len(Tail(buffer)) = Len(buffer) - 1
          /\ \A i \in 1 .. Len(Tail(buffer)) : Tail(buffer)[i] = buffer[i + 1]
      BY ONLY <1>1, <2>1, HeadTailProperties
    <3> QED BY ONLY <1>1, <1>3, <3>1
  <2>3. b = Append(t, logged + 1)
    BY <1>3, <2>2 DEF offer
  <2>4. /\ b \in Seq(Nat) /\ Len(b) = Len(t) + 1 /\ b[Len(t) + 1] = logged + 1
        /\ \A i \in 1 .. Len(t) : b[i] = t[i]
    BY <1>2, <2>3
  <2>5. Len(b) = Capacity /\ b[Capacity] = logged + 1
    BY <1>1, <2>2, <2>4
  <2>6. \A i \in 1 .. Capacity - 1 : b[i] = buffer[i + 1]
    BY <1>1, <2>2, <2>4
  <2> QED BY <1>1, <1>3, <2>4, <2>5, <2>6
<1>4. CASE Len(buffer) # Capacity
  <2>1. b = Append(buffer, logged + 1)
    BY <1>4 DEF offer
  <2> QED BY <1>1, <1>2, <1>4, <2>1
<1> QED BY <1>3, <1>4

\* The pool has got the requests in N, no two of them of a kind.
Added(N) ==
  /\ pool' \in Seq(RequestType)
  /\ \A i \in DOMAIN pool : i \in DOMAIN pool' /\ pool'[i] = pool[i]
  /\ \A i \in DOMAIN pool' \ DOMAIN pool : pool'[i] \in N
  /\ \A i, k \in DOMAIN pool' \ DOMAIN pool : pool'[i].op = pool'[k].op => i = k
  /\ N \subseteq ToSet(pool')
  /\ ToSet(pool') = ToSet(pool) \cup N

\* Nothing is submitted.
LEMMA AddNone ==
  ASSUME TypeOK, pool' = pool
  PROVE  Added({})
BY DEF TypeOK, Added

\* One request is submitted.
LEMMA AddOne ==
  ASSUME TypeOK, NEW x \in RequestType, pool' = Append(pool, x)
  PROVE  Added({x})
<1>1. /\ pool' \in Seq(RequestType) /\ Len(pool') = Len(pool) + 1 /\ Len(pool) \in Nat
      /\ DOMAIN pool = 1 .. Len(pool) /\ DOMAIN pool' = 1 .. Len(pool')
      /\ \A i \in 1 .. Len(pool) : pool'[i] = pool[i]
      /\ pool'[Len(pool) + 1] = x
  BY AppendProperties, LenProperties DEF TypeOK
<1>2. ToSet(pool') = ToSet(pool) \cup {x}
  BY ToSetProperties DEF TypeOK
<1>3. \A i \in DOMAIN pool' \ DOMAIN pool : i = Len(pool) + 1
  BY <1>1
<1> QED BY <1>1, <1>2, <1>3 DEF Added

\* Two requests of different kinds are submitted.
LEMMA AddTwo ==
  ASSUME TypeOK, NEW x \in RequestType, NEW y \in RequestType, x.op # y.op,
         pool' = Append(Append(pool, x), y)
  PROVE  Added({x, y})
<1>1. PICK p \in Seq(RequestType) :
        /\ p = Append(pool, x) /\ Len(p) = Len(pool) + 1 /\ Len(pool) \in Nat
        /\ DOMAIN pool = 1 .. Len(pool)
        /\ \A i \in 1 .. Len(pool) : p[i] = pool[i]
        /\ p[Len(pool) + 1] = x
        /\ ToSet(p) = ToSet(pool) \cup {x}
  <2>1. pool \in Seq(RequestType) /\ Append(pool, x) \in Seq(RequestType)
    BY AppendProperties DEF TypeOK
  <2>2. ToSet(Append(pool, x)) = ToSet(pool) \cup {x}
    BY <2>1, ToSetProperties
  <2>3. /\ Len(Append(pool, x)) = Len(pool) + 1 /\ Len(pool) \in Nat
        /\ DOMAIN pool = 1 .. Len(pool)
        /\ \A i \in 1 .. Len(pool) : Append(pool, x)[i] = pool[i]
        /\ Append(pool, x)[Len(pool) + 1] = x
    BY <2>1, AppendProperties, LenProperties
  <2> QED BY <2>1, <2>2, <2>3, Zenon
<1>2. /\ pool' \in Seq(RequestType) /\ Len(pool') = Len(pool) + 2
      /\ DOMAIN pool' = 1 .. Len(pool')
      /\ \A i \in 1 .. Len(pool) + 1 : pool'[i] = p[i]
      /\ pool'[Len(pool) + 2] = y
  <2>1. /\ pool' \in Seq(RequestType) /\ Len(pool') = Len(p) + 1
        /\ DOMAIN pool' = 1 .. Len(pool')
        /\ \A i \in 1 .. Len(p) : pool'[i] = p[i]
        /\ pool'[Len(p) + 1] = y
    BY <1>1, AppendProperties, LenProperties
  <2> QED BY <1>1, <2>1
<1>3. ToSet(pool') = ToSet(pool) \cup {x, y}
  <2>1. pool' = Append(p, y)
    BY <1>1
  <2>2. ToSet(pool') = ToSet(p) \cup {y}
    BY <2>1, ToSetProperties
  <2> QED BY <1>1, <2>2
<1>4. \A i \in DOMAIN pool' \ DOMAIN pool :
        \/ i = Len(pool) + 1 /\ pool'[i] = x
        \/ i = Len(pool) + 2 /\ pool'[i] = y
  BY <1>1, <1>2
<1>5. \A i \in DOMAIN pool : i \in DOMAIN pool' /\ pool'[i] = pool[i]
  BY <1>1, <1>2
<1> QED BY <1>2, <1>3, <1>4, <1>5 DEF Added

\* open_log_file adds at most the request that opens a file.
LEMMA OpenAdds ==
  ASSUME NEW state, NEW reqs, open_log_file(state, reqs)
  PROVE  \/ log_state' = state /\ pool' = reqs
         \/ /\ state = "LOG_NOT_OPEN" /\ log_state' = "OPENING_LOG"
            /\ pool' = Append(reqs, OpenRequest)
BY DEF open_log_file, OpenRequest

\* A request left the pool for the end of the finished ones.
Moved(i, r) ==
  /\ pool' \in Seq(RequestType) /\ finished' \in Seq(RequestType)
  /\ \A j \in DOMAIN pool' : Skip(i, j) \in DOMAIN pool \ {i} /\ pool'[j] = pool[Skip(i, j)]
  /\ \A j, k \in DOMAIN pool' : Skip(i, j) = Skip(i, k) => j = k
  /\ \A k \in DOMAIN pool \ {i} : \E j \in DOMAIN pool' : k = Skip(i, j)
  /\ \A k \in DOMAIN finished : k \in DOMAIN finished' /\ finished'[k] = finished[k]
  /\ \E k \in DOMAIN finished' :
       /\ k \notin DOMAIN finished
       /\ finished'[k] = [pool[i] EXCEPT !.result = r]
       /\ \A m \in DOMAIN finished' \ DOMAIN finished : m = k
  /\ ToSet(pool) = ToSet(pool') \cup {pool[i]}
  /\ ToSet(finished') = ToSet(finished) \cup {[pool[i] EXCEPT !.result = r]}

\* Finish moves a request.
LEMMA FinishMoves ==
  ASSUME TypeOK, NEW i \in 1 .. Len(pool), NEW r \in Int, Finish(i, r)
  PROVE  /\ Moved(i, r)
         /\ pool[i] \in RequestType
         /\ [pool[i] EXCEPT !.result = r] \in RequestType
<1>1. /\ i \in 1 .. Len(pool) /\ Len(pool) \in Nat /\ DOMAIN pool = 1 .. Len(pool)
      /\ pool[i] \in RequestType
  BY LenProperties, ElementOfSeq DEF TypeOK
<1>2. PICK q \in RequestType : q = [pool[i] EXCEPT !.result = r]
  BY <1>1 DEF RequestType
<1>3. pool' = RemoveAt(pool, i) /\ finished' = Append(finished, q)
  BY <1>2 DEF Finish
<1>4. /\ pool' \in Seq(RequestType) /\ DOMAIN pool' = 1 .. Len(pool) - 1
      /\ \A j \in 1 .. Len(pool) - 1 : /\ pool'[j] = pool[Skip(i, j)]
                                      /\ Skip(i, j) \in (1 .. Len(pool)) \ {i}
      /\ \A k \in (1 .. Len(pool)) \ {i} : \E j \in 1 .. Len(pool) - 1 : k = Skip(i, j)
  <2>1. pool \in Seq(RequestType)
    BY DEF TypeOK
  <2>2. /\ RemoveAt(pool, i) \in Seq(RequestType)
        /\ DOMAIN RemoveAt(pool, i) = 1 .. Len(pool) - 1
        /\ \A j \in 1 .. Len(pool) - 1 : /\ RemoveAt(pool, i)[j] = pool[Skip(i, j)]
                                        /\ Skip(i, j) \in (1 .. Len(pool)) \ {i}
        /\ \A k \in (1 .. Len(pool)) \ {i} : \E j \in 1 .. Len(pool) - 1 : k = Skip(i, j)
    BY <2>1, RemoveAtProperties
  <2> QED BY <1>3, <2>2
<1>5. \A j, k \in DOMAIN pool' : Skip(i, j) = Skip(i, k) => j = k
  BY <1>1, <1>4 DEF Skip
<1>6. /\ finished' \in Seq(RequestType) /\ Len(finished) \in Nat
      /\ DOMAIN finished = 1 .. Len(finished) /\ DOMAIN finished' = 1 .. Len(finished) + 1
      /\ \A k \in 1 .. Len(finished) : finished'[k] = finished[k]
      /\ finished'[Len(finished) + 1] = q
  BY <1>3, AppendProperties, LenProperties DEF TypeOK
<1>7. /\ \A k \in DOMAIN finished : k \in DOMAIN finished' /\ finished'[k] = finished[k]
      /\ \E k \in DOMAIN finished' :
           /\ k \notin DOMAIN finished
           /\ finished'[k] = q
           /\ \A m \in DOMAIN finished' \ DOMAIN finished : m = k
  BY <1>6
<1>8. ToSet(pool) = ToSet(pool') \cup {pool[i]} /\ ToSet(finished') = ToSet(finished) \cup {q}
  BY <1>1, <1>3, ToSetProperties DEF TypeOK
<1> QED BY <1>1, <1>2, <1>4, <1>5, <1>6, <1>7, <1>8 DEF Moved

\* The first of the finished requests is called back.
Called(q) ==
  /\ q \in RequestType
  /\ finished' \in Seq(RequestType)
  /\ 1 \in DOMAIN finished /\ q = finished[1]
  /\ \A k \in DOMAIN finished' : k \in Nat /\ k + 1 \in DOMAIN finished \ {1}
                                /\ finished'[k] = finished[k + 1]
  /\ \A k \in DOMAIN finished \ {1} : k \in Nat /\ k - 1 \in DOMAIN finished'
                                     /\ finished[k] = finished'[k - 1]
  /\ ToSet(finished) = ToSet(finished') \cup {q}

\* A callback takes the first of the finished requests.
LEMMA CallbackCalls ==
  ASSUME TypeOK, finished # <<>>, finished' = Tail(finished)
  PROVE  Called(Head(finished))
<1>1. /\ Len(finished) \in Nat \ {0} /\ DOMAIN finished = 1 .. Len(finished)
      /\ finished \in Seq(RequestType)
  BY LenProperties, EmptySeq DEF TypeOK
<1>2. /\ finished' \in Seq(RequestType) /\ Head(finished) \in RequestType
      /\ DOMAIN finished' = 1 .. Len(finished) - 1
      /\ \A k \in 1 .. Len(finished) - 1 : finished'[k] = finished[k + 1]
      /\ Head(finished) = finished[1]
  BY <1>1, HeadTailProperties, LenProperties
<1>3. ToSet(finished) = ToSet(finished') \cup {Head(finished)}
  BY <1>1, ToSetProperties
<1>4. ASSUME NEW k \in DOMAIN finished \ {1}
      PROVE  k \in Nat /\ k - 1 \in DOMAIN finished' /\ finished[k] = finished'[k - 1]
  <2>1. k - 1 \in 1 .. Len(finished) - 1 /\ k - 1 + 1 = k
    BY <1>1
  <2> QED BY <1>1, <1>2, <2>1
<1>5. \A k \in DOMAIN finished' : k \in Nat /\ k + 1 \in DOMAIN finished \ {1}
                                  /\ finished'[k] = finished[k + 1]
  BY <1>1, <1>2
<1> QED BY <1>1, <1>2, <1>3, <1>4, <1>5 DEF Called

-----------------------------------------------------------------------------
(* Types and the form of the requests.                                      *)

\* Requests stay well formed as long as no log file goes.
LEMMA StayWellFormed ==
  ASSUME TypeInv, Len(files') \in Nat, Len(files') >= Len(files)
  PROVE  \A q \in Outstanding : WellFormed(q, Len(files'))
<1>1. Len(files) \in Nat /\ Foreign \in Int
  BY AtType DEF TypeInv
<1>2. \A q \in Outstanding : WellFormed(q, Len(files))
  BY DEF TypeInv, Requests
<1> QED BY <1>1, <1>2 DEF WellFormed

\* The write of a batch, a request to open and one to close are well formed.
LEMMA NewWellFormed ==
  ASSUME TypeInv, NEW lines \in Seq(Nat), NEW rotate \in BOOLEAN
  PROVE  /\ WriteRequest(lines, rotate) \in RequestType
         /\ WriteRequest(lines, rotate).op = "write"
         /\ WriteRequest(lines, rotate).fd = logfile
         /\ WriteRequest(lines, rotate).file = At(logfile)
         /\ WriteRequest(lines, rotate).lines = lines
         /\ WriteRequest(lines, rotate).cb = (IF rotate THEN "close_log" ELSE "on_log_write")
         /\ WellFormed(WriteRequest(lines, rotate), Len(files))
         /\ WellFormed(OpenRequest, Len(files))
         /\ \A file \in Foreign .. Len(files) : WellFormed(CloseRequest(file), Len(files))
<1> DEFINE cb == IF rotate THEN "close_log" ELSE "on_log_write"
           q  == WriteRequest(lines, rotate)
<1>1. cb \in {"on_log_open", "on_log_write", "close_log", "on_log_close"} /\ logfile \in Int
  BY DEF TypeInv, TypeOK
<1>2. q = [op |-> "write", fd |-> logfile, file |-> At(logfile), lines |-> lines, cb |-> cb, result |-> 0]
  BY DEF WriteRequest, Request
<1>3. At(logfile) \in Foreign .. Len(files) /\ At(logfile) \in Int
      /\ Free \in Foreign .. Len(files) /\ Len(files) \in Nat /\ Foreign \in Int
  <2>1. /\ Len(files) \in Nat /\ Foreign \in Int /\ Foreign < 0
        /\ At(logfile) \in Foreign .. Len(files)
    BY <1>1, AtType DEF TypeInv
  <2> QED BY <2>1 DEF Free
<1>4. WellFormed(q, Len(files))
  BY <1>2, <1>3 DEF WellFormed
<1>5. q \in RequestType
  BY <1>1, <1>2, <1>3 DEF RequestType
<1>6. WellFormed(OpenRequest, Len(files))
  <2>1. OpenRequest.op = "open" /\ OpenRequest.cb = "on_log_open"
        /\ OpenRequest.file = Free /\ OpenRequest.lines = <<>>
    BY OpenClose DEF TypeInv
  <2> QED BY <1>3, <2>1 DEF WellFormed
<1>7. ASSUME NEW file \in Foreign .. Len(files)
      PROVE  WellFormed(CloseRequest(file), Len(files))
  <2>1. file \in Int
    BY <1>3
  <2>2. CloseRequest(file).op = "close" /\ CloseRequest(file).cb = "on_log_close"
        /\ CloseRequest(file).file = file /\ CloseRequest(file).lines = <<>>
    BY <2>1, OpenClose DEF TypeInv
  <2> QED BY <1>3, <2>2 DEF WellFormed
<1> QED BY <1>2, <1>4, <1>5, <1>6, <1>7

\* All of this together.
LEMMA GoodRequests ==
  ASSUME TypeInv
  PROVE  /\ At(logfile) \in Foreign .. Len(files)
         /\ OpenRequest \in RequestType /\ WellFormed(OpenRequest, Len(files))
         /\ \A file \in Foreign .. Len(files) :
              CloseRequest(file) \in RequestType /\ WellFormed(CloseRequest(file), Len(files))
         /\ \A b \in Seq(Nat) : \A r \in BOOLEAN :
              WriteRequest(b, r) \in RequestType /\ WellFormed(WriteRequest(b, r), Len(files))
<1>1. /\ logfile \in Int /\ Len(files) \in Nat /\ Foreign \in Int
      /\ At(logfile) \in Foreign .. Len(files)
  <2>1. logfile \in Int
    BY DEF TypeInv, TypeOK
  <2> QED BY <2>1, AtType DEF TypeInv
<1>2. ASSUME NEW b \in Seq(Nat), NEW r \in BOOLEAN
      PROVE  WriteRequest(b, r) \in RequestType /\ WellFormed(WriteRequest(b, r), Len(files))
  BY NewWellFormed
<1>3. <<>> \in Seq(Nat) /\ TRUE \in BOOLEAN /\ 0 \in Int
  BY EmptySeq
<1>4. WellFormed(OpenRequest, Len(files))
      /\ \A file \in Foreign .. Len(files) : WellFormed(CloseRequest(file), Len(files))
  BY <1>3, NewWellFormed
<1>5. OpenRequest \in RequestType
  BY <1>3, OpenClose DEF TypeInv
<1>6. ASSUME NEW file \in Foreign .. Len(files)
      PROVE  CloseRequest(file) \in RequestType
  <2>1. file \in Int
    BY <1>1
  <2> QED BY <2>1, OpenClose DEF TypeInv
<1> QED BY <1>1, <1>2, <1>4, <1>5, <1>6

\* The log is not open any more: N was submitted, and the next file's open perhaps.
Reopens(N) ==
  \/ log_state' = "LOG_NOT_OPEN" /\ Added(N)
  \/ log_state' = "OPENING_LOG" /\ Added(N \cup {OpenRequest})

\* What a line logged does to the pool if it makes no batch.
LineKept ==
  /\ ~(log_state = "LOG_IS_OPEN" /\ Len(offer(logged + 1)) >= LinesToBuffer)
  /\ buffer' = offer(logged + 1)
  /\ UNCHANGED <<logfile, fds, files, finished, lost, strayed, raced>>
  /\ \/ log_state = "LOG_NOT_OPEN" /\ logSize' = 0 /\ Reopens({})
     \/ log_state # "LOG_NOT_OPEN" /\ Added({}) /\ pool' = pool /\ UNCHANGED <<logSize, log_state>>

\* What becomes of a batch b.
BatchWritten(b) ==
  /\ logSize + Len(b) < SizeLimit /\ logSize' = logSize + Len(b)
  /\ UNCHANGED <<log_state, lost, raced>>
  /\ Added({WriteRequest(b, FALSE)})
  /\ pool' = Append(pool, WriteRequest(b, FALSE))

BatchRotates(b) ==
  /\ logSize + Len(b) >= SizeLimit /\ logSize' = 0
  /\ UNCHANGED <<lost, raced>>
  /\ Reopens({WriteRequest(b, TRUE)})

BatchRefused(b) ==
  /\ logSize' = 0
  /\ lost' = lost \cup ToSet(b)
  /\ raced' = (raced \/ Writing)
  /\ Reopens({CloseRequest(At(logfile))})

BatchForgotten(b) ==
  /\ logSize' = logSize + Len(b)
  /\ lost' = lost \cup ToSet(b)
  /\ UNCHANGED <<pool, log_state, raced>>

\* A request and then open_log_file.
LEMMA ReopensOpen ==
  ASSUME TypeInv, NEW x \in RequestType, x.op # "open",
         open_log_file("LOG_NOT_OPEN", Append(pool, x))
  PROVE  Reopens({x})
<1>1. OpenRequest \in RequestType /\ OpenRequest.op = "open"
  BY OpenClose DEF TypeInv
<1>2. CASE log_state' = "LOG_NOT_OPEN" /\ pool' = Append(pool, x)
  BY <1>2, AddOne DEF TypeInv, Reopens
<1>3. CASE log_state' = "OPENING_LOG" /\ pool' = Append(Append(pool, x), OpenRequest)
  <2>1. Added({x, OpenRequest})
    BY <1>1, <1>3, AddTwo DEF TypeInv
  <2>2. {x, OpenRequest} = {x} \cup {OpenRequest}
    OBVIOUS
  <2>3. Added({x} \cup {OpenRequest})
    BY <2>1, <2>2
  <2> QED BY <1>3, <2>3 DEF Reopens
<1> QED BY <1>2, <1>3, OpenAdds

\* A line that makes no batch.
LEMMA LineCases ==
  ASSUME TypeInv, LogLine
  PROVE  LineKept
<1>1. CASE log_state = "LOG_NOT_OPEN"
  <2>1. logSize' = 0 /\ open_log_file(log_state, pool)
    BY <1>1 DEF LogLine
  <2>2. CASE log_state' = log_state /\ pool' = pool
    BY <1>1, <2>1, <2>2, AddNone DEF LogLine, LineKept, Reopens, TypeInv
  <2>3. CASE log_state' = "OPENING_LOG" /\ pool' = Append(pool, OpenRequest)
    <3>1. Added({OpenRequest})
      BY <2>3, AddOne, OpenClose DEF TypeInv
    <3>2. {} \cup {OpenRequest} = {OpenRequest}
      OBVIOUS
    <3>3. Reopens({})
      BY <2>3, <3>1, <3>2 DEF Reopens
    <3> QED BY <1>1, <2>1, <3>3 DEF LogLine, LineKept
  <2> QED BY <2>1, <2>2, <2>3, OpenAdds
<1>2. CASE log_state # "LOG_NOT_OPEN"
  BY <1>2, AddNone DEF LogLine, LineKept, TypeInv
<1> QED BY <1>1, <1>2

\* A line that makes a batch.
LEMMA BatchCases ==
  ASSUME TypeInv, LogBatch, NEW b, b = offer(logged + 1)
  PROVE  /\ log_state = "LOG_IS_OPEN" /\ Len(b) >= LinesToBuffer
         /\ buffer' = <<>>
         /\ UNCHANGED <<logfile, fds, files, finished, strayed>>
         /\ BatchWritten(b) \/ BatchRotates(b) \/ BatchRefused(b) \/ BatchForgotten(b)
<1>1. b \in Seq(Nat) /\ Len(b) \in Nat /\ logSize \in Nat /\ SizeLimit \in Nat
  BY OfferType, LenProperties, LogAssumption DEF TypeInv, TypeOK
<1>2. /\ WriteRequest(b, TRUE) \in RequestType /\ WriteRequest(b, TRUE).op = "write"
      /\ WriteRequest(b, FALSE) \in RequestType /\ WriteRequest(b, FALSE).op = "write"
  BY <1>1, NewWellFormed
<1>3. /\ log_state = "LOG_IS_OPEN" /\ Len(b) >= LinesToBuffer
      /\ buffer' = <<>>
      /\ UNCHANGED <<logfile, fds, files, finished, strayed>>
  BY DEF LogBatch, Batch
<1>4. CASE /\ ~(NextSize(b) >= SizeLimit)
           /\ logSize' = NextSize(b)
           /\ pool' = Append(pool, WriteRequest(b, FALSE))
           /\ UNCHANGED <<log_state, lost, raced>>
  <2>1. Added({WriteRequest(b, FALSE)})
    BY <1>2, <1>4, AddOne DEF TypeInv
  <2>2. logSize + Len(b) < SizeLimit
    BY <1>1, <1>4 DEF NextSize
  <2> QED BY <1>3, <1>4, <2>1, <2>2 DEF BatchWritten, NextSize
<1>5. CASE /\ NextSize(b) >= SizeLimit
           /\ logSize' = 0
           /\ open_log_file("LOG_NOT_OPEN", Append(pool, WriteRequest(b, TRUE)))
           /\ UNCHANGED <<lost, raced>>
  <2>1. Reopens({WriteRequest(b, TRUE)})
    BY <1>2, <1>5, ReopensOpen
  <2> QED BY <1>3, <1>5, <2>1 DEF BatchRotates, NextSize
<1>6. CASE /\ logSize' = 0
           /\ lost' = lost \cup ToSet(b)
           /\ open_log_file("LOG_NOT_OPEN",
                            Append(pool, Request("close", logfile, <<>>, "on_log_close")))
           /\ raced' = (raced \/ \E q \in Outstanding : q.op = "write")
  <2>1. Request("close", logfile, <<>>, "on_log_close") = CloseRequest(At(logfile))
    BY DEF CloseRequest, Request
  <2>2. At(logfile) \in Int
    BY AtType DEF TypeInv, TypeOK
  <2>3. CloseRequest(At(logfile)) \in RequestType /\ CloseRequest(At(logfile)).op # "open"
    BY <2>2, OpenClose DEF TypeInv
  <2>4. Reopens({CloseRequest(At(logfile))})
    BY <1>6, <2>1, <2>3, ReopensOpen
  <2> QED BY <1>3, <1>6, <2>4 DEF BatchRefused, Writing
<1>7. CASE /\ logSize' = NextSize(b)
           /\ lost' = lost \cup ToSet(b)
           /\ UNCHANGED <<pool, log_state, raced>>
  BY <1>3, <1>7 DEF BatchForgotten, NextSize
<1> QED BY <1>4, <1>5, <1>6, <1>7 DEF LogBatch

\* A step of the event loop's thread that submits requests keeps the types.
LEMMA TypeSubmit ==
  ASSUME TypeInv, NEW N, Added(N), \A q \in N : q \in RequestType /\ WellFormed(q, Len(files)),
         UNCHANGED <<logfile, fds, files, finished>>,
         log_state' \in {"LOG_NOT_OPEN", "OPENING_LOG", log_state}
  PROVE  /\ Requests'
         /\ pool' \in Seq(RequestType) /\ finished' \in Seq(RequestType)
         /\ log_state' \in {"LOG_NOT_OPEN", "OPENING_LOG", "LOG_IS_OPEN"}
<1>1. \A q \in Outstanding' : WellFormed(q, Len(files)')
  BY DEF TypeInv, Requests, Outstanding, Added
<1>2. /\ \A q \in ToSet(finished)' : q.op = "open" => q.result \in (1 .. MaxFd) \cup {-1}
      /\ (log_state = "LOG_IS_OPEN")' => logfile' \in (1 .. MaxFd) \cup {-1}
  BY DEF TypeInv, Requests
<1> QED BY <1>1, <1>2 DEF Requests, TypeInv, TypeOK, Added

\* LogLine keeps the types.
LEMMA TypeLine ==
  ASSUME TypeInv, LogLine
  PROVE  TypeInv'
<1>1. LineKept
  BY LineCases
<1>2. PICK N \in {{}, {OpenRequest}} : Added(N)
  <2>1. {} \cup {OpenRequest} = {OpenRequest}
    OBVIOUS
  <2> QED BY <1>1, <2>1 DEF LineKept, Reopens
<1>3. \A q \in N : q \in RequestType /\ WellFormed(q, Len(files))
  BY <1>2, GoodRequests
<1>4. /\ UNCHANGED <<logfile, fds, files, finished, lost, strayed, raced>>
      /\ log_state' \in {"LOG_NOT_OPEN", "OPENING_LOG", log_state}
      /\ logSize' \in Nat /\ buffer' = offer(logged + 1)
  BY <1>1 DEF LineKept, Reopens, TypeInv, TypeOK
<1>5. /\ Requests' /\ pool' \in Seq(RequestType) /\ finished' \in Seq(RequestType)
      /\ log_state' \in {"LOG_NOT_OPEN", "OPENING_LOG", "LOG_IS_OPEN"}
  BY <1>2, <1>3, <1>4, TypeSubmit
<1>6. buffer' \in Seq(Nat) /\ Len(buffer') <= Capacity
  BY <1>4, OfferType, LogAssumption DEF TypeInv
<1>7. logged' \in Nat /\ noOfLogLinesDropped' \in Nat
  BY DEF LogLine, TypeInv, TypeOK
<1> QED BY <1>4, <1>5, <1>6, <1>7 DEF TypeInv, TypeOK

\* LogBatch keeps the types.
LEMMA TypeBatch ==
  ASSUME TypeInv, LogBatch
  PROVE  TypeInv'
<1>1. PICK b : b = offer(logged + 1)
  OBVIOUS
<1>2. /\ buffer' = <<>>
      /\ UNCHANGED <<logfile, fds, files, finished, strayed>>
      /\ BatchWritten(b) \/ BatchRotates(b) \/ BatchRefused(b) \/ BatchForgotten(b)
  BY <1>1, BatchCases
<1>3. b \in Seq(Nat) /\ Len(b) \in Nat /\ ToSet(b) \subseteq Nat
  BY <1>1, OfferType, LenProperties, ToSetProperties DEF TypeInv
<1>4. PICK N : /\ Added(N)
               /\ N \subseteq {WriteRequest(b, TRUE), WriteRequest(b, FALSE),
                               CloseRequest(At(logfile)), OpenRequest}
  <2>1. CASE BatchWritten(b)
    BY <2>1 DEF BatchWritten
  <2>2. CASE BatchRotates(b)
    BY <2>2 DEF BatchRotates, Reopens
  <2>3. CASE BatchRefused(b)
    BY <2>3 DEF BatchRefused, Reopens
  <2>4. CASE BatchForgotten(b)
    <3>1. PICK M : M = {}
      OBVIOUS
    <3>2. Added(M)
      BY <2>4, <3>1, AddNone DEF BatchForgotten, TypeInv
    <3> QED BY <3>1, <3>2
  <2> QED BY <1>2, <2>1, <2>2, <2>3, <2>4
<1>5. \A q \in N : q \in RequestType /\ WellFormed(q, Len(files))
  BY <1>3, <1>4, GoodRequests
<1>6. /\ log_state' \in {"LOG_NOT_OPEN", "OPENING_LOG", log_state}
      /\ logSize' \in Nat /\ lost' \in SUBSET Nat /\ raced' \in BOOLEAN
  <2>0. logSize \in Nat /\ lost \subseteq Nat /\ raced \in BOOLEAN
    BY DEF TypeInv, TypeOK
  <2>1. CASE BatchWritten(b)
    BY <1>3, <2>0, <2>1 DEF BatchWritten
  <2>2. CASE BatchRotates(b)
    BY <1>3, <2>0, <2>2 DEF BatchRotates, Reopens
  <2>3. CASE BatchRefused(b)
    <3>1. raced' \in BOOLEAN
      BY <2>3, Zenon DEF BatchRefused
    <3> QED BY <1>3, <2>0, <2>3, <3>1 DEF BatchRefused, Reopens
  <2>4. CASE BatchForgotten(b)
    <3>0. raced' = raced /\ log_state' = log_state
      BY <2>4 DEF BatchForgotten
    <3>1. raced' \in BOOLEAN
      BY <2>0, <3>0
    <3>2. logSize' = logSize + Len(b) /\ lost' = lost \cup ToSet(b)
      BY <2>4 DEF BatchForgotten
    <3>3. logSize' \in Nat
      BY <1>3, <2>0, <3>2
    <3>4. lost' \subseteq Nat
      BY <1>3, <2>0, <3>2
    <3> QED BY <3>0, <3>1, <3>3, <3>4
  <2> QED BY <1>2, <2>1, <2>2, <2>3, <2>4
<1>7. /\ Requests' /\ pool' \in Seq(RequestType) /\ finished' \in Seq(RequestType)
      /\ log_state' \in {"LOG_NOT_OPEN", "OPENING_LOG", "LOG_IS_OPEN"}
  BY <1>2, <1>4, <1>5, <1>6, TypeSubmit
<1>8. buffer' \in Seq(Nat) /\ Len(buffer') <= Capacity
  BY <1>2, EmptySeq, LogAssumption
<1>9. logged' \in Nat /\ noOfLogLinesDropped' \in Nat
  BY DEF LogBatch, TypeInv, TypeOK
<1> QED BY <1>2, <1>6, <1>7, <1>8, <1>9 DEF TypeInv, TypeOK

\* Where the lines of a write went: the first ones to the file, the others nowhere.
Landed(lines, f, done, gone) ==
  /\ done \in Seq(Nat) /\ gone \in Seq(Nat)
  /\ Len(lines) = Len(done) + Len(gone)
  /\ \A j \in 1 .. Len(done) : done[j] = lines[j]
  /\ \A j \in 1 .. Len(gone) : gone[j] = lines[Len(done) + j]
  /\ lost' = lost \cup ToSet(gone)
  /\ \/ done = <<>> /\ files' = files
     \/ /\ f \in 1 .. Len(files)
        /\ files' = [files EXCEPT ![f] = files[f] \o done]

\* RunWrite brings the first lines of a write to the file behind its descriptor.
LEMMA WriteLands ==
  ASSUME TypeInv, NEW i, RunWrite(i)
  PROVE  /\ i \in 1 .. Len(pool) /\ pool[i] \in RequestType /\ pool[i].op = "write"
         /\ \E n \in Int : Moved(i, n) /\ Finish(i, n)
         /\ \E done, gone : Landed(pool[i].lines, At(pool[i].fd), done, gone)
         /\ strayed' = (strayed \/ At(pool[i].fd) # pool[i].file)
         /\ UNCHANGED <<luaVars, log_state, logfile, raced, fds>>
<1>1. i \in DOMAIN pool /\ pool[i].op = "write"
  BY DEF RunWrite, Running
<1>2. i \in 1 .. Len(pool) /\ pool[i] \in RequestType
  BY <1>1, LenProperties, ElementOfSeq DEF TypeInv, TypeOK
<1>3. PICK lines \in Seq(Nat) : lines = pool[i].lines
  BY <1>2 DEF RequestType
<1>4. PICK f \in Foreign .. Len(files) : f = At(pool[i].fd)
  <2>1. pool[i].fd \in Int
    BY <1>2 DEF RequestType
  <2> QED BY <2>1, AtType DEF TypeInv
<1>5. /\ Len(lines) \in Nat /\ Len(files) \in Nat /\ Foreign \in Int
      /\ \A j \in 1 .. Len(lines) : lines[j] \in Nat
  BY LenProperties, ElementOfSeq, AtType DEF TypeInv, TypeOK
<1>6. PICK n \in {-1, Len(lines) - 1, Len(lines)} :
        /\ f = Free => n = -1
        /\ Finish(i, n)
        /\ files' = IF f > 0 /\ n > 0
                    THEN [files EXCEPT ![f] = @ \o SubSeq(lines, 1, n)] ELSE files
        /\ lost' = lost \cup IF f > 0 /\ n >= 0
                              THEN ToSet(SubSeq(lines, n + 1, Len(lines)))
                              ELSE ToSet(lines)
  BY <1>3, <1>4 DEF RunWrite
<1>7. n \in Int /\ Moved(i, n)
  <2>1. n \in Int
    BY <1>5
  <2> QED BY <1>2, <1>6, <2>1, FinishMoves DEF TypeInv
<1>8. \E done, gone : Landed(lines, f, done, gone)
  <2>1. CASE f > 0 /\ n > 0
    <3> DEFINE done == SubSeq(lines, 1, n)
               gone == SubSeq(lines, n + 1, Len(lines))
    <3>1. done \in Seq(Nat) /\ Len(done) = n /\ \A j \in 1 .. n : done[j] = lines[j]
      BY <1>5, <1>6, <2>1, SubSeqProperties
    <3>2. /\ gone \in Seq(Nat) /\ Len(gone) = Len(lines) - n
          /\ \A j \in 1 .. Len(lines) - n : gone[j] = lines[n + j]
      BY <1>5, <1>6, <2>1, SubSeqProperties
    <3>3. lost' = lost \cup ToSet(gone)
      BY <1>5, <1>6, <2>1
    <3>4. f \in 1 .. Len(files) /\ files' = [files EXCEPT ![f] = files[f] \o done]
      BY <1>5, <1>6, <2>1
    <3> HIDE DEF done, gone
    <3>5. Landed(lines, f, done, gone)
      BY <1>5, <1>7, <3>1, <3>2, <3>3, <3>4 DEF Landed
    <3> QED BY <3>5
  <2>2. CASE ~(f > 0 /\ n > 0)
    <3>1. files' = files
      BY <1>6, <2>2
    <3>2. lost' = lost \cup ToSet(lines)
      <4>1. CASE f > 0 /\ n >= 0
        <5>1. n = 0
          BY <1>7, <2>2, <4>1
        <5>2. SubSeq(lines, n + 1, Len(lines)) = lines
          BY <5>1, SubSeqFull
        <5> QED BY <1>6, <4>1, <5>2
      <4>2. CASE ~(f > 0 /\ n >= 0)
        BY <1>6, <4>2
      <4> QED BY <4>1, <4>2
    <3>3. Landed(lines, f, <<>>, lines)
      BY <1>5, <3>1, <3>2, EmptySeq DEF Landed
    <3> QED BY <3>3
  <2> QED BY <2>1, <2>2
<1>9. UNCHANGED <<luaVars, log_state, logfile, raced>>
  BY <1>6 DEF Finish
<1> QED BY <1>1, <1>2, <1>3, <1>4, <1>6, <1>7, <1>8, <1>9 DEF RunWrite

\* A file that got more lines is still a sequence, and the other files are as they were.
LEMMA LandedFiles ==
  ASSUME TypeOK, NEW lines, NEW f, NEW done, NEW gone, Landed(lines, f, done, gone)
  PROVE  /\ files' \in Seq(Seq(Nat)) /\ Len(files') = Len(files)
         /\ DOMAIN files' = DOMAIN files
         /\ \A g \in DOMAIN files : g # f => files'[g] = files[g]
         /\ \A g \in DOMAIN files : g = f => files'[g] = files[f] \o done
         /\ f \notin DOMAIN files => done = <<>>
<1>1. files \in Seq(Seq(Nat)) /\ DOMAIN files = 1 .. Len(files) /\ done \in Seq(Nat)
  BY LenProperties DEF TypeOK, Landed
<1>2. CASE done = <<>> /\ files' = files
  <2>1. \A g \in DOMAIN files : files[g] \o <<>> = files[g]
    BY <1>1, ElementOfSeq, ConcatEmptySeq
  <2> QED BY <1>1, <1>2, <2>1
<1>3. CASE f \in 1 .. Len(files) /\ files' = [files EXCEPT ![f] = files[f] \o done]
  <2>1. files[f] \o done \in Seq(Nat)
    BY <1>1, <1>3, ElementOfSeq, ConcatProperties
  <2>2. files' \in Seq(Seq(Nat)) /\ Len(files') = Len(files)
    BY <1>1, <1>3, <2>1, ExceptSeq
  <2>3. DOMAIN files' = 1 .. Len(files)
    BY <2>2, LenProperties
  <2>4. \A g \in 1 .. Len(files) : files'[g] = IF g = f THEN files[f] \o done ELSE files[g]
    BY <1>1, <1>3
  <2> QED BY <1>1, <1>3, <2>2, <2>3, <2>4
<1> QED BY <1>2, <1>3 DEF Landed

\* A new log file is empty and the last one.
LEMMA FileMade ==
  ASSUME TypeOK, files' = Append(files, <<>>)
  PROVE  /\ files' \in Seq(Seq(Nat)) /\ Len(files') = Len(files) + 1 /\ Len(files) \in Nat
         /\ DOMAIN files = 1 .. Len(files) /\ DOMAIN files' = 1 .. Len(files) + 1
         /\ \A f \in DOMAIN files : files'[f] = files[f]
         /\ files'[Len(files) + 1] = <<>>
<1>1. <<>> \in Seq(Nat) /\ files \in Seq(Seq(Nat))
  BY EmptySeq DEF TypeOK
<1> QED BY <1>1, AppendProperties, LenProperties

\* A finished request is well formed if it was before.
LEMMA TypeMoved ==
  ASSUME TypeInv, NEW i \in 1 .. Len(pool), NEW r \in Int, Finish(i, r),
         pool[i].op = "open" => r \in (1 .. MaxFd) \cup {-1},
         Len(files') \in Nat, Len(files') >= Len(files)
  PROVE  Requests' /\ pool' \in Seq(RequestType) /\ finished' \in Seq(RequestType)
<1>1. /\ Moved(i, r) /\ pool[i] \in RequestType
      /\ [pool[i] EXCEPT !.result = r] \in RequestType
  BY FinishMoves DEF TypeInv
<1> DEFINE q == [pool[i] EXCEPT !.result = r]
<1>2. /\ q.op = pool[i].op /\ q.cb = pool[i].cb /\ q.lines = pool[i].lines
      /\ q.file = pool[i].file /\ q.result = r
  BY <1>1 DEF RequestType
<1>3. pool[i] \in Outstanding /\ Outstanding' \subseteq Outstanding \cup {q}
  <2>1. ToSet(pool) = ToSet(pool') \cup {pool[i]} /\ ToSet(finished') = ToSet(finished) \cup {q}
    BY <1>1, <1>2 DEF Moved
  <2> HIDE DEF q
  <2> QED BY <2>1 DEF Outstanding
<1>4. \A p \in Outstanding : WellFormed(p, Len(files'))
  BY StayWellFormed
<1> HIDE DEF q
<1>5. WellFormed(q, Len(files'))
  BY <1>2, <1>3, <1>4 DEF WellFormed
<1>6. \A p \in ToSet(finished') : p.op = "open" => p.result \in (1 .. MaxFd) \cup {-1}
  <2>1. \A p \in ToSet(finished) : p.op = "open" => p.result \in (1 .. MaxFd) \cup {-1}
    BY DEF TypeInv, Requests
  <2>2. ToSet(finished') = ToSet(finished) \cup {q}
    BY <1>1 DEF Moved, q
  <2> QED BY <1>2, <2>1, <2>2
<1>7. log_state' = "LOG_IS_OPEN" => logfile' \in (1 .. MaxFd) \cup {-1}
  BY DEF TypeInv, Requests, Finish
<1> QED BY <1>1, <1>3, <1>4, <1>5, <1>6, <1>7 DEF Requests, Moved

\* An open that finishes keeps the types.
LEMMA TypeRunOpen ==
  ASSUME TypeInv, NEW i, RunOpen(i)
  PROVE  TypeInv'
<1>1. /\ i \in DOMAIN pool /\ pool[i].op = "open"
      /\ UNCHANGED <<luaVars, log_state, logfile, raced, lost, strayed>>
  BY DEF RunOpen, Running, Finish
<1>2. i \in 1 .. Len(pool) /\ Len(files) \in Nat /\ MaxFd \in Nat
  BY <1>1, LenProperties, LogAssumption DEF TypeInv, TypeOK
<1>3. CASE Finish(i, -1) /\ UNCHANGED <<fds, files>>
  <2>1. Requests' /\ pool' \in Seq(RequestType) /\ finished' \in Seq(RequestType)
    BY <1>2, <1>3, TypeMoved
  <2> QED BY <1>1, <1>3, <2>1 DEF TypeInv, TypeOK, luaVars
<1>4. CASE \E fd \in 1 .. MaxFd :
             /\ fds' = [fds EXCEPT ![fd] = Len(files) + 1]
             /\ files' = Append(files, <<>>)
             /\ Finish(i, fd)
  <2>1. PICK fd \in 1 .. MaxFd : /\ fds' = [fds EXCEPT ![fd] = Len(files) + 1]
                                 /\ files' = Append(files, <<>>)
                                 /\ Finish(i, fd)
    BY <1>4
  <2>2. files' \in Seq(Seq(Nat)) /\ Len(files') = Len(files) + 1
    BY <2>1, FileMade DEF TypeInv
  <2>3. Requests' /\ pool' \in Seq(RequestType) /\ finished' \in Seq(RequestType)
    BY <1>2, <2>1, <2>2, TypeMoved
  <2>4. fds' \in [1 .. MaxFd -> Foreign .. Len(files')]
    <3>1. fds \in [1 .. MaxFd -> Foreign .. Len(files)] /\ Len(files) \in Nat
      BY <1>2, LenProperties DEF TypeInv, TypeOK
    <3>2. PICK n \in Nat : n = Len(files)
      BY <3>1
    <3>3. \A x \in Foreign .. n : x \in Foreign .. (n + 1)
      BY DEF Foreign
    <3>4. n + 1 \in Foreign .. (n + 1)
      BY DEF Foreign
    <3>5. [fds EXCEPT ![fd] = n + 1] \in [1 .. MaxFd -> Foreign .. (n + 1)]
      BY ONLY <3>1, <3>2, <3>3, <3>4, fd \in 1 .. MaxFd
    <3> QED BY <2>1, <2>2, <3>2, <3>5
  <2> QED BY <1>1, <2>2, <2>3, <2>4 DEF TypeInv, TypeOK, luaVars
<1> QED BY <1>3, <1>4 DEF RunOpen

\* A write that finishes keeps the types.
LEMMA TypeRunWrite ==
  ASSUME TypeInv, NEW i, RunWrite(i)
  PROVE  TypeInv'
<1>1. /\ i \in 1 .. Len(pool) /\ pool[i] \in RequestType /\ pool[i].op = "write"
      /\ UNCHANGED <<luaVars, log_state, logfile, raced, fds>>
      /\ strayed' = (strayed \/ At(pool[i].fd) # pool[i].file)
  BY WriteLands
<1>2. PICK n \in Int : Finish(i, n)
  BY WriteLands
<1>3. PICK done, gone : Landed(pool[i].lines, At(pool[i].fd), done, gone)
  BY WriteLands
<1>4. /\ files' \in Seq(Seq(Nat)) /\ Len(files') = Len(files)
      /\ Len(files) \in Nat
  BY <1>3, LandedFiles, AtType DEF TypeInv
<1>5. Requests' /\ pool' \in Seq(RequestType) /\ finished' \in Seq(RequestType)
  BY <1>1, <1>2, <1>4, TypeMoved
<1>6. lost' \subseteq Nat
  <2>1. lost' = lost \cup ToSet(gone) /\ gone \in Seq(Nat)
    BY <1>3 DEF Landed
  <2>2. ToSet(gone) \subseteq Nat
    BY <2>1, ToSetProperties
  <2> QED BY <2>1, <2>2 DEF TypeInv, TypeOK
<1>7. strayed' \in BOOLEAN
  BY <1>1
<1>8. /\ fds' = fds /\ Len(files') = Len(files) /\ raced' = raced /\ logfile' = logfile
      /\ log_state' = log_state /\ buffer' = buffer /\ logged' = logged
      /\ noOfLogLinesDropped' = noOfLogLinesDropped /\ logSize' = logSize
  BY <1>1, <1>4 DEF luaVars
<1>9. TypeOK
  BY DEF TypeInv
<1>10. TypeOK'
  BY <1>4, <1>5, <1>6, <1>7, <1>8, <1>9 DEF TypeOK
<1> QED BY <1>5, <1>10 DEF TypeInv

\* A close that finishes keeps the types.
LEMMA TypeRunClose ==
  ASSUME TypeInv, NEW i, RunClose(i)
  PROVE  TypeInv'
<1>1. /\ i \in DOMAIN pool /\ pool[i].op = "close"
      /\ UNCHANGED <<luaVars, log_state, logfile, raced, files, lost>>
      /\ Finish(i, IF At(pool[i].fd) = Free THEN -1 ELSE 0)
      /\ strayed' = (strayed \/ At(pool[i].fd) # pool[i].file)
  BY DEF RunClose, Running, Finish
<1>2. i \in 1 .. Len(pool) /\ Len(files) \in Nat
  BY <1>1, LenProperties DEF TypeInv, TypeOK
<1>3. Requests' /\ pool' \in Seq(RequestType) /\ finished' \in Seq(RequestType)
  <2>1. PICK r \in Int : r = (IF At(pool[i].fd) = Free THEN -1 ELSE 0)
    OBVIOUS
  <2> QED BY <1>1, <1>2, <2>1, TypeMoved
<1>4. fds' \in [1 .. MaxFd -> Foreign .. Len(files)]
  BY <1>2 DEF RunClose, TypeInv, TypeOK, Foreign, Free
<1>5. strayed' \in BOOLEAN
  BY <1>1
<1> QED BY <1>1, <1>3, <1>4, <1>5 DEF TypeInv, TypeOK, luaVars

\* A callback that submits at most one request, which closes a file.
LEMMA TypeCalled ==
  ASSUME TypeInv, NEW q, Called(q), UNCHANGED <<files, fds>>,
         NEW N, Added(N),
         \A p \in N : p \in RequestType /\ WellFormed(p, Len(files)),
         log_state' = "LOG_IS_OPEN" => logfile' \in (1 .. MaxFd) \cup {-1}
  PROVE  Requests' /\ pool' \in Seq(RequestType) /\ finished' \in Seq(RequestType)
<1>1. /\ ToSet(finished) = ToSet(finished') \cup {q} /\ finished' \in Seq(RequestType)
      /\ ToSet(pool') = ToSet(pool) \cup N /\ pool' \in Seq(RequestType)
  BY DEF Called, Added
<1>2. Outstanding' \subseteq Outstanding \cup N
  BY <1>1 DEF Outstanding
<1>3. \A p \in Outstanding' : WellFormed(p, Len(files'))
  BY <1>2 DEF TypeInv, Requests
<1>4. \A p \in ToSet(finished') : p.op = "open" => p.result \in (1 .. MaxFd) \cup {-1}
  BY <1>1 DEF TypeInv, Requests
<1> QED BY <1>1, <1>3, <1>4 DEF Requests

\* close_log submits the request that closes the current descriptor.
LEMMA CloseAdds ==
  ASSUME TypeInv, NEW q \in RequestType, q.file \in Foreign .. Len(files), close_log(q)
  PROVE  /\ Added({CloseRequest(q.file)})
         /\ CloseRequest(q.file) \in RequestType
         /\ WellFormed(CloseRequest(q.file), Len(files))
         /\ pool' = Append(pool, CloseRequest(q.file))
<1>1. CloseRequest(q.file) \in RequestType /\ WellFormed(CloseRequest(q.file), Len(files))
  BY GoodRequests
<1>2. pool' = Append(pool, CloseRequest(q.file))
  BY DEF close_log, CloseRequest
<1> QED BY <1>1, <1>2, AddOne DEF TypeInv

\* The request called back is well formed.
LEMMA CalledWellFormed ==
  ASSUME TypeInv, NEW q, Called(q)
  PROVE  /\ q \in RequestType /\ WellFormed(q, Len(files)) /\ q.file \in Foreign .. Len(files)
         /\ q \in Outstanding
         /\ q.op = "open" => q.result \in (1 .. MaxFd) \cup {-1}
<1>1. q \in RequestType /\ q \in ToSet(finished)
  BY DEF Called
<1>2. q \in Outstanding
  BY <1>1 DEF Outstanding
<1> QED BY <1>1, <1>2 DEF TypeInv, Requests, WellFormed

\* The callbacks keep the types.
LEMMA TypeCallback ==
  ASSUME TypeInv, Callback
  PROVE  TypeInv'
<1>1. PICK q : q = Head(finished)
  OBVIOUS
<1>2. /\ finished # <<>> /\ finished' = Tail(finished)
      /\ UNCHANGED <<luaVars, fds, files, lost, strayed>>
  BY DEF Callback, on_log_open, CloseAfterWrite, on_log_write, on_log_close
<1>3. Called(q)
  BY <1>1, <1>2, CallbackCalls DEF TypeInv
<1>4. /\ q \in RequestType /\ WellFormed(q, Len(files)) /\ q.file \in Foreign .. Len(files)
      /\ q.op = "open" => q.result \in (1 .. MaxFd) \cup {-1}
  BY <1>3, CalledWellFormed
<1>5. raced' \in BOOLEAN
  BY DEF Callback, on_log_open, CloseAfterWrite, on_log_write, on_log_close, close_log,
         TypeInv, TypeOK
<1>6. /\ log_state' \in {"LOG_NOT_OPEN", "OPENING_LOG", "LOG_IS_OPEN"}
      /\ logfile' \in Int
      /\ log_state' = "LOG_IS_OPEN" => logfile' \in (1 .. MaxFd) \cup {-1}
  <2>1. CASE on_log_open
    <3>1. q.op = "open" /\ logfile' = q.result /\ log_state' = "LOG_IS_OPEN"
      BY <1>1, <1>4, <2>1 DEF on_log_open, WellFormed
    <3> QED BY <1>4, <3>1 DEF RequestType
  <2>2. CASE CloseAfterWrite \/ on_log_write \/ on_log_close
    BY <2>2 DEF CloseAfterWrite, on_log_write, on_log_close, TypeInv, TypeOK, Requests
  <2> QED BY <2>1, <2>2 DEF Callback
<1>7. pool' = pool \/ close_log(q)
  BY <1>1 DEF Callback, on_log_open, CloseAfterWrite, on_log_write, on_log_close
<1>8. PICK N : Added(N) /\ \A p \in N : p \in RequestType /\ WellFormed(p, Len(files))
  <2>1. CASE pool' = pool
    <3>1. PICK M : M = {}
      OBVIOUS
    <3>2. Added(M)
      BY <2>1, <3>1, AddNone DEF TypeInv
    <3> QED BY <3>1, <3>2
  <2>2. CASE close_log(q)
    <3>1. PICK c : c = CloseRequest(q.file)
      OBVIOUS
    <3>2. Added({c}) /\ c \in RequestType /\ WellFormed(c, Len(files))
      BY <1>4, <2>2, <3>1, CloseAdds
    <3> QED BY <3>2
  <2> QED BY <1>7, <2>1, <2>2
<1>9. Requests' /\ pool' \in Seq(RequestType) /\ finished' \in Seq(RequestType)
  BY <1>2, <1>3, <1>6, <1>8, TypeCalled
<1> QED BY <1>2, <1>5, <1>6, <1>9 DEF TypeInv, TypeOK, luaVars

\* The rest of the process keeps the types.
LEMMA TypeOthers ==
  ASSUME TypeInv, OtherOpens \/ OtherCloses
  PROVE  TypeInv'
<1>1. /\ UNCHANGED <<luaVars, log_state, logfile, files, pool, finished, lost, strayed, raced>>
      /\ \E fd \in 1 .. MaxFd, w \in {Free, Foreign} : fds' = [fds EXCEPT ![fd] = w]
  BY DEF OtherOpens, OtherCloses
<1>2. Len(files) \in Nat /\ {Free, Foreign} \subseteq Foreign .. Len(files)
  BY AtType DEF TypeInv, Free
<1>3. fds' \in [1 .. MaxFd -> Foreign .. Len(files)]
  BY <1>1, <1>2 DEF TypeInv, TypeOK
<1>4. Requests'
  BY <1>1 DEF TypeInv, Requests, Outstanding
<1> QED BY <1>1, <1>3, <1>4 DEF TypeInv, TypeOK, luaVars

\* Every step keeps the types.
LEMMA TypeStep == TypeInv /\ [Next]_vars => TypeInv'
<1> SUFFICES ASSUME TypeInv, [Next]_vars
             PROVE  TypeInv'
  OBVIOUS
<1>1. CASE LogLine
  BY <1>1, TypeLine
<1>2. CASE LogBatch
  BY <1>2, TypeBatch
<1>3. CASE Pool
  BY <1>3, TypeRunOpen, TypeRunWrite, TypeRunClose DEF Pool
<1>4. CASE Callback
  BY <1>4, TypeCallback
<1>5. CASE OtherOpens \/ OtherCloses
  BY <1>5, TypeOthers
<1>6. CASE UNCHANGED vars
  BY <1>6 DEF vars, TypeInv, TypeOK, Requests, Outstanding
<1> QED BY <1>1, <1>2, <1>3, <1>4, <1>5, <1>6 DEF Next

\* The types hold initially.
LEMMA TypeInit == Init => TypeInv
<1> SUFFICES ASSUME Init
             PROVE  TypeInv
  OBVIOUS
<1>1. /\ <<>> \in Seq(Nat) /\ <<>> \in Seq(RequestType) /\ <<>> \in Seq(Seq(Nat))
      /\ Len(<<>>) = 0
  BY EmptySeq
<1>2. TypeOK
  <2>1. fds \in [1 .. MaxFd -> Foreign .. Len(files)]
    BY <1>1 DEF Init, Free, Foreign
  <2>2. Len(buffer) <= Capacity
    BY <1>1, LogAssumption DEF Init
  <2>3. /\ buffer \in Seq(Nat) /\ files \in Seq(Seq(Nat))
        /\ pool \in Seq(RequestType) /\ finished \in Seq(RequestType)
    BY <1>1 DEF Init
  <2>4. /\ {logged, noOfLogLinesDropped, logSize} \subseteq Nat /\ logfile \in Int
        /\ log_state \in {"LOG_NOT_OPEN", "OPENING_LOG", "LOG_IS_OPEN"}
        /\ lost \subseteq Nat
    BY DEF Init
  <2>5. strayed \in BOOLEAN /\ raced \in BOOLEAN
    BY DEF Init
  <2> QED BY <2>1, <2>2, <2>3, <2>4, <2>5 DEF TypeOK
<1>3. ToSet(<<>>) = {}
  BY DEF ToSet
<1> QED BY <1>2, <1>3 DEF Init, TypeInv, Requests, Outstanding

\* Every variable keeps its type: a descriptor of a log file is always the descriptor of
\* one that was made, for every number of threads, descriptors and lines.
THEOREM LogTypes == Spec => []TypeOK
<1>1. TypeInv => TypeOK
  BY DEF TypeInv
<1> QED BY <1>1, TypeInit, TypeStep, PTL DEF Spec

-----------------------------------------------------------------------------
(* Where the lines are.                                                     *)

\* An element is at a place.
LEMMA ElemsDef ==
  ASSUME NEW ss, NEW x
  PROVE  x \in Elems(ss) <=> \E i \in DOMAIN ss : \E j \in DOMAIN ss[i] : x = ss[i][j]
BY DEF Elems, Range

\* The lines of each request.
LEMMA LinesInDef ==
  ASSUME NEW p
  PROVE  DOMAIN LinesIn(p) = DOMAIN p /\ \A i \in DOMAIN p : LinesIn(p)[i] = p[i].lines
BY DEF LinesIn

\* The empty sequence has no places.
LEMMA EmptyDomain == DOMAIN <<>> = {}
OBVIOUS

\* Requests without lines change nothing.
LEMMA PendingSame ==
  ASSUME Disjoint(Pending), NEW N, Added(N), \A q \in N : q.lines = <<>>
  PROVE  Disjoint(Pending') /\ Elems(Pending') = Elems(Pending)
<1> DEFINE P == LinesIn(pool)
           Q == LinesIn(pool')
<1>1. /\ DOMAIN P = DOMAIN pool /\ \A i \in DOMAIN pool : P[i] = pool[i].lines
      /\ DOMAIN Q = DOMAIN pool' /\ \A i \in DOMAIN pool' : Q[i] = pool'[i].lines
  BY LinesInDef
<1>2. \A i \in DOMAIN P : i \in DOMAIN Q /\ Q[i] = P[i]
  BY <1>1 DEF Added
<1>3. \A i \in DOMAIN Q \ DOMAIN P : DOMAIN Q[i] = {}
  BY <1>1, EmptyDomain DEF Added
<1> HIDE DEF P, Q
<1>4. \A i \in DOMAIN Q : \A j \in DOMAIN Q[i] : i \in DOMAIN P /\ j \in DOMAIN P[i] /\ Q[i][j] = P[i][j]
  BY <1>2, <1>3
<1>5. Disjoint(P) => Disjoint(Q)
  BY <1>4 DEF Disjoint
<1>6. \A x : x \in Elems(Q) <=> x \in Elems(P)
  BY <1>2, <1>4, ElemsDef
<1> QED BY <1>5, <1>6 DEF Pending, P, Q

\* A write brings its lines.
LEMMA PendingBatch ==
  ASSUME Disjoint(Pending), NEW N, Added(N), NEW w \in N, \A q \in N : q # w => q.lines = <<>>,
         \A j, k \in DOMAIN w.lines : w.lines[j] = w.lines[k] => j = k,
         Range(w.lines) \cap Elems(Pending) = {}
  PROVE  Disjoint(Pending') /\ Elems(Pending') = Elems(Pending) \cup Range(w.lines)
<1> DEFINE P == LinesIn(pool)
           Q == LinesIn(pool')
<1>1. /\ DOMAIN P = DOMAIN pool /\ \A i \in DOMAIN pool : P[i] = pool[i].lines
      /\ DOMAIN Q = DOMAIN pool' /\ \A i \in DOMAIN pool' : Q[i] = pool'[i].lines
  BY LinesInDef
<1>2. \A i \in DOMAIN P : i \in DOMAIN Q /\ Q[i] = P[i]
  BY <1>1 DEF Added
<1>3. PICK b : b = w.lines
  OBVIOUS
<1>4. \A i \in DOMAIN Q \ DOMAIN P : Q[i] = b \/ DOMAIN Q[i] = {}
  BY <1>1, <1>3, EmptyDomain DEF Added
<1>5. \A i, k \in DOMAIN Q \ DOMAIN P : \A j \in DOMAIN Q[i], l \in DOMAIN Q[k] : i = k
  <2> SUFFICES ASSUME NEW i \in DOMAIN pool' \ DOMAIN pool, NEW k \in DOMAIN pool' \ DOMAIN pool,
                      pool'[i].lines # <<>>, pool'[k].lines # <<>>
               PROVE  i = k
    BY <1>1, EmptyDomain
  <2>1. pool'[i] = w /\ pool'[k] = w
    BY DEF Added
  <2> QED BY <2>1 DEF Added
<1>6. \E i \in DOMAIN Q : Q[i] = b
  <2>1. \E i \in DOMAIN pool' : pool'[i] = w
    BY DEF Added, ToSet
  <2> QED BY <1>1, <1>3, <2>1
<1>7. /\ \A j, k \in DOMAIN b : b[j] = b[k] => j = k
      /\ \A j \in DOMAIN b : b[j] \notin Elems(P)
      /\ \A x : x \in Range(b) <=> \E j \in DOMAIN b : x = b[j]
  BY <1>3 DEF Pending, Range
<1> HIDE DEF P, Q
<1>8. \A i \in DOMAIN P : \A j \in DOMAIN P[i] : \A l \in DOMAIN b : P[i][j] # b[l]
  BY <1>7, ElemsDef
<1>9. Disjoint(P) => Disjoint(Q)
  <2> SUFFICES ASSUME Disjoint(P), NEW i \in DOMAIN Q, NEW k \in DOMAIN Q,
                      NEW j \in DOMAIN Q[i], NEW l \in DOMAIN Q[k], Q[i][j] = Q[k][l]
               PROVE  i = k /\ j = l
    BY DEF Disjoint
  <2>1. CASE i \in DOMAIN P /\ k \in DOMAIN P
    BY <1>2, <2>1 DEF Disjoint
  <2>2. CASE i \notin DOMAIN P /\ k \notin DOMAIN P
    BY <1>4, <1>5, <1>7, <2>2
  <2>3. CASE i \in DOMAIN P /\ k \notin DOMAIN P
    BY <1>2, <1>4, <1>8, <2>3
  <2>4. CASE i \notin DOMAIN P /\ k \in DOMAIN P
    BY <1>2, <1>4, <1>8, <2>4
  <2> QED BY <2>1, <2>2, <2>3, <2>4
<1>10. ASSUME NEW x
       PROVE  x \in Elems(Q) <=> x \in Elems(P) \cup Range(b)
  <2>1. ASSUME x \in Elems(Q)
        PROVE  x \in Elems(P) \cup Range(b)
    <3>1. PICK i, j : i \in DOMAIN Q /\ j \in DOMAIN Q[i] /\ x = Q[i][j]
      BY <2>1, ElemsDef
    <3>2. CASE i \in DOMAIN P
      BY <1>2, <3>1, <3>2, ElemsDef
    <3>3. CASE i \notin DOMAIN P
      BY <1>4, <1>7, <3>1, <3>3
    <3> QED BY <3>2, <3>3
  <2>2. ASSUME x \in Elems(P)
        PROVE  x \in Elems(Q)
    BY <1>2, <2>2, ElemsDef
  <2>3. ASSUME x \in Range(b)
        PROVE  x \in Elems(Q)
    BY <1>6, <1>7, <2>3, ElemsDef
  <2> QED BY <2>1, <2>2, <2>3
<1> QED BY <1>3, <1>9, <1>10 DEF Pending, P, Q

\* A finished request takes its lines away.
LEMMA PendingMoved ==
  ASSUME Disjoint(Pending), NEW i \in DOMAIN pool, NEW r, Moved(i, r)
  PROVE  Disjoint(Pending') /\ Elems(Pending') = Elems(Pending) \ Range(pool[i].lines)
<1> DEFINE P == LinesIn(pool)
           Q == LinesIn(pool')
<1>1. /\ DOMAIN P = DOMAIN pool /\ \A k \in DOMAIN pool : P[k] = pool[k].lines
      /\ DOMAIN Q = DOMAIN pool' /\ \A k \in DOMAIN pool' : Q[k] = pool'[k].lines
  BY LinesInDef
<1>2. \A j \in DOMAIN Q : Skip(i, j) \in DOMAIN P \ {i} /\ Q[j] = P[Skip(i, j)]
  BY <1>1 DEF Moved
<1>3. \A j, k \in DOMAIN Q : Skip(i, j) = Skip(i, k) => j = k
  BY <1>1 DEF Moved
<1>4. \A k \in DOMAIN P \ {i} : \E j \in DOMAIN Q : k = Skip(i, j)
  BY <1>1 DEF Moved
<1>5. \A x : x \in Range(pool[i].lines) <=> \E j \in DOMAIN P[i] : x = P[i][j]
  BY <1>1 DEF Range
<1>6. Disjoint(P) /\ i \in DOMAIN P
  BY <1>1 DEF Pending
<1> HIDE DEF P, Q
<1>7. Disjoint(Q)
  <2> SUFFICES ASSUME NEW j \in DOMAIN Q, NEW k \in DOMAIN Q,
                      NEW m \in DOMAIN Q[j], NEW n \in DOMAIN Q[k], Q[j][m] = Q[k][n]
               PROVE  j = k /\ m = n
    BY DEF Disjoint
  <2>1. Skip(i, j) = Skip(i, k) /\ m = n
    BY <1>2, <1>6 DEF Disjoint
  <2> QED BY <1>3, <2>1
<1>8. ASSUME NEW x
      PROVE  x \in Elems(Q) <=> x \in Elems(P) \ Range(pool[i].lines)
  <2>1. ASSUME x \in Elems(Q)
        PROVE  x \in Elems(P) /\ x \notin Range(pool[i].lines)
    <3>1. PICK j, m : j \in DOMAIN Q /\ m \in DOMAIN Q[j] /\ x = Q[j][m]
      BY <2>1, ElemsDef
    <3>2. PICK k \in DOMAIN P \ {i} : m \in DOMAIN P[k] /\ x = P[k][m]
      BY <1>2, <3>1
    <3>3. x \in Elems(P)
      BY <3>2, ElemsDef
    <3>4. \A n \in DOMAIN P[i] : x # P[i][n]
      BY <1>6, <3>2 DEF Disjoint
    <3> QED BY <1>5, <3>3, <3>4
  <2>2. ASSUME x \in Elems(P), x \notin Range(pool[i].lines)
        PROVE  x \in Elems(Q)
    <3>1. PICK k, m : k \in DOMAIN P /\ m \in DOMAIN P[k] /\ x = P[k][m]
      BY <2>2, ElemsDef
    <3>2. k # i
      BY <1>5, <2>2, <3>1
    <3>3. PICK j \in DOMAIN Q : k = Skip(i, j)
      BY <1>4, <3>1, <3>2
    <3>4. Q[j] = P[k]
      BY <1>2, <3>3
    <3> QED BY <3>1, <3>4, ElemsDef
  <2> QED BY <2>1, <2>2
<1> QED BY <1>7, <1>8 DEF Pending, P, Q

\* A new file brings no lines.
LEMMA FilesMade ==
  ASSUME TypeOK, Disjoint(files), files' = Append(files, <<>>)
  PROVE  Disjoint(files') /\ Elems(files') = Elems(files)
<1>1. /\ \A f \in DOMAIN files : f \in DOMAIN files' /\ files'[f] = files[f]
      /\ \A f \in DOMAIN files' \ DOMAIN files : DOMAIN files'[f] = {}
  <2>1. /\ Len(files) \in Nat
        /\ DOMAIN files = 1 .. Len(files) /\ DOMAIN files' = 1 .. Len(files) + 1
        /\ \A f \in DOMAIN files : files'[f] = files[f]
        /\ files'[Len(files) + 1] = <<>>
    BY FileMade
  <2>2. \A f \in DOMAIN files' \ DOMAIN files : f = Len(files) + 1
    BY <2>1
  <2> QED BY <2>1, <2>2, EmptyDomain
<1> DEFINE F == files
           G == files'
<1>2. /\ \A f \in DOMAIN F : f \in DOMAIN G /\ G[f] = F[f]
      /\ \A f \in DOMAIN G \ DOMAIN F : DOMAIN G[f] = {}
  BY <1>1
<1> HIDE DEF F, G
<1>3. \A f \in DOMAIN G : \A j \in DOMAIN G[f] : f \in DOMAIN F /\ j \in DOMAIN F[f] /\ G[f][j] = F[f][j]
  BY <1>2
<1>4. Disjoint(F) => Disjoint(G)
  BY <1>3 DEF Disjoint
<1>5. \A x : x \in Elems(G) <=> x \in Elems(F)
  BY <1>2, <1>3, ElemsDef
<1> QED BY <1>4, <1>5 DEF F, G

\* The lines of a write are split into those that reach the file and those that are lost.
LEMMA LandedSplit ==
  ASSUME NEW lines \in Seq(Nat), NEW f, NEW done, NEW gone, Landed(lines, f, done, gone),
         \A j, k \in DOMAIN lines : lines[j] = lines[k] => j = k
  PROVE  /\ \A j, k \in DOMAIN done : done[j] = done[k] => j = k
         /\ Range(lines) = Range(done) \cup ToSet(gone)
         /\ Range(done) \cap ToSet(gone) = {}
<1>1. /\ DOMAIN lines = 1 .. Len(lines) /\ Len(lines) = Len(done) + Len(gone)
      /\ DOMAIN done = 1 .. Len(done) /\ DOMAIN gone = 1 .. Len(gone)
      /\ Len(done) \in Nat /\ Len(gone) \in Nat
      /\ \A j \in 1 .. Len(done) : done[j] = lines[j]
      /\ \A j \in 1 .. Len(gone) : gone[j] = lines[Len(done) + j]
  <2>1. done \in Seq(Nat) /\ gone \in Seq(Nat)
    BY DEF Landed
  <2>2. /\ DOMAIN lines = 1 .. Len(lines) /\ DOMAIN done = 1 .. Len(done)
        /\ DOMAIN gone = 1 .. Len(gone) /\ Len(done) \in Nat /\ Len(gone) \in Nat
    <3>1. DOMAIN lines = 1 .. Len(lines)
      BY LenProperties, Zenon
    <3>2. DOMAIN done = 1 .. Len(done) /\ Len(done) \in Nat
      BY <2>1, LenProperties, Zenon
    <3>3. DOMAIN gone = 1 .. Len(gone) /\ Len(gone) \in Nat
      BY <2>1, LenProperties, Zenon
    <3> QED BY <3>1, <3>2, <3>3
  <2> QED BY <2>2, Zenon DEF Landed
<1>2. PICK d \in Nat, g \in Nat : d = Len(done) /\ g = Len(gone) /\ d + g = Len(lines)
  <2>1. PICK d \in Nat : d = Len(done)
    BY <1>1, Zenon
  <2>2. PICK g \in Nat : g = Len(gone)
    BY <1>1, Zenon
  <2> QED BY <1>1, <2>1, <2>2
<1>3. \A j \in 1 .. d : j \in DOMAIN lines /\ done[j] = lines[j]
  BY <1>1, <1>2
<1>4. \A j \in 1 .. g : d + j \in DOMAIN lines /\ gone[j] = lines[d + j]
  BY <1>1, <1>2
<1>5. \A j, k \in DOMAIN done : done[j] = done[k] => j = k
  BY <1>1, <1>2, <1>3
<1>6. Range(done) \cap ToSet(gone) = {}
  <2> SUFFICES ASSUME NEW j \in 1 .. d, NEW k \in 1 .. g
               PROVE  done[j] # gone[k]
    BY <1>1, <1>2 DEF Range, ToSet
  <2>1. j # d + k
    BY <1>2
  <2> QED BY <1>3, <1>4, <2>1
<1>7. \A x \in Range(lines) : x \in Range(done) \cup ToSet(gone)
  <2> SUFFICES ASSUME NEW m \in 1 .. d + g
               PROVE  lines[m] \in Range(done) \cup ToSet(gone)
    BY <1>1, <1>2 DEF Range
  <2>1. CASE m <= d
    <3>1. m \in DOMAIN done /\ lines[m] = done[m]
      BY <1>1, <1>2, <1>3, <2>1
    <3> QED BY <3>1 DEF Range
  <2>2. CASE m > d
    <3>1. PICK k \in 1 .. g : d + k = m
      <4>1. m - d \in 1 .. g /\ d + (m - d) = m
        BY <1>2, <2>2
      <4> QED BY <4>1
    <3>2. k \in DOMAIN gone /\ lines[m] = gone[k]
      BY <1>1, <1>2, <1>4, <3>1
    <3> QED BY <3>2 DEF ToSet
  <2>3. m <= d \/ m > d
    BY <1>2
  <2> QED BY <2>1, <2>2, <2>3
<1>8. \A x \in Range(done) \cup ToSet(gone) : x \in Range(lines)
  <2>1. \A j \in 1 .. d : done[j] \in Range(lines)
    BY <1>3 DEF Range
  <2>2. \A j \in 1 .. g : gone[j] \in Range(lines)
    BY <1>4 DEF Range
  <2> QED BY <1>1, <1>2, <2>1, <2>2 DEF Range, ToSet
<1> QED BY <1>5, <1>6, <1>7, <1>8

\* A file gets the lines of a write that reach it.
LEMMA FilesLanded ==
  ASSUME TypeOK, Disjoint(files), NEW lines \in Seq(Nat), NEW f, NEW done, NEW gone,
         Landed(lines, f, done, gone),
         \A j, k \in DOMAIN lines : lines[j] = lines[k] => j = k,
         Range(lines) \cap Elems(files) = {}
  PROVE  Disjoint(files') /\ Elems(files') = Elems(files) \cup Range(done)
<1> DEFINE F == files
           G == files'
<1>1. /\ DOMAIN G = DOMAIN F
      /\ \A g \in DOMAIN F : g # f => G[g] = F[g]
      /\ \A g \in DOMAIN F : g = f => G[g] = F[f] \o done
      /\ f \notin DOMAIN F => done = <<>>
  BY LandedFiles
<1>2. /\ \A j, k \in DOMAIN done : done[j] = done[k] => j = k
      /\ \A j \in DOMAIN done : done[j] \notin Elems(F)
  BY LandedSplit DEF Range
<1>3. CASE f \notin DOMAIN F
  <2>1. \A g \in DOMAIN F : G[g] = F[g]
    BY <1>1, <1>3
  <2>2. Range(done) = {}
    BY <1>1, <1>3 DEF Range
  <2>3. Disjoint(F)
    OBVIOUS
  <2> HIDE DEF F, G
  <2>4. Disjoint(G)
    BY <1>1, <2>1, <2>3 DEF Disjoint
  <2>5. \A x : x \in Elems(G) <=> x \in Elems(F)
    BY <1>1, <2>1, ElemsDef
  <2>6. Elems(G) = Elems(F) \cup Range(done)
    BY <2>2, <2>5
  <2> QED BY <2>4, <2>6 DEF F, G
<1>4. CASE f \in DOMAIN F
  <2>1. F[f] \in Seq(Nat) /\ done \in Seq(Nat) /\ Disjoint(F)
    BY <1>4, ElementOfSeq, LenProperties DEF TypeOK, Landed
  <2>2. PICK m \in Nat, d \in Nat : /\ m = Len(F[f]) /\ d = Len(done)
                                    /\ DOMAIN F[f] = 1 .. m /\ DOMAIN done = 1 .. d
    BY <2>1, LenProperties
  <2>3. /\ DOMAIN G[f] = 1 .. m + d
        /\ \A j \in 1 .. m + d : G[f][j] = IF j <= m THEN F[f][j] ELSE done[j - m]
    <3>1. G[f] = F[f] \o done
      BY <1>1, <1>4
    <3>2. F[f] \o done \in Seq(Nat) /\ Len(F[f] \o done) = m + d
          /\ \A j \in 1 .. m + d : (F[f] \o done)[j] = IF j <= m THEN F[f][j] ELSE done[j - m]
      BY <2>1, <2>2, ConcatProperties
    <3>3. DOMAIN (F[f] \o done) = 1 .. m + d
      BY <3>2, LenProperties
    <3> QED BY <3>1, <3>2, <3>3
  <2> HIDE DEF F, G
  \* where a line of a file is from
  <2>4. ASSUME NEW g \in DOMAIN G, NEW j \in DOMAIN G[g]
        PROVE  \/ j \in DOMAIN F[g] /\ G[g][j] = F[g][j]
               \/ /\ g = f /\ j \in Int /\ j > m /\ j - m \in DOMAIN done
                  /\ G[g][j] = done[j - m]
    <3>1. CASE g # f
      BY <1>1, <2>4, <3>1
    <3>2. CASE g = f
      <4>1. j \in 1 .. m + d
        BY <2>3, <3>2
      <4>2. CASE j <= m
        BY <1>1, <2>2, <2>3, <3>2, <4>1, <4>2
      <4>3. CASE j > m
        <5>1. j \in Int /\ j - m \in 1 .. d /\ ~(j <= m)
          BY <4>1, <4>3
        <5>2. G[f][j] = done[j - m]
          BY <2>3, <4>1, <5>1
        <5> QED BY <2>2, <3>2, <4>3, <5>1, <5>2
      <4>4. j <= m \/ j > m
        BY <4>1
      <4> QED BY <4>2, <4>3, <4>4
    <3> QED BY <3>1, <3>2
  <2>5. Disjoint(G)
    <3> SUFFICES ASSUME NEW g \in DOMAIN G, NEW h \in DOMAIN G,
                        NEW j \in DOMAIN G[g], NEW k \in DOMAIN G[h], G[g][j] = G[h][k]
                 PROVE  g = h /\ j = k
      BY DEF Disjoint
    <3>1. CASE j \in DOMAIN F[g] /\ G[g][j] = F[g][j]
      <4>1. CASE k \in DOMAIN F[h] /\ G[h][k] = F[h][k]
        <5>1. g \in DOMAIN F /\ h \in DOMAIN F /\ F[g][j] = F[h][k]
          BY <1>1, <3>1, <4>1
        <5> QED BY <2>1, <3>1, <4>1, <5>1 DEF Disjoint
      <4>2. CASE k - m \in DOMAIN done /\ G[h][k] = done[k - m]
        <5>1. F[g][j] \in Elems(F)
          BY <1>1, <3>1, ElemsDef
        <5> QED BY <1>2, <3>1, <4>2, <5>1
      <4> QED BY <2>4, <4>1, <4>2
    <3>2. CASE g = f /\ j \in Int /\ j - m \in DOMAIN done /\ G[g][j] = done[j - m]
      <4>1. CASE k \in DOMAIN F[h] /\ G[h][k] = F[h][k]
        <5>1. F[h][k] \in Elems(F)
          BY <1>1, <4>1, ElemsDef
        <5> QED BY <1>2, <3>2, <4>1, <5>1
      <4>2. CASE h = f /\ k \in Int /\ k - m \in DOMAIN done /\ G[h][k] = done[k - m]
        <5>1. j - m = k - m
          BY <1>2, <3>2, <4>2
        <5> QED BY <2>2, <3>2, <4>2, <5>1
      <4> QED BY <2>4, <4>1, <4>2
    <3> QED BY <2>4, <3>1, <3>2
  <2>6. ASSUME NEW x \in Elems(G)
        PROVE  x \in Elems(F) \cup Range(done)
    <3>1. PICK g, j : g \in DOMAIN G /\ j \in DOMAIN G[g] /\ x = G[g][j]
      BY <2>6, ElemsDef
    <3>2. CASE j \in DOMAIN F[g] /\ G[g][j] = F[g][j]
      BY <1>1, <3>1, <3>2, ElemsDef
    <3>3. CASE j - m \in DOMAIN done /\ G[g][j] = done[j - m]
      BY <3>1, <3>3 DEF Range
    <3> QED BY <2>4, <3>1, <3>2, <3>3
  <2>7. ASSUME NEW x \in Elems(F)
        PROVE  x \in Elems(G)
    <3>1. PICK g, j : g \in DOMAIN F /\ j \in DOMAIN F[g] /\ x = F[g][j]
      BY <2>7, ElemsDef
    <3>2. CASE g # f
      BY <1>1, <3>1, <3>2, ElemsDef
    <3>3. CASE g = f
      <4>1. j \in 1 .. m /\ j \in 1 .. m + d /\ j <= m
        BY <2>2, <3>1, <3>3
      <4>2. j \in DOMAIN G[f] /\ G[f][j] = F[f][j]
        BY <2>3, <4>1
      <4> QED BY <1>1, <1>4, <3>1, <3>3, <4>2, ElemsDef
    <3> QED BY <3>2, <3>3
  <2>8. ASSUME NEW k \in DOMAIN done
        PROVE  done[k] \in Elems(G)
    <3>0. PICK j \in Int : j = m + k
      BY <2>2
    <3>1. j \in 1 .. m + d /\ j > m /\ j - m = k
      BY <2>2, <3>0
    <3>2. j \in DOMAIN G[f] /\ G[f][j] = done[k]
      BY <2>3, <3>1
    <3> QED BY <1>1, <1>4, <3>2, ElemsDef
  <2>9. Elems(G) = Elems(F) \cup Range(done)
    BY <2>6, <2>7, <2>8 DEF Range
  <2> QED BY <2>5, <2>9 DEF F, G
<1> QED BY <1>3, <1>4

\* An interval of integers that ends n after its open start has n elements.
LEMMA IntervalSize ==
  ASSUME NEW a \in Int, NEW n \in Nat
  PROVE  IsFiniteSet((a + 1) .. (a + n)) /\ Cardinality((a + 1) .. (a + n)) = n
<1>1. PICK c \in Int : c = a + 1
  OBVIOUS
<1>2. PICK d \in Int : d = a + n
  OBVIOUS
<1>3. IsFiniteSet(c .. d) /\ Cardinality(c .. d) = IF c > d THEN 0 ELSE d - c + 1
  BY FS_Interval
<1>4. (IF c > d THEN 0 ELSE d - c + 1) = n
  BY <1>1, <1>2
<1> QED BY <1>1, <1>2, <1>3, <1>4

\* The numbers from 1 to n are n numbers.
LEMMA IntervalFrom1 ==
  ASSUME NEW n \in Nat
  PROVE  Cardinality(1 .. n) = n
<1>1. PICK z \in Int : z = 0
  OBVIOUS
<1>2. Cardinality((z + 1) .. (z + n)) = n
  BY IntervalSize
<1>3. z + 1 = 1 /\ z + n = n
  BY <1>1
<1> QED BY <1>2, <1>3

\* offer() keeps the buffer a run of consecutive lines, and a line it gives up is dropped.
LEMMA OfferLines ==
  ASSUME TypeInv, Lines, NEW b, b = offer(logged + 1),
         noOfLogLinesDropped' = noOfLogLinesDropped + (IF Len(buffer) = Capacity THEN 1 ELSE 0)
  PROVE  \E t \in Nat :
           /\ t = logged + 1 - Len(b)
           /\ b \in Seq(Nat) /\ DOMAIN b = 1 .. Len(b) /\ Len(b) \in Nat
           /\ \A i \in DOMAIN b : b[i] = t + i
           /\ \A j, k \in DOMAIN b : b[j] = b[k] => j = k
           /\ Range(b) = (t + 1) .. (logged + 1)
           /\ Kept \subseteq 1 .. t
           /\ Cardinality((1 .. t) \ Kept) = noOfLogLinesDropped'
<1>1. /\ b \in Seq(Nat) /\ Len(b) \in 1 .. Capacity /\ b[Len(b)] = logged + 1
      /\ Len(buffer) = Capacity => /\ Len(b) = Capacity
                                   /\ \A i \in 1 .. Capacity - 1 : b[i] = buffer[i + 1]
      /\ Len(buffer) # Capacity => /\ Len(b) = Len(buffer) + 1
                                   /\ \A i \in 1 .. Len(buffer) : b[i] = buffer[i]
  BY OfferType DEF TypeInv
<1>2. /\ Capacity \in Nat /\ logged \in Nat /\ noOfLogLinesDropped \in Nat
      /\ Len(buffer) \in 0 .. Capacity /\ DOMAIN buffer = 1 .. Len(buffer)
  BY LogAssumption, LenProperties DEF TypeInv, TypeOK
<1>3. /\ logged - Len(buffer) \in Nat
      /\ \A i \in 1 .. Len(buffer) : buffer[i] = logged - Len(buffer) + i
      /\ Kept \subseteq 1 .. logged - Len(buffer)
      /\ Cardinality((1 .. logged - Len(buffer)) \ Kept) = noOfLogLinesDropped
  <2>1. /\ Taken \in Nat
        /\ \A i \in DOMAIN buffer : buffer[i] = Taken + i
        /\ Kept \subseteq 1 .. Taken
        /\ Cardinality((1 .. Taken) \ Kept) = noOfLogLinesDropped
    BY Zenon DEF Lines
  <2> QED BY <1>2, <2>1, Zenon DEF Taken
<1>4. PICK n \in Nat, m \in Nat, L \in Nat :
        /\ n = Len(b) /\ m = Len(buffer) /\ L = logged /\ DOMAIN b = 1 .. n
        /\ n \in 1 .. Capacity /\ m \in 0 .. Capacity
  <2>1. PICK n \in Nat : n = Len(b)
    BY <1>1, LenProperties
  <2>2. PICK m \in Nat : m = Len(buffer)
    BY LenProperties DEF TypeInv, TypeOK
  <2>3. DOMAIN b = 1 .. n
    BY <1>1, <2>1, LenProperties
  <2> QED BY <1>1, <1>2, <2>1, <2>2, <2>3
<1>5. PICK T \in Nat : /\ T = L - m /\ T = logged - Len(buffer)
                       /\ \A i \in 1 .. m : buffer[i] = T + i
                       /\ Kept \subseteq 1 .. T
                       /\ Cardinality((1 .. T) \ Kept) = noOfLogLinesDropped
  <2>1. PICK T \in Nat : T = logged - Len(buffer)
    BY <1>3
  <2> QED BY <1>3, <1>4, <2>1
<1>5a. T = L - m
  BY <1>5
<1>6. PICK t \in Nat : /\ t = L + 1 - n
                       /\ m = Capacity => t = T + 1
                       /\ m # Capacity => t = T
                       /\ \A i \in 1 .. n : b[i] = t + i
  <2>1. CASE m = Capacity
    <3>1. n = m /\ b[n] = L + 1 /\ \A i \in 1 .. m - 1 : b[i] = buffer[i + 1]
      BY <1>1, <1>4, <2>1
    <3>2. T + 1 = L + 1 - n
      BY <1>5a, <3>1
    <3>3. ASSUME NEW i \in 1 .. n
          PROVE  b[i] = T + 1 + i
      <4>1. CASE i = n
        BY <1>5, <3>1, <3>2, <4>1
      <4>2. CASE i # n
        <5>1. PICK k \in 1 .. m : k = i + 1
          BY <3>1, <4>2
        <5>2. i \in 1 .. m - 1
          BY <3>1, <4>2
        <5>3. b[i] = buffer[k] /\ buffer[k] = T + k
          BY <1>5, <3>1, <5>1, <5>2
        <5> QED BY <5>1, <5>3
      <4> QED BY <4>1, <4>2
    <3> QED BY <2>1, <3>2, <3>3
  <2>2. CASE m # Capacity
    <3>1. n = m + 1 /\ b[n] = L + 1 /\ \A i \in 1 .. m : b[i] = buffer[i]
      BY <1>1, <1>4, <2>2
    <3>2. T = L + 1 - n
      BY <1>5a, <3>1
    <3>3. ASSUME NEW i \in 1 .. n
          PROVE  b[i] = T + i
      <4>1. CASE i = n
        BY <1>5, <3>1, <3>2, <4>1
      <4>2. CASE i # n
        <5>1. i \in 1 .. m
          BY <3>1, <4>2
        <5> QED BY <1>5, <3>1, <5>1
      <4> QED BY <4>1, <4>2
    <3> QED BY <2>2, <3>2, <3>3
  <2> QED BY <2>1, <2>2
<1>7. \A j, k \in DOMAIN b : b[j] = b[k] => j = k
  BY ONLY <1>4, <1>6, n \in Nat, t \in Nat
<1>8. Range(b) = (t + 1) .. (logged + 1)
  <2>1. L + 1 = t + n
    BY <1>6
  <2>2. \A x \in Range(b) : x \in (t + 1) .. (t + n)
    <3>1. \A i \in 1 .. n : b[i] \in (t + 1) .. (t + n)
      BY <1>6
    <3> QED BY <1>4, <3>1 DEF Range
  <2>3. ASSUME NEW x \in (t + 1) .. (t + n)
        PROVE  x \in Range(b)
    <3>1. PICK i \in Int : i = x - t
      OBVIOUS
    <3>2. i \in 1 .. n /\ t + i = x
      BY <3>1
    <3> QED BY <1>4, <1>6, <3>2 DEF Range
  <2> QED BY <1>4, <2>1, <2>2, <2>3
<1>9. Kept \subseteq 1 .. t /\ Cardinality((1 .. t) \ Kept) = noOfLogLinesDropped'
  <2>1. CASE m # Capacity
    <3>1. t = T /\ noOfLogLinesDropped' = noOfLogLinesDropped
      <4>1. Len(buffer) # Capacity /\ t = T
        BY <1>4, <1>6, <2>1
      <4>2. (IF Len(buffer) = Capacity THEN 1 ELSE 0) = 0
        BY <4>1
      <4>3. noOfLogLinesDropped' = noOfLogLinesDropped + 0
        BY <4>2
      <4>4. PICK d \in Nat : d = noOfLogLinesDropped
        BY <1>2
      <4>5. noOfLogLinesDropped' = d
        BY <4>3, <4>4
      <4> QED BY <4>1, <4>4, <4>5
    <3> QED BY <1>5, <3>1
  <2>2. CASE m = Capacity
    <3>1. t = T + 1 /\ noOfLogLinesDropped' = noOfLogLinesDropped + 1
      <4>1. Len(buffer) = Capacity /\ t = T + 1
        BY <1>4, <1>6, <2>2
      <4> QED BY <4>1
    <3>2. T + 1 \notin Kept
      BY <1>5
    <3>3. (1 .. T + 1) \ Kept = ((1 .. T) \ Kept) \cup {T + 1} /\ T + 1 \notin (1 .. T) \ Kept
      BY <3>2
    <3>4. IsFiniteSet((1 .. T) \ Kept)
      <4>1. IsFiniteSet(1 .. T)
        BY FS_Interval
      <4> QED BY <4>1, FS_Difference
    <3>5. Cardinality(((1 .. T) \ Kept) \cup {T + 1}) = noOfLogLinesDropped + 1
      BY <1>5, <3>3, <3>4, FS_AddElement
    <3>6. Kept \subseteq 1 .. T + 1
      BY <1>5
    <3> QED BY <3>1, <3>3, <3>5, <3>6
  <2> QED BY <2>1, <2>2
<1> QED BY <1>1, <1>4, <1>6, <1>7, <1>8, <1>9

\* LogLine keeps the lines accounted for.
LEMMA LinesLine ==
  ASSUME TypeInv, Lines, LogLine
  PROVE  Lines'
<1>1. LineKept /\ logged' = logged + 1 /\ logged \in Nat
      /\ noOfLogLinesDropped' = noOfLogLinesDropped + (IF Len(buffer) = Capacity THEN 1 ELSE 0)
  BY LineCases DEF LogLine, TypeInv, TypeOK
<1>2. PICK b, t : /\ b = offer(logged + 1) /\ t \in Nat /\ t = logged + 1 - Len(b)
                  /\ \A i \in DOMAIN b : b[i] = t + i
                  /\ Kept \subseteq 1 .. t
                  /\ Cardinality((1 .. t) \ Kept) = noOfLogLinesDropped'
  BY <1>1, OfferLines
<1>3. PICK N : Added(N) /\ N \subseteq {OpenRequest}
  <2>1. CASE Reopens({})
    BY <2>1 DEF Reopens
  <2>2. CASE pool' = pool
    <3>1. PICK M : M = {}
      OBVIOUS
    <3>2. Added(M)
      BY <2>2, <3>1, AddNone DEF TypeInv
    <3> QED BY <3>1, <3>2
  <2> QED BY <1>1, <2>1, <2>2 DEF LineKept
<1>4. OpenRequest.lines = <<>>
  BY OpenClose DEF TypeInv
<1>5. Disjoint(Pending') /\ Elems(Pending') = Elems(Pending)
  BY <1>3, <1>4, PendingSame DEF Lines
<1>6. files' = files /\ lost' = lost /\ buffer' = b
  BY <1>1, <1>2 DEF LineKept
<1>7. Kept' = Kept
  BY <1>5, <1>6 DEF Kept
<1>8. Taken' = t
  BY <1>1, <1>2, <1>6 DEF Taken
<1> QED BY <1>2, <1>5, <1>6, <1>7, <1>8 DEF Lines

\* LogBatch keeps the lines accounted for, whatever becomes of the batch.
LEMMA LinesBatch ==
  ASSUME TypeInv, Lines, LogBatch
  PROVE  Lines'
<1>1. logged' = logged + 1 /\ logged \in Nat
      /\ noOfLogLinesDropped' = noOfLogLinesDropped + (IF Len(buffer) = Capacity THEN 1 ELSE 0)
  BY DEF LogBatch, TypeInv, TypeOK
<1>2. PICK b, t : /\ b = offer(logged + 1) /\ t \in Nat
                  /\ b \in Seq(Nat) /\ t = logged + 1 - Len(b) /\ Len(b) \in Nat
                  /\ \A j, k \in DOMAIN b : b[j] = b[k] => j = k
                  /\ Range(b) = (t + 1) .. (logged + 1)
                  /\ Kept \subseteq 1 .. t
                  /\ Cardinality((1 .. t) \ Kept) = noOfLogLinesDropped'
  BY <1>1, OfferLines
<1>3. /\ buffer' = <<>> /\ files' = files
      /\ BatchWritten(b) \/ BatchRotates(b) \/ BatchRefused(b) \/ BatchForgotten(b)
  BY <1>2, BatchCases
<1>4. /\ Range(b) \cap Elems(Pending) = {} /\ Range(b) \cap Elems(files) = {}
      /\ Range(b) \cap lost = {}
  BY <1>1, <1>2 DEF Kept
<1>5. /\ Disjoint(Pending') /\ Disjoint(files')
      /\ Elems(Pending') \cap Elems(files') = {}
      /\ Elems(Pending') \cap lost' = {}
      /\ Elems(files') \cap lost' = {}
      /\ Kept' = Kept \cup Range(b)
  <2>1. ASSUME NEW r \in BOOLEAN, NEW N, Added(N), WriteRequest(b, r) \in N,
               N \subseteq {WriteRequest(b, r), OpenRequest}, lost' = lost
        PROVE  /\ Disjoint(Pending')
               /\ Elems(Pending') = Elems(Pending) \cup Range(b)
               /\ Elems(Pending') \cap Elems(files') = {}
               /\ Elems(Pending') \cap lost' = {}
               /\ Kept' = Kept \cup Range(b)
    <3>1. WriteRequest(b, r).lines = b /\ OpenRequest.lines = <<>>
      BY <1>2, NewWellFormed, OpenClose DEF TypeInv
    <3>2. PICK w \in N : w = WriteRequest(b, r) /\ w.lines = b /\ \A q \in N : q # w => q.lines = <<>>
      BY <2>1, <3>1
    <3>3. Disjoint(Pending') /\ Elems(Pending') = Elems(Pending) \cup Range(b)
      BY <1>2, <1>4, <2>1, <3>2, PendingBatch DEF Lines
    <3> QED BY <1>3, <1>4, <2>1, <3>3 DEF Kept, Lines
  <2>2. ASSUME NEW N, Added(N), \A q \in N : q.lines = <<>>, lost' = lost \cup ToSet(b)
        PROVE  /\ Disjoint(Pending')
               /\ Elems(Pending') = Elems(Pending)
               /\ Elems(Pending') \cap Elems(files') = {}
               /\ Elems(Pending') \cap lost' = {}
               /\ Elems(files') \cap lost' = {}
               /\ Kept' = Kept \cup Range(b)
    <3>1. Disjoint(Pending') /\ Elems(Pending') = Elems(Pending)
      BY <2>2, PendingSame DEF Lines
    <3>2. ToSet(b) = Range(b)
      BY DEF ToSet, Range
    <3> QED BY <1>3, <1>4, <2>2, <3>1, <3>2 DEF Kept, Lines
  <2>3. CASE BatchWritten(b)
    <3>1. Added({WriteRequest(b, FALSE)}) /\ lost' = lost
      BY <2>3 DEF BatchWritten
    <3> QED BY <1>3, <2>1, <3>1 DEF Lines
  <2>4. CASE BatchRotates(b)
    <3>1. lost' = lost
          /\ \/ Added({WriteRequest(b, TRUE)})
             \/ Added({WriteRequest(b, TRUE)} \cup {OpenRequest})
      BY <2>4 DEF BatchRotates, Reopens
    <3> QED BY <1>3, <2>1, <3>1 DEF Lines
  <2>5. CASE BatchRefused(b)
    <3>1. lost' = lost \cup ToSet(b)
          /\ \/ Added({CloseRequest(At(logfile))})
             \/ Added({CloseRequest(At(logfile))} \cup {OpenRequest})
      BY <2>5 DEF BatchRefused, Reopens
    <3>2. CloseRequest(At(logfile)).lines = <<>> /\ OpenRequest.lines = <<>>
      <4>1. At(logfile) \in Int
        BY AtType, GoodRequests DEF TypeInv
      <4> QED BY <4>1, OpenClose DEF TypeInv
    <3> QED BY <1>3, <2>2, <3>1, <3>2 DEF Lines
  <2>6. CASE BatchForgotten(b)
    <3>1. lost' = lost \cup ToSet(b) /\ pool' = pool
      BY <2>6 DEF BatchForgotten
    <3>2. PICK N : N = {}
      OBVIOUS
    <3>3. Added(N) /\ \A q \in N : q.lines = <<>>
      BY <3>1, <3>2, AddNone DEF TypeInv
    <3> QED BY <1>3, <2>2, <3>1, <3>3 DEF Lines
  <2> QED BY <1>3, <2>3, <2>4, <2>5, <2>6
<1>6. Taken' = logged + 1
  BY <1>1, <1>3, EmptySeq DEF Taken
<1>7. Kept' \subseteq 1 .. logged + 1 /\ (1 .. logged + 1) \ Kept' = (1 .. t) \ Kept
  <2>1. PICK n \in Nat : n = Len(b) /\ t + n = logged + 1
    BY <1>1, <1>2
  <2>2. Range(b) = (t + 1) .. (t + n) /\ Kept \subseteq 1 .. t /\ Kept' = Kept \cup Range(b)
    BY <1>2, <1>5, <2>1
  <2>3. Kept' \subseteq 1 .. t + n /\ (1 .. t + n) \ Kept' = (1 .. t) \ Kept
    <3>1. t \in Nat
      BY <1>2
    <3>2. \A x \in 1 .. t + n : x \in 1 .. t \/ x \in (t + 1) .. (t + n)
      BY <3>1
    <3>3. \A x \in 1 .. t : x \in 1 .. t + n /\ x \notin (t + 1) .. (t + n)
      BY <3>1
    <3>4. \A x \in (t + 1) .. (t + n) : x \in 1 .. t + n
      BY <3>1
    <3> QED BY <2>2, <3>2, <3>3, <3>4
  <2> QED BY <2>1, <2>3
<1>8. DOMAIN buffer' = {}
  BY <1>3, EmptyDomain
<1>9. /\ Taken' \in Nat /\ \A i \in DOMAIN buffer' : buffer'[i] = Taken' + i
      /\ Kept' \subseteq 1 .. Taken'
      /\ Cardinality((1 .. Taken') \ Kept') = noOfLogLinesDropped'
  <2>1. Taken' \in Nat
    BY <1>1, <1>6
  <2>2. Cardinality((1 .. t) \ Kept) = noOfLogLinesDropped'
    BY <1>2
  <2> QED BY <1>6, <1>7, <1>8, <2>1, <2>2
<1> QED BY <1>5, <1>9 DEF Lines

\* A finished request keeps the lines accounted for.
LEMMA LinesPool ==
  ASSUME TypeInv, Lines, NEW i, RunOpen(i) \/ RunWrite(i) \/ RunClose(i)
  PROVE  Lines'
<1>1. i \in DOMAIN pool /\ UNCHANGED luaVars
  BY DEF RunOpen, RunWrite, RunClose, Running, Finish
<1>2. i \in 1 .. Len(pool) /\ pool[i] \in RequestType
  BY <1>1, LenProperties, ElementOfSeq DEF TypeInv, TypeOK
<1>3. Disjoint(Pending) /\ Disjoint(files)
  BY DEF Lines
<1>4. SUFFICES /\ Disjoint(Pending') /\ Disjoint(files')
               /\ Elems(Pending') \cap Elems(files') = {}
               /\ Elems(Pending') \cap lost' = {}
               /\ Elems(files') \cap lost' = {}
               /\ Kept' = Kept
  BY <1>1 DEF Lines, Taken, luaVars
<1>5. CASE RunWrite(i)
  <2>1. PICK n : Moved(i, n)
    BY <1>5, WriteLands
  <2>2. PICK done, gone : Landed(pool[i].lines, At(pool[i].fd), done, gone)
    BY <1>5, WriteLands
  <2>3. PICK lines \in Seq(Nat) : lines = pool[i].lines
    BY <1>2 DEF RequestType
  <2>4. Disjoint(Pending') /\ Elems(Pending') = Elems(Pending) \ Range(lines)
    BY <1>1, <1>3, <2>1, <2>3, PendingMoved
  <2>5. /\ \A j, k \in DOMAIN lines : lines[j] = lines[k] => j = k
        /\ Range(lines) \subseteq Elems(Pending)
    <3>1. i \in DOMAIN Pending /\ Pending[i] = lines
      BY <1>1, <2>3, LinesInDef DEF Pending
    <3>2. \A j, k \in DOMAIN lines : lines[j] = lines[k] => j = k
      BY <1>3, <3>1 DEF Disjoint
    <3>3. Range(lines) \subseteq Elems(Pending)
      BY <3>1 DEF Elems
    <3> QED BY <3>2, <3>3
  <2>6. /\ Range(lines) = Range(done) \cup ToSet(gone)
        /\ Range(done) \cap ToSet(gone) = {}
    BY <2>2, <2>3, <2>5, LandedSplit
  <2>7. Disjoint(files') /\ Elems(files') = Elems(files) \cup Range(done)
    BY <1>3, <2>2, <2>3, <2>5, FilesLanded DEF TypeInv, Lines
  <2>8. lost' = lost \cup ToSet(gone)
    BY <2>2 DEF Landed
  <2>9. /\ Elems(Pending) \cap Elems(files) = {}
        /\ Elems(Pending) \cap lost = {}
        /\ Elems(files) \cap lost = {}
    BY DEF Lines
  <2> QED BY <2>4, <2>5, <2>6, <2>7, <2>8, <2>9 DEF Kept
<1>6. CASE RunOpen(i) \/ RunClose(i)
  <2>1. pool[i].op # "write" /\ lost' = lost
    BY <1>6 DEF RunOpen, RunClose, Running
  <2>2. pool[i].lines = <<>>
    <3>1. pool[i] \in Outstanding
      BY <1>1 DEF Outstanding, ToSet
    <3> QED BY <2>1, <3>1 DEF TypeInv, Requests, WellFormed
  <2>3. PICK n \in Int : Finish(i, n)
    <3>1. MaxFd \in Nat
      BY LogAssumption
    <3> QED BY <1>6, <3>1 DEF RunOpen, RunClose
  <2>4. Moved(i, n)
    BY <1>2, <2>3, FinishMoves DEF TypeInv
  <2>5. Disjoint(Pending') /\ Elems(Pending') = Elems(Pending)
    <3>1. Range(pool[i].lines) = {}
      BY <2>2 DEF Range
    <3>2. Disjoint(Pending') /\ Elems(Pending') = Elems(Pending) \ Range(pool[i].lines)
      BY <1>1, <1>3, <2>4, PendingMoved
    <3> QED BY <3>1, <3>2
  <2>6. files' = files \/ files' = Append(files, <<>>)
    BY <1>6 DEF RunOpen, RunClose
  <2>7. Disjoint(files') /\ Elems(files') = Elems(files)
    BY <1>3, <2>6, FilesMade DEF TypeInv
  <2> QED BY <2>1, <2>5, <2>7 DEF Lines, Kept
<1> QED BY <1>5, <1>6

\* The callbacks keep the lines accounted for.
LEMMA LinesCallback ==
  ASSUME TypeInv, Lines, Callback
  PROVE  Lines'
<1>1. PICK q : q = Head(finished)
  OBVIOUS
<1>2. /\ finished # <<>> /\ finished' = Tail(finished)
      /\ UNCHANGED <<luaVars, files, lost>>
      /\ pool' = pool \/ close_log(q)
  BY <1>1 DEF Callback, on_log_open, CloseAfterWrite, on_log_write, on_log_close
<1>3. q \in RequestType /\ q.file \in Foreign .. Len(files)
  BY <1>1, <1>2, CallbackCalls, CalledWellFormed DEF TypeInv
<1>4. Disjoint(Pending') /\ Elems(Pending') = Elems(Pending)
  <2>1. CASE pool' = pool
    BY <2>1 DEF Pending, Lines
  <2>2. CASE close_log(q)
    <3>1. Added({CloseRequest(q.file)})
      BY <1>3, <2>2, CloseAdds
    <3>2. CloseRequest(q.file).lines = <<>>
      BY <1>3, OpenClose DEF TypeInv, RequestType
    <3> QED BY <3>1, <3>2, PendingSame DEF Lines
  <2> QED BY <1>2, <2>1, <2>2
<1> QED BY <1>2, <1>4 DEF Lines, Kept, Taken, luaVars

\* Every step keeps the lines accounted for.
LEMMA LinesStep == TypeInv /\ Lines /\ [Next]_vars => Lines'
<1> SUFFICES ASSUME TypeInv, Lines, [Next]_vars
             PROVE  Lines'
  OBVIOUS
<1>1. CASE LogLine
  BY <1>1, LinesLine
<1>2. CASE LogBatch
  BY <1>2, LinesBatch
<1>3. CASE Pool
  BY <1>3, LinesPool DEF Pool
<1>4. CASE Callback
  BY <1>4, LinesCallback
<1>5. CASE OtherOpens \/ OtherCloses
  BY <1>5 DEF OtherOpens, OtherCloses, Lines, Kept, Taken, Pending, luaVars
<1>6. CASE UNCHANGED vars
  BY <1>6 DEF vars, Lines, Kept, Taken, Pending
<1> QED BY <1>1, <1>2, <1>3, <1>4, <1>5, <1>6 DEF Next

\* There are no lines initially.
LEMMA LinesInit == Init => Lines
<1> SUFFICES ASSUME Init
             PROVE  Lines
  OBVIOUS
<1>1. /\ Len(<<>>) = 0 /\ DOMAIN <<>> = {}
      /\ buffer = <<>> /\ files = <<>> /\ pool = <<>> /\ lost = {}
      /\ logged = 0 /\ noOfLogLinesDropped = 0
  BY DEF Init
<1>2. DOMAIN Pending = {}
  BY <1>1, LinesInDef DEF Pending
<1>3. /\ Elems(Pending) = {} /\ Elems(files) = {}
      /\ Disjoint(Pending) /\ Disjoint(files)
  BY <1>1, <1>2 DEF Elems, Disjoint
<1>4. Taken = 0 /\ Kept = {}
  <2>1. Taken = 0 - 0
    BY <1>1 DEF Taken
  <2>2. Kept = {}
    BY <1>1, <1>3 DEF Kept
  <2> QED BY <2>1, <2>2
<1>5. Cardinality((1 .. Taken) \ Kept) = 0
  <2>1. 1 .. 0 = {}
    OBVIOUS
  <2>2. (1 .. Taken) \ Kept = {}
    BY <1>4, <2>1
  <2> QED BY <2>2, FS_EmptySet
<1>6. \A i \in DOMAIN buffer : buffer[i] = Taken + i
  BY <1>1
<1> QED BY <1>1, <1>3, <1>4, <1>5, <1>6 DEF Lines

\* The places, one kind after the other.
LEMMA PlaceCases ==
  ASSUME NEW p \in Places
  PROVE  \/ \E j \in DOMAIN buffer : p = <<"buffer", 1, j>> /\ LineAt(p) = buffer[j]
         \/ \E i \in DOMAIN pool : \E j \in DOMAIN pool[i].lines :
              p = <<"pool", i, j>> /\ LineAt(p) = pool[i].lines[j]
         \/ \E f \in DOMAIN files : \E j \in DOMAIN files[f] :
              p = <<"file", f, j>> /\ LineAt(p) = files[f][j]
<1>1. CASE p \in {<<"buffer", 1, j>> : j \in DOMAIN buffer}
  BY <1>1 DEF LineAt
<1>2. CASE p \in UNION {{<<"pool", i, j>> : j \in DOMAIN pool[i].lines} : i \in DOMAIN pool}
  <2>1. PICK i \in DOMAIN pool : p \in {<<"pool", i, j>> : j \in DOMAIN pool[i].lines}
    BY <1>2
  <2>2. PICK j \in DOMAIN pool[i].lines : p = <<"pool", i, j>>
    BY <2>1
  <2>3. p[1] = "pool" /\ p[2] = i /\ p[3] = j
    BY <2>2
  <2>4. LineAt(p) = pool[i].lines[j]
    BY <2>3 DEF LineAt
  <2> QED BY <2>2, <2>4
<1>3. CASE p \in UNION {{<<"file", f, j>> : j \in DOMAIN files[f]} : f \in DOMAIN files}
  <2>1. PICK f \in DOMAIN files : p \in {<<"file", f, j>> : j \in DOMAIN files[f]}
    BY <1>3
  <2>2. PICK j \in DOMAIN files[f] : p = <<"file", f, j>>
    BY <2>1
  <2>3. p[1] = "file" /\ p[2] = f /\ p[3] = j
    BY <2>2
  <2>4. LineAt(p) = files[f][j]
    BY <2>3 DEF LineAt
  <2> QED BY <2>2, <2>4
<1> QED BY <1>1, <1>2, <1>3 DEF Places

\* Every line kept is at a place.
LEMMA PlacesOf ==
  /\ \A j \in DOMAIN buffer : /\ <<"buffer", 1, j>> \in Places
                              /\ LineAt(<<"buffer", 1, j>>) = buffer[j]
  /\ \A i \in DOMAIN pool : \A j \in DOMAIN pool[i].lines :
       <<"pool", i, j>> \in Places /\ LineAt(<<"pool", i, j>>) = pool[i].lines[j]
  /\ \A f \in DOMAIN files : \A j \in DOMAIN files[f] :
       <<"file", f, j>> \in Places /\ LineAt(<<"file", f, j>>) = files[f][j]
<1>1. ASSUME NEW i \in DOMAIN pool, NEW j \in DOMAIN pool[i].lines
      PROVE  <<"pool", i, j>> \in UNION {{<<"pool", k, l>> : l \in DOMAIN pool[k].lines} : k \in DOMAIN pool}
  OBVIOUS
<1>2. ASSUME NEW f \in DOMAIN files, NEW j \in DOMAIN files[f]
      PROVE  <<"file", f, j>> \in UNION {{<<"file", k, l>> : l \in DOMAIN files[k]} : k \in DOMAIN files}
  OBVIOUS
<1>3. \A i, j : LineAt(<<"pool", i, j>>) = pool[i].lines[j]
  BY DEF LineAt
<1>4. \A i, j : LineAt(<<"file", i, j>>) = files[i][j]
  BY DEF LineAt
<1>5. \A j : LineAt(<<"buffer", 1, j>>) = buffer[j]
  BY DEF LineAt
<1>6. \A j \in DOMAIN buffer : <<"buffer", 1, j>> \in Places
  BY DEF Places
<1>7. \A i \in DOMAIN pool : \A j \in DOMAIN pool[i].lines : <<"pool", i, j>> \in Places
  BY <1>1, Zenon DEF Places
<1>8. \A f \in DOMAIN files : \A j \in DOMAIN files[f] : <<"file", f, j>> \in Places
  BY <1>2, Zenon DEF Places
<1> QED BY <1>3, <1>4, <1>5, <1>6, <1>7, <1>8

\* The invariant is about the places of LinesAccounted.
LEMMA LinesAccount ==
  ASSUME TypeInv, Lines
  PROVE  LinesAccounted
<1> DEFINE placed == {LineAt(p) : p \in Places}
<1>1. PICK t \in Nat, n \in Nat :
        /\ t = Taken /\ logged = t + n /\ DOMAIN buffer = 1 .. n
        /\ \A i \in 1 .. n : buffer[i] = t + i
  <2>1. PICK n \in Nat : n = Len(buffer) /\ DOMAIN buffer = 1 .. n
    BY LenProperties DEF TypeInv, TypeOK
  <2>2. logged \in Nat /\ logged - n \in Nat /\ Taken = logged - n
    BY <2>1 DEF TypeInv, TypeOK, Lines, Taken
  <2>3. logged = (logged - n) + n
    BY <2>2
  <2> QED BY <2>1, <2>2, <2>3 DEF Lines
<1>2. /\ Elems(Pending) \cap Elems(files) = {} /\ Elems(Pending) \cap lost = {}
      /\ Elems(files) \cap lost = {} /\ Disjoint(Pending) /\ Disjoint(files)
      /\ Elems(Pending) \cup Elems(files) \cup lost \subseteq 1 .. t
      /\ Cardinality((1 .. t) \ Kept) = noOfLogLinesDropped
      /\ Kept = Elems(Pending) \cup Elems(files) \cup lost
  BY <1>1 DEF Lines, Kept
<1>3. DOMAIN Pending = DOMAIN pool /\ \A i \in DOMAIN pool : Pending[i] = pool[i].lines
  BY LinesInDef DEF Pending
<1>4. \A j \in DOMAIN buffer : buffer[j] \in (t + 1) .. (t + n) /\ buffer[j] \notin 1 .. t
  BY <1>1
<1>5. \A i \in DOMAIN pool : \A j \in DOMAIN pool[i].lines : pool[i].lines[j] \in Elems(Pending)
  BY <1>3, ElemsDef
<1>6. \A f \in DOMAIN files : \A j \in DOMAIN files[f] : files[f][j] \in Elems(files)
  BY ElemsDef
<1>7. ASSUME NEW p \in Places, NEW q \in Places, LineAt(p) = LineAt(q)
      PROVE  p = q
  <2>0. \/ \E j \in DOMAIN buffer : q = <<"buffer", 1, j>> /\ LineAt(q) = buffer[j]
        \/ \E i \in DOMAIN pool : \E j \in DOMAIN pool[i].lines :
             q = <<"pool", i, j>> /\ LineAt(q) = pool[i].lines[j]
        \/ \E f \in DOMAIN files : \E j \in DOMAIN files[f] :
             q = <<"file", f, j>> /\ LineAt(q) = files[f][j]
    BY PlaceCases, Zenon
  <2>1. CASE \E j \in DOMAIN buffer : p = <<"buffer", 1, j>> /\ LineAt(p) = buffer[j]
    <3>1. PICK j \in DOMAIN buffer : p = <<"buffer", 1, j>> /\ LineAt(p) = buffer[j]
      BY <2>1
    <3>2. LineAt(q) \notin Elems(Pending) /\ LineAt(q) \notin Elems(files)
      BY <1>2, <1>4, <1>7, <3>1
    <3>3. PICK k \in DOMAIN buffer : q = <<"buffer", 1, k>> /\ LineAt(q) = buffer[k]
      BY <1>5, <1>6, <2>0, <3>2, Zenon
    <3>4. /\ buffer[j] = buffer[k] /\ buffer[j] = t + j /\ buffer[k] = t + k
          /\ j \in 1 .. n /\ k \in 1 .. n
      BY <1>1, <1>7, <3>1, <3>3
    <3>5. ASSUME NEW a \in 1 .. n, NEW b \in 1 .. n, t + a = t + b
          PROVE  a = b
      BY <3>5
    <3>6. j = k
      BY <3>4, <3>5
    <3> QED BY <3>1, <3>3, <3>6
  <2>2. CASE \E i \in DOMAIN pool : \E j \in DOMAIN pool[i].lines :
               p = <<"pool", i, j>> /\ LineAt(p) = pool[i].lines[j]
    <3>1. PICK i, j : /\ i \in DOMAIN pool /\ j \in DOMAIN pool[i].lines
                      /\ p = <<"pool", i, j>> /\ LineAt(p) = pool[i].lines[j]
      BY <2>2
    <3>2. LineAt(q) \in Elems(Pending)
      BY <1>5, <1>7, <3>1
    <3>3. PICK k, l : /\ k \in DOMAIN pool /\ l \in DOMAIN pool[k].lines
                      /\ q = <<"pool", k, l>> /\ LineAt(q) = pool[k].lines[l]
      <4>1. LineAt(q) \notin Elems(files) /\ LineAt(q) \in 1 .. t
        BY <1>2, <3>2
      <4> QED BY <1>4, <1>6, <2>0, <4>1, Zenon
    <3>4. i = k /\ j = l
      BY <1>2, <1>3, <1>7, <3>1, <3>3 DEF Disjoint
    <3> QED BY <3>1, <3>3, <3>4
  <2>3. CASE \E f \in DOMAIN files : \E j \in DOMAIN files[f] :
               p = <<"file", f, j>> /\ LineAt(p) = files[f][j]
    <3>1. PICK f, j : /\ f \in DOMAIN files /\ j \in DOMAIN files[f]
                      /\ p = <<"file", f, j>> /\ LineAt(p) = files[f][j]
      BY <2>3
    <3>2. LineAt(q) \in Elems(files)
      BY <1>6, <1>7, <3>1
    <3>3. PICK k, l : /\ k \in DOMAIN files /\ l \in DOMAIN files[k]
                      /\ q = <<"file", k, l>> /\ LineAt(q) = files[k][l]
      <4>1. LineAt(q) \notin Elems(Pending) /\ LineAt(q) \in 1 .. t
        BY <1>2, <3>2
      <4> QED BY <1>4, <1>5, <2>0, <4>1, Zenon
    <3>4. files[f][j] = files[k][l]
      BY <1>7, <3>1, <3>3
    <3>5. f = k /\ j = l
      BY <1>2, <3>1, <3>3, <3>4 DEF Disjoint
    <3> QED BY <3>1, <3>3, <3>5
  <2> QED BY <2>1, <2>2, <2>3, PlaceCases
<1>8. \A x : x \in placed <=> x \in (t + 1) .. (t + n) \/ x \in Elems(Pending) \/ x \in Elems(files)
  <2>1. ASSUME NEW p \in Places
        PROVE  \/ LineAt(p) \in (t + 1) .. (t + n)
               \/ LineAt(p) \in Elems(Pending) \/ LineAt(p) \in Elems(files)
    BY <1>4, <1>5, <1>6, PlaceCases
  <2>2. ASSUME NEW x \in (t + 1) .. (t + n)
        PROVE  x \in placed
    <3>1. PICK j \in Int : j = x - t
      OBVIOUS
    <3>2. j \in 1 .. n /\ x = t + j
      BY <3>1
    <3>3. j \in DOMAIN buffer /\ buffer[j] = x
      BY <1>1, <3>2
    <3> QED BY <3>3, PlacesOf
  <2>3. ASSUME NEW x \in Elems(Pending)
        PROVE  x \in placed
    <3>1. PICK i, j : i \in DOMAIN Pending /\ j \in DOMAIN Pending[i] /\ x = Pending[i][j]
      BY <2>3, ElemsDef
    <3>2. i \in DOMAIN pool /\ j \in DOMAIN pool[i].lines /\ x = pool[i].lines[j]
      BY <1>3, <3>1
    <3> QED BY <3>2, PlacesOf
  <2>4. ASSUME NEW x \in Elems(files)
        PROVE  x \in placed
    <3>1. PICK f, j : f \in DOMAIN files /\ j \in DOMAIN files[f] /\ x = files[f][j]
      BY <2>4, ElemsDef
    <3> QED BY <3>1, PlacesOf
  <2> QED BY <2>1, <2>2, <2>3, <2>4
<1> HIDE DEF placed
<1>9. /\ placed \cap lost = {}
      /\ placed \cup lost \subseteq 1 .. t + n
      /\ (1 .. t + n) \ (placed \cup lost) = (1 .. t) \ Kept
  <2>1. \A x \in 1 .. t : x \in 1 .. t + n /\ x \notin (t + 1) .. (t + n)
    BY <1>1
  <2>2. \A x \in (t + 1) .. (t + n) : x \in 1 .. t + n /\ x \notin 1 .. t
    BY <1>1
  <2>3. \A x \in 1 .. t + n : x \in 1 .. t \/ x \in (t + 1) .. (t + n)
    BY <1>1
  <2> QED BY <1>2, <1>8, <2>1, <2>2, <2>3
<1>10. /\ \A p, q \in Places : LineAt(p) = LineAt(q) => p = q
       /\ placed \cap lost = {}
       /\ placed \cup lost \subseteq 1 .. logged
       /\ Cardinality((1 .. logged) \ (placed \cup lost)) = noOfLogLinesDropped
  BY <1>1, <1>2, <1>7, <1>9
<1> QED BY <1>10 DEF LinesAccounted, placed

\* Every line that was logged is in exactly one place, except those the full buffer
\* dropped, whatever fails and whatever is closed under whom.
THEOREM LinesAreAccounted == Spec => []LinesAccounted
<1>1. TypeInv /\ Lines => LinesAccounted
  BY LinesAccount
<1> QED BY <1>1, TypeInit, TypeStep, LinesInit, LinesStep, PTL DEF Spec

-----------------------------------------------------------------------------
(* Whose descriptors the requests hold, as long as nothing raced.           *)

\* What may be submitted in one step: a write of the open log, the open of the next file,
\* the close of the current one.
MaySubmit(N) ==
  /\ \A q \in N : q.op = "write" => /\ q.fd = logfile /\ q.file = At(logfile)
                                    /\ log_state = "LOG_IS_OPEN"
                                    /\ log_state' = "LOG_IS_OPEN" \/ \E p \in N : p.cb = "close_log"
  /\ \A q \in N : q.op = "open" => log_state # "OPENING_LOG" /\ log_state' = "OPENING_LOG"
  /\ \A q \in N : q.op = "close" => /\ q.fd = logfile /\ q.file = At(logfile)
                                    /\ log_state = "LOG_IS_OPEN" /\ log_state' # "LOG_IS_OPEN"
                                    /\ ~Writing /\ \A p \in N : p.op # "write"
  /\ \A q \in N : q.cb = "close_log" => q.op = "write" /\ log_state' # "LOG_IS_OPEN"
  /\ \/ log_state' = log_state
     \/ log_state = "LOG_NOT_OPEN" /\ log_state' = "OPENING_LOG"
     \/ /\ log_state = "LOG_IS_OPEN" /\ log_state' # "LOG_IS_OPEN"
        /\ \E q \in N : q.fd = logfile /\ (q.cb = "close_log" \/ q.op = "close")

\* Requests that may be submitted respect who holds which descriptor.
LEMMA OwnSubmit ==
  ASSUME TypeInv, Own, NEW N, Added(N), MaySubmit(N),
         UNCHANGED <<logfile, fds, finished, strayed>>
  PROVE  Own'
<1>1. /\ Outstanding' = Outstanding \cup N
      /\ \A fd : At(fd)' = At(fd)
      /\ \A k, fd : Opened(k, fd)' <=> Opened(k, fd)
  BY DEF Outstanding, Added, At, Opened
<1>2. /\ \A i \in DOMAIN pool : i \in DOMAIN pool' /\ pool'[i] = pool[i]
      /\ \A i \in DOMAIN pool' \ DOMAIN pool : pool'[i] \in N
      /\ \A i, k \in DOMAIN pool' \ DOMAIN pool : pool'[i].op = pool'[k].op => i = k
      /\ N \subseteq ToSet(pool')
  BY DEF Added
<1>3. InUse' => InUse
  BY <1>1 DEF InUse, Writing, MaySubmit
<1>4. Writes'
  <2>1. \A q \in Outstanding' : q.op = "write" => q.fd = logfile' /\ q.file = At(logfile)'
    BY <1>1 DEF Own, Writes, MaySubmit
  <2>2. log_state' = "LOG_IS_OPEN" => \A q \in Outstanding' : q.cb # "close_log"
    BY <1>1 DEF Own, Writes, MaySubmit
  <2>3. log_state' # "LOG_IS_OPEN" /\ Writing' => \E q \in Outstanding' : q.cb = "close_log"
    BY <1>1 DEF Own, Writes, MaySubmit, Writing
  <2>4. InUse' /\ logfile' \in 1..MaxFd => fds'[logfile'] > 0
    BY <1>3 DEF Own, Writes
  <2> QED BY <2>1, <2>2, <2>3, <2>4 DEF Writes
<1>5. Opens'
  <2>1. log_state' # "OPENING_LOG" => \A q \in Outstanding' : q.op # "open"
    BY <1>1 DEF Own, Opens, MaySubmit
  <2>2. (\E q \in N : q.op = "open") => \A q \in Outstanding : q.op # "open"
    BY DEF Own, Opens, MaySubmit
  <2>3. ASSUME NEW i \in DOMAIN pool', pool'[i].op = "open"
        PROVE  (i \in DOMAIN pool /\ pool[i].op = "open") \/ (pool'[i] \in N /\ i \notin DOMAIN pool)
    BY <1>2, <2>3
  <2>4. /\ \A i \in DOMAIN pool : pool[i] \in Outstanding
        /\ \A i \in DOMAIN finished : finished[i] \in Outstanding
    BY DEF Outstanding, ToSet
  <2>5. \A i, k \in DOMAIN pool' : pool'[i].op = "open" /\ pool'[k].op = "open" => i = k
    BY <1>2, <2>2, <2>3, <2>4 DEF Own, Opens
  <2>6. \A i \in DOMAIN pool', k \in DOMAIN finished :
          ~(pool'[i].op = "open" /\ finished[k].op = "open")
    BY <1>2, <2>2, <2>3, <2>4 DEF Own, Opens
  <2>7. \A fd \in 1..MaxFd, k \in DOMAIN finished : Opened(k, fd) =>
          fds[fd] > 0 /\ (InUse' => fd # logfile)
    BY <1>3 DEF Own, Opens
  <2>8. \A i, k \in DOMAIN finished : finished[i].op = "open" /\ finished[k].op = "open" => i = k
    BY DEF Own, Opens
  <2> QED BY <1>1, <2>1, <2>5, <2>6, <2>7, <2>8 DEF Opens
<1>6. Closes'
  <2>1. \A i \in DOMAIN pool' : pool'[i].op = "close" => At(pool'[i].fd) = pool'[i].file
    BY <1>2 DEF Own, Closes, MaySubmit
  <2> SUFFICES ASSUME NEW fd \in 1..MaxFd, NEW i \in DOMAIN pool', Closing(i, fd)'
               PROVE  /\ fds[fd] > 0
                      /\ InUse' => fd # logfile
                      /\ \A m \in DOMAIN pool' : Closing(m, fd)' => m = i
                      /\ \A k \in DOMAIN finished : ~Opened(k, fd)
    BY <2>1 DEF Closes, At, Opened
  <2>2. ASSUME NEW m \in DOMAIN pool', m \in DOMAIN pool, Closing(m, fd)'
        PROVE  Closing(m, fd)
    BY <1>2, <2>2 DEF Closing
  <2>3. ASSUME NEW m \in DOMAIN pool', m \notin DOMAIN pool, Closing(m, fd)'
        PROVE  /\ fd = logfile /\ log_state = "LOG_IS_OPEN" /\ log_state' # "LOG_IS_OPEN"
               /\ ~Writing /\ \A p \in N : p.op # "write"
    BY <1>2, <2>3 DEF Closing, MaySubmit
  <2>4. CASE i \in DOMAIN pool
    <3>1. Closing(i, fd)
      BY <2>2, <2>4
    <3>2. ~(InUse /\ fd = logfile)
      BY <2>4, <3>1 DEF Own, Closes
    <3>3. \A m \in DOMAIN pool' : Closing(m, fd)' => m \in DOMAIN pool
      BY <2>3, <3>2 DEF InUse
    <3> QED BY <1>3, <2>2, <2>4, <3>1, <3>3 DEF Own, Closes
  <2>5. CASE i \notin DOMAIN pool
    <3>1. /\ fd = logfile /\ log_state = "LOG_IS_OPEN" /\ log_state' # "LOG_IS_OPEN"
          /\ ~Writing /\ \A p \in N : p.op # "write"
      BY <2>3, <2>5
    <3>2. InUse /\ ~InUse'
      BY <1>1, <3>1 DEF InUse, Writing
    <3>3. fds[fd] > 0
      BY <3>1, <3>2 DEF Own, Writes
    <3>4. \A k \in DOMAIN finished : ~Opened(k, fd)
      BY <3>1, <3>2 DEF Own, Opens
    <3>5. \A m \in DOMAIN pool' : Closing(m, fd)' => m \notin DOMAIN pool
      BY <2>2, <3>1, <3>2 DEF Own, Closes
    <3>6. \A m \in DOMAIN pool' : Closing(m, fd)' => m = i
      BY <1>2, <2>5, <3>5 DEF Closing
    <3> QED BY <3>2, <3>3, <3>4, <3>6
  <2> QED BY <2>4, <2>5
<1>7. Held'
  <2> SUFFICES ASSUME NEW fd \in 1..MaxFd, fds[fd] > 0
               PROVE  \/ log_state' = "LOG_IS_OPEN" /\ logfile = fd
                      \/ \E q \in Outstanding' : q.cb = "close_log" /\ q.fd = fd
                      \/ \E i \in DOMAIN pool' : Closing(i, fd)'
                      \/ \E k \in DOMAIN finished : Opened(k, fd)
    BY <1>1 DEF Held
  <2>1. CASE log_state = "LOG_IS_OPEN" /\ logfile = fd /\ log_state' # "LOG_IS_OPEN"
    <3>1. PICK q \in N : q.fd = logfile /\ (q.cb = "close_log" \/ q.op = "close")
      BY <2>1 DEF MaySubmit
    <3>2. PICK i \in DOMAIN pool' : pool'[i] = q
      BY <1>2 DEF ToSet
    <3> QED BY <1>1, <2>1, <3>1, <3>2 DEF Closing
  <2>2. ASSUME NEW i \in DOMAIN pool, Closing(i, fd)
        PROVE  Closing(i, fd)' /\ i \in DOMAIN pool'
    BY <1>2, <2>2 DEF Closing
  <2> QED BY <1>1, <2>1, <2>2 DEF Own, Held
<1> QED BY <1>4, <1>5, <1>6, <1>7 DEF Own

\* LogLine respects it.
LEMMA OwnLine ==
  ASSUME TypeInv, Own, LogLine
  PROVE  Own'
<1>1. LineKept
  BY LineCases
<1>2. UNCHANGED <<logfile, fds, finished, strayed>>
  BY <1>1 DEF LineKept
<1>3. OpenRequest.op = "open" /\ OpenRequest.cb = "on_log_open"
  BY OpenClose DEF TypeInv
<1>4. CASE Added({}) /\ log_state' = log_state
  <2>1. MaySubmit({})
    BY <1>4 DEF MaySubmit
  <2> QED BY <1>2, <1>4, <2>1, OwnSubmit
<1>5. CASE log_state = "LOG_NOT_OPEN" /\ log_state' = "OPENING_LOG" /\ Added({OpenRequest})
  <2>1. MaySubmit({OpenRequest})
    BY <1>3, <1>5 DEF MaySubmit
  <2> QED BY <1>2, <1>5, <2>1, OwnSubmit
<1>6. {} \cup {OpenRequest} = {OpenRequest}
  OBVIOUS
<1> QED BY <1>1, <1>4, <1>5, <1>6 DEF LineKept, Reopens

\* LogBatch respects it, unless a refused batch raced with a write.
LEMMA OwnBatch ==
  ASSUME TypeInv, Own, LogBatch, ~raced'
  PROVE  Own'
<1>0. PICK b : b = offer(logged + 1)
  OBVIOUS
<1>1. /\ log_state = "LOG_IS_OPEN"
      /\ UNCHANGED <<logfile, fds, finished, strayed>>
      /\ BatchWritten(b) \/ BatchRotates(b) \/ BatchRefused(b) \/ BatchForgotten(b)
  BY <1>0, BatchCases
<1>2. b \in Seq(Nat) /\ At(logfile) \in Int
  <2>1. TypeOK /\ logfile \in Int
    BY DEF TypeInv, TypeOK
  <2>2. At(logfile) \in Foreign .. Len(files) /\ Foreign \in Int /\ Len(files) \in Nat
    BY <2>1, AtType
  <2> QED BY <1>0, <2>1, <2>2, OfferType
<1>3. OpenRequest.op = "open" /\ OpenRequest.cb = "on_log_open"
  BY OpenClose DEF TypeInv
<1>4. CASE BatchWritten(b)
  <2>1. PICK w : w = WriteRequest(b, FALSE)
    OBVIOUS
  <2>2. /\ w.op = "write" /\ w.fd = logfile /\ w.file = At(logfile) /\ w.cb = "on_log_write"
    BY <1>2, <2>1, NewWellFormed
  <2>3. Added({w}) /\ log_state' = log_state
    BY <1>4, <2>1 DEF BatchWritten
  <2>4. MaySubmit({w})
    BY <1>1, <2>2, <2>3 DEF MaySubmit
  <2> QED BY <1>1, <2>3, <2>4, OwnSubmit
<1>5. CASE BatchRotates(b)
  <2>1. PICK w : w = WriteRequest(b, TRUE)
    OBVIOUS
  <2>2. /\ w.op = "write" /\ w.fd = logfile /\ w.file = At(logfile) /\ w.cb = "close_log"
    BY <1>2, <2>1, NewWellFormed
  <2>3. Reopens({w})
    BY <1>5, <2>1 DEF BatchRotates
  <2>4. CASE log_state' = "LOG_NOT_OPEN" /\ Added({w})
    <3>1. MaySubmit({w})
      BY <1>1, <2>2, <2>4 DEF MaySubmit
    <3> QED BY <1>1, <2>4, <3>1, OwnSubmit
  <2>5. CASE log_state' = "OPENING_LOG" /\ Added({w} \cup {OpenRequest})
    <3>1. MaySubmit({w} \cup {OpenRequest})
      BY <1>1, <1>3, <2>2, <2>5 DEF MaySubmit
    <3> QED BY <1>1, <2>5, <3>1, OwnSubmit
  <2> QED BY <2>3, <2>4, <2>5 DEF Reopens
<1>6. CASE BatchRefused(b)
  <2>1. PICK w : w = CloseRequest(At(logfile))
    OBVIOUS
  <2>2. w.op = "close" /\ w.fd = logfile /\ w.file = At(logfile) /\ w.cb = "on_log_close"
    BY <1>2, <2>1, OpenClose DEF TypeInv
  <2>3. Reopens({w}) /\ ~Writing
    BY <1>6, <2>1 DEF BatchRefused
  <2>4. CASE log_state' = "LOG_NOT_OPEN" /\ Added({w})
    <3>1. MaySubmit({w})
      BY <1>1, <2>2, <2>3, <2>4 DEF MaySubmit
    <3> QED BY <1>1, <2>4, <3>1, OwnSubmit
  <2>5. CASE log_state' = "OPENING_LOG" /\ Added({w} \cup {OpenRequest})
    <3>1. MaySubmit({w} \cup {OpenRequest})
      BY <1>1, <1>3, <2>2, <2>3, <2>5 DEF MaySubmit
    <3> QED BY <1>1, <2>5, <3>1, OwnSubmit
  <2> QED BY <2>3, <2>4, <2>5 DEF Reopens
<1>7. CASE BatchForgotten(b)
  <2>1. PICK N : N = {}
    OBVIOUS
  <2>2. Added(N) /\ log_state' = log_state
    BY <1>7, <2>1, AddNone DEF BatchForgotten, TypeInv
  <2>3. MaySubmit(N)
    BY <2>1, <2>2 DEF MaySubmit
  <2> QED BY <1>1, <2>2, <2>3, OwnSubmit
<1> QED BY <1>1, <1>4, <1>5, <1>6, <1>7

\* A finished request keeps its operation, descriptor, file and callback.
Alike(p, q) == p.op = q.op /\ p.fd = q.fd /\ p.file = q.file /\ p.cb = q.cb /\ p.lines = q.lines

\* The requests under way are the same but for the results.
LEMMA MovedAlike ==
  ASSUME NEW i \in DOMAIN pool, NEW r, Moved(i, r), pool[i] \in RequestType
  PROVE  /\ \A p \in Outstanding' : \E q \in Outstanding : Alike(p, q)
         /\ \A q \in Outstanding : \E p \in Outstanding' : Alike(p, q)
         /\ Writing' <=> Writing
         /\ log_state' = log_state => (InUse' <=> InUse)
<1>1. PICK m : m = [pool[i] EXCEPT !.result = r] /\ Alike(m, pool[i])
  <2>1. PICK q \in RequestType : q = pool[i]
    OBVIOUS
  <2>2. PICK m : m = [q EXCEPT !.result = r]
    OBVIOUS
  <2>3. Alike(m, q)
    BY <2>2 DEF RequestType, Alike
  <2> QED BY <2>1, <2>2, <2>3
<1>2. /\ ToSet(pool) = ToSet(pool') \cup {pool[i]}
      /\ ToSet(finished') = ToSet(finished) \cup {m}
  BY <1>1 DEF Moved
<1>3. \A q : Alike(q, q)
  BY DEF Alike
<1>4. \A p \in Outstanding' : \E q \in Outstanding : Alike(p, q)
  BY <1>1, <1>2, <1>3 DEF Outstanding
<1>5. \A q \in Outstanding : \E p \in Outstanding' : Alike(p, q)
  BY <1>1, <1>2, <1>3 DEF Outstanding
<1>6. Writing' <=> Writing
  BY <1>4, <1>5 DEF Writing, Alike
<1> QED BY <1>4, <1>5, <1>6 DEF InUse

\* A request finishes.  Only the descriptor d changes: one that an open took, or one that
\* a close gave up.
Changes(i, r, d) ==
  /\ \A fd \in 1 .. MaxFd : fd # d => fds'[fd] = fds[fd]
  /\ \/ pool[i].op = "open" /\ r = d /\ d \in 1 .. MaxFd /\ fds[d] = Free /\ fds'[d] > 0
     \/ pool[i].op = "open" /\ r = -1 /\ d = -1
     \/ pool[i].op = "write" /\ d = -1
     \/ pool[i].op = "close" /\ d = pool[i].fd /\ (d \in 1 .. MaxFd => fds'[d] = Free)

\* A request that finishes respects it, and did not stray.
LEMMA OwnMoved ==
  ASSUME TypeInv, Own, NEW i \in 1 .. Len(pool), NEW r \in Int, Moved(i, r),
         pool[i] \in RequestType, UNCHANGED <<log_state, logfile>>, ~strayed',
         NEW d \in Int, Changes(i, r, d)
  PROVE  Own'
<1>0. i \in DOMAIN pool
  BY LenProperties DEF TypeInv, TypeOK
<1>1. /\ \A p \in Outstanding' : \E q \in Outstanding : Alike(p, q)
      /\ \A q \in Outstanding : \E p \in Outstanding' : Alike(p, q)
      /\ Writing' <=> Writing
      /\ InUse' <=> InUse
  BY <1>0, MovedAlike
<1>2. /\ \A j \in DOMAIN pool' : Skip(i, j) \in DOMAIN pool \ {i} /\ pool'[j] = pool[Skip(i, j)]
      /\ \A j, k \in DOMAIN pool' : Skip(i, j) = Skip(i, k) => j = k
      /\ \A k \in DOMAIN pool \ {i} : \E j \in DOMAIN pool' : k = Skip(i, j)
  BY DEF Moved
<1>3. PICK n \in DOMAIN finished' :
        /\ n \notin DOMAIN finished
        /\ finished'[n] = [pool[i] EXCEPT !.result = r]
        /\ \A m \in DOMAIN finished' \ DOMAIN finished : m = n
        /\ \A k \in DOMAIN finished : k \in DOMAIN finished' /\ finished'[k] = finished[k]
  BY DEF Moved
<1>4. finished'[n].op = pool[i].op /\ finished'[n].result = r
  BY <1>3 DEF RequestType
<1>5. Free = 0 /\ \A fd \in 1 .. MaxFd : fds[fd] \in Int
  <2>1. /\ \A fd \in 1 .. MaxFd : fds[fd] \in Foreign .. Len(files)
        /\ Foreign \in Int /\ Len(files) \in Nat
    BY AtType DEF TypeInv
  <2> QED BY <2>1 DEF Free
<1>6. \A fd \in 1 .. MaxFd, j \in DOMAIN pool : Closing(j, fd) /\ j # i => fd # d
  <2> SUFFICES ASSUME NEW fd \in 1 .. MaxFd, NEW j \in DOMAIN pool, Closing(j, fd), j # i, fd = d
               PROVE  FALSE
    OBVIOUS
  <2>1. fds[fd] > 0 /\ \A m \in DOMAIN pool : Closing(m, fd) => m = j
    BY DEF Own, Closes
  <2>2. Closing(i, fd)
    BY <1>0, <1>5, <2>1 DEF Changes, Closing
  <2> QED BY <1>0, <2>1, <2>2
<1>7. \A fd \in 1 .. MaxFd, k \in DOMAIN finished : Opened(k, fd) => fd # d
  <2> SUFFICES ASSUME NEW fd \in 1 .. MaxFd, NEW k \in DOMAIN finished, Opened(k, fd), fd = d
               PROVE  FALSE
    OBVIOUS
  <2>1. fds[fd] > 0
    BY DEF Own, Opens
  <2>2. Closing(i, fd)
    BY <1>0, <1>5, <2>1 DEF Changes, Closing
  <2> QED BY <1>0, <2>2 DEF Own, Closes
<1>8. InUse /\ logfile \in 1 .. MaxFd => fds[logfile] > 0 /\ logfile # d
  <2> SUFFICES ASSUME InUse, logfile \in 1 .. MaxFd
               PROVE  fds[logfile] > 0 /\ logfile # d
    OBVIOUS
  <2>1. fds[logfile] > 0
    BY DEF Own, Writes
  <2>2. ~Closing(i, logfile)
    BY <1>0 DEF Own, Closes
  <2> QED BY <1>0, <1>5, <2>1, <2>2 DEF Changes, Closing
<1>9. ASSUME NEW k \in DOMAIN finished', NEW fd \in 1 .. MaxFd, Opened(k, fd)'
      PROVE  \/ k \in DOMAIN finished /\ Opened(k, fd)
             \/ k = n /\ pool[i].op = "open" /\ fd = d
  BY <1>3, <1>4, <1>9 DEF Opened, Changes
<1>10. InUse => At(logfile)' = At(logfile)
  BY <1>8 DEF At, Changes
<1>11. Writes'
  <2>1. \A q \in Outstanding' : q.op = "write" => q.fd = logfile' /\ q.file = At(logfile)'
    <3> SUFFICES ASSUME NEW p \in Outstanding', p.op = "write"
                 PROVE  p.fd = logfile' /\ p.file = At(logfile)'
      OBVIOUS
    <3>1. PICK q \in Outstanding : Alike(p, q)
      BY <1>1
    <3>2. InUse
      BY <3>1 DEF InUse, Writing, Alike
    <3> QED BY <1>10, <3>1, <3>2 DEF Own, Writes, Alike
  <2>2. log_state' = "LOG_IS_OPEN" => \A q \in Outstanding' : q.cb # "close_log"
    BY <1>1 DEF Own, Writes, Alike
  <2>3. log_state' # "LOG_IS_OPEN" /\ Writing' => \E q \in Outstanding' : q.cb = "close_log"
    BY <1>1 DEF Own, Writes, Alike
  <2>4. InUse' /\ logfile' \in 1..MaxFd => fds'[logfile'] > 0
    BY <1>1, <1>8 DEF Changes
  <2> QED BY <2>1, <2>2, <2>3, <2>4 DEF Writes
<1>12. Opens'
  <2>1. log_state' # "OPENING_LOG" => \A q \in Outstanding' : q.op # "open"
    BY <1>1 DEF Own, Opens, Alike
  <2>2. \A j, k \in DOMAIN pool' : pool'[j].op = "open" /\ pool'[k].op = "open" => j = k
    BY <1>2 DEF Own, Opens
  <2>3. pool[i].op = "open" => /\ \A k \in DOMAIN finished : finished[k].op # "open"
                               /\ \A j \in DOMAIN pool' : pool'[j].op # "open"
    BY <1>0, <1>2 DEF Own, Opens
  <2>a. ASSUME NEW k \in DOMAIN finished', finished'[k].op = "open"
        PROVE  \/ k \in DOMAIN finished /\ finished[k].op = "open" /\ pool[i].op # "open"
               \/ k = n /\ pool[i].op = "open"
    <3>1. CASE k \in DOMAIN finished
      BY <1>3, <2>a, <2>3, <3>1
    <3>2. CASE k \notin DOMAIN finished
      <4>1. k = n
        BY <1>3, <3>2
      <4> QED BY <1>4, <2>a, <4>1
    <3> QED BY <3>1, <3>2
  <2>4. \A j, k \in DOMAIN finished' : finished'[j].op = "open" /\ finished'[k].op = "open" => j = k
    <3>1. \A j, k \in DOMAIN finished : finished[j].op = "open" /\ finished[k].op = "open" => j = k
      BY DEF Own, Opens
    <3> SUFFICES ASSUME NEW j \in DOMAIN finished', NEW k \in DOMAIN finished',
                        finished'[j].op = "open", finished'[k].op = "open"
                 PROVE  j = k
      OBVIOUS
    <3>2. CASE pool[i].op = "open"
      BY <2>a, <3>2
    <3>3. CASE pool[i].op # "open"
      BY <2>a, <3>1, <3>3
    <3> QED BY <3>2, <3>3
  <2>5. \A j \in DOMAIN pool', k \in DOMAIN finished' :
          ~(pool'[j].op = "open" /\ finished'[k].op = "open")
    BY <1>2, <2>a, <2>3 DEF Own, Opens
  <2>6. ASSUME NEW fd \in 1..MaxFd, NEW k \in DOMAIN finished', Opened(k, fd)'
        PROVE  fds'[fd] > 0 /\ (InUse' => fd # logfile')
    <3>1. CASE k \in DOMAIN finished /\ Opened(k, fd)
      <4>1. fds[fd] > 0 /\ (InUse => fd # logfile) /\ fd # d
        BY <1>7, <3>1 DEF Own, Opens
      <4> QED BY <1>1, <4>1 DEF Changes
    <3>2. CASE pool[i].op = "open" /\ fd = d
      BY <1>1, <1>8, <3>2 DEF Changes
    <3> QED BY <1>9, <2>6, <3>1, <3>2
  <2> QED BY <2>1, <2>2, <2>4, <2>5, <2>6 DEF Opens
<1>13. ASSUME NEW j \in DOMAIN pool', NEW fd, Closing(j, fd)'
       PROVE  Skip(i, j) \in DOMAIN pool /\ Skip(i, j) # i /\ Closing(Skip(i, j), fd)
  BY <1>2, <1>13 DEF Closing
<1>14. Closes'
  <2>1. ASSUME NEW j \in DOMAIN pool', pool'[j].op = "close"
        PROVE  At(pool[j].fd)' = pool'[j].file
    <3>1. PICK k \in DOMAIN pool : k = Skip(i, j) /\ k # i /\ pool'[j] = pool[k]
      BY <1>2
    <3>2. At(pool[k].fd) = pool[k].file
      BY <2>1, <3>1 DEF Own, Closes
    <3>3. pool[k].fd \in 1 .. MaxFd => pool[k].fd # d
      BY <1>6, <2>1, <3>1 DEF Closing
    <3> QED BY <3>1, <3>2, <3>3 DEF At, Changes
  <2>2. ASSUME NEW fd \in 1..MaxFd, NEW j \in DOMAIN pool', Closing(j, fd)'
        PROVE  /\ fds'[fd] > 0
               /\ InUse' => fd # logfile'
               /\ \A m \in DOMAIN pool' : Closing(m, fd)' => m = j
               /\ \A k \in DOMAIN finished' : ~Opened(k, fd)'
    <3>1. PICK k \in DOMAIN pool : k = Skip(i, j) /\ k # i /\ Closing(k, fd)
      BY <1>13, <2>2
    <3>2. /\ fds[fd] > 0
          /\ \A m \in DOMAIN pool : Closing(m, fd) => m = k
          /\ \A m \in DOMAIN finished : ~Opened(m, fd)
      BY <3>1 DEF Own, Closes
    <3>3. fd # d
      BY <1>6, <3>1
    <3>4. \A m \in DOMAIN pool' : Closing(m, fd)' => m = j
      BY <1>2, <1>13, <3>1, <3>2
    <3>5. \A m \in DOMAIN finished' : ~Opened(m, fd)'
      BY <1>9, <3>2, <3>3
    <3>6. InUse => fd # logfile
      BY <3>1 DEF Own, Closes
    <3>7. fds'[fd] > 0
      BY <3>2, <3>3 DEF Changes
    <3> QED BY <1>1, <3>4, <3>5, <3>6, <3>7
  <2> QED BY <2>1, <2>2 DEF Closes
<1>15. Held'
  <2> SUFFICES ASSUME NEW fd \in 1..MaxFd, fds'[fd] > 0
               PROVE  \/ log_state' = "LOG_IS_OPEN" /\ logfile' = fd
                      \/ \E q \in Outstanding' : q.cb = "close_log" /\ q.fd = fd
                      \/ \E j \in DOMAIN pool' : Closing(j, fd)'
                      \/ \E k \in DOMAIN finished' : Opened(k, fd)'
    BY DEF Held
  <2>1. CASE fd = d
    <3>1. pool[i].op = "open" /\ r = d
      BY <1>5, <2>1 DEF Changes
    <3>2. Opened(n, fd)'
      BY <1>3, <1>4, <2>1, <3>1 DEF Opened
    <3> QED BY <3>2
  <2>2. CASE fd # d
    <3>1. fds[fd] > 0
      BY <2>2 DEF Changes
    <3>2. CASE \E q \in Outstanding : q.cb = "close_log" /\ q.fd = fd
      BY <1>1, <3>2 DEF Alike
    <3>3. CASE \E j \in DOMAIN pool : Closing(j, fd)
      <4>1. PICK j \in DOMAIN pool : Closing(j, fd)
        BY <3>3
      <4>2. j # i
        BY <2>2, <4>1 DEF Changes, Closing
      <4>3. PICK k \in DOMAIN pool' : j = Skip(i, k) /\ pool'[k] = pool[j]
        BY <1>2, <4>2
      <4> QED BY <4>1, <4>3 DEF Closing
    <3>4. CASE \E k \in DOMAIN finished : Opened(k, fd)
      BY <1>3, <3>4 DEF Opened
    <3> QED BY <3>1, <3>2, <3>3, <3>4 DEF Own, Held
  <2> QED BY <2>1, <2>2
<1> QED BY <1>11, <1>12, <1>14, <1>15 DEF Own

\* The pool respects it.
LEMMA OwnPool ==
  ASSUME TypeInv, Own, NEW i, RunOpen(i) \/ RunWrite(i) \/ RunClose(i)
  PROVE  Own'
<1>0. /\ TypeOK /\ fds \in [1 .. MaxFd -> Foreign .. Len(files)]
      /\ Len(files) \in Nat /\ Foreign = -1 /\ Free = 0 /\ pool \in Seq(RequestType)
  BY LenProperties DEF TypeInv, TypeOK, Foreign, Free
<1>1. CASE RunOpen(i)
  <2>1. i \in 1 .. Len(pool) /\ pool[i].op = "open" /\ strayed' = strayed
    BY <1>0, <1>1, LenProperties DEF RunOpen, Running
  <2>2. CASE \E fd \in 1..MaxFd :
               fds[fd] = Free /\ fds' = [fds EXCEPT ![fd] = Len(files) + 1] /\ Finish(i, fd)
    <3>1. PICK fd \in 1..MaxFd :
               fds[fd] = Free /\ fds' = [fds EXCEPT ![fd] = Len(files) + 1] /\ Finish(i, fd)
      BY <2>2
    <3>2. Moved(i, fd) /\ pool[i] \in RequestType /\ UNCHANGED <<log_state, logfile>>
      BY <1>0, <2>1, <3>1, FinishMoves DEF Finish
    <3>3. Changes(i, fd, fd)
      BY <1>0, <2>1, <3>1 DEF Changes
    <3> QED BY <2>1, <3>2, <3>3, OwnMoved DEF Own
  <2>3. CASE Finish(i, -1) /\ fds' = fds
    <3>2. Moved(i, -1) /\ pool[i] \in RequestType /\ UNCHANGED <<log_state, logfile>>
      BY <1>0, <2>1, <2>3, FinishMoves DEF Finish
    <3>3. Changes(i, -1, -1)
      BY <2>1, <2>3 DEF Changes
    <3> QED BY <2>1, <3>2, <3>3, OwnMoved DEF Own
  <2> QED BY <1>1, <2>2, <2>3 DEF RunOpen
<1>2. CASE RunWrite(i)
  <2>1. /\ i \in 1 .. Len(pool) /\ pool[i] \in RequestType /\ pool[i].op = "write"
        /\ \E n \in Int : Moved(i, n)
        /\ strayed' = (strayed \/ At(pool[i].fd) # pool[i].file)
        /\ UNCHANGED <<log_state, logfile, fds>>
    BY <1>2, WriteLands
  <2>2. pool[i] \in Outstanding
    BY <1>0, <2>1, LenProperties DEF Outstanding, ToSet
  <2>3. ~strayed'
    BY <2>1, <2>2 DEF Own, Writes
  <2>4. PICK n \in Int : Moved(i, n)
    BY <2>1
  <2>5. Changes(i, n, -1)
    BY <2>1 DEF Changes
  <2> QED BY <2>1, <2>3, <2>4, <2>5, OwnMoved
<1>3. CASE RunClose(i)
  <2>1. /\ i \in 1 .. Len(pool) /\ i \in DOMAIN pool /\ pool[i].op = "close"
        /\ strayed' = (strayed \/ At(pool[i].fd) # pool[i].file)
        /\ fds' = IF pool[i].fd \in 1..MaxFd THEN [fds EXCEPT ![pool[i].fd] = Free] ELSE fds
        /\ Finish(i, IF At(pool[i].fd) = Free THEN -1 ELSE 0)
    BY <1>0, <1>3, LenProperties DEF RunClose, Running
  <2>2. PICK n \in Int : Finish(i, n)
    BY <2>1
  <2>3. /\ Moved(i, n) /\ pool[i] \in RequestType /\ UNCHANGED <<log_state, logfile>>
        /\ pool[i].fd \in Int
    BY <1>0, <2>1, <2>2, FinishMoves DEF Finish, RequestType
  <2>4. Changes(i, n, pool[i].fd)
    BY <1>0, <2>1 DEF Changes
  <2>5. ~strayed'
    BY <2>1 DEF Own, Closes
  <2> QED BY <2>1, <2>3, <2>4, <2>5, OwnMoved
<1> QED BY <1>1, <1>2, <1>3

\* A request is called back, and what it held is closed if it was the last that used the file.
LEMMA OwnDropped ==
  ASSUME TypeInv, Own, NEW q, Called(q), q.op # "open", q.cb # "close_log",
         UNCHANGED <<log_state, logfile, fds, pool, strayed>>
  PROVE  Own'
<1>1. /\ Outstanding = Outstanding' \cup {q}
      /\ \A k \in DOMAIN finished' : k \in Nat /\ k + 1 \in DOMAIN finished \ {1}
                                /\ finished'[k] = finished[k + 1]
      /\ \A k \in DOMAIN finished \ {1} : k \in Nat /\ k - 1 \in DOMAIN finished'
                                     /\ finished[k] = finished'[k - 1]
      /\ q = finished[1]
  BY DEF Called, Outstanding
<1>2. InUse' => InUse
  BY <1>1 DEF InUse, Writing
<1>3. /\ \A k \in DOMAIN finished' : \A fd : Opened(k, fd)' => Opened(k + 1, fd)
      /\ \A k \in DOMAIN finished : \A fd : Opened(k, fd) => k - 1 \in DOMAIN finished' /\ Opened(k - 1, fd)'
  BY <1>1 DEF Opened
<1>4. Writes'
  <2>1. \A p \in Outstanding' : p.op = "write" => p.fd = logfile' /\ p.file = At(logfile)'
    BY <1>1 DEF Own, Writes, At
  <2>2. log_state' = "LOG_IS_OPEN" => \A p \in Outstanding' : p.cb # "close_log"
    BY <1>1 DEF Own, Writes
  <2>3. log_state' # "LOG_IS_OPEN" /\ Writing' => \E p \in Outstanding' : p.cb = "close_log"
    BY <1>1 DEF Own, Writes, Writing
  <2>4. InUse' /\ logfile' \in 1..MaxFd => fds'[logfile'] > 0
    BY <1>2 DEF Own, Writes
  <2> QED BY <2>1, <2>2, <2>3, <2>4 DEF Writes
<1>5. Opens'
  <2>1. log_state' # "OPENING_LOG" => \A p \in Outstanding' : p.op # "open"
    BY <1>1 DEF Own, Opens
  <2>2. \A i, k \in DOMAIN finished' : finished'[i].op = "open" /\ finished'[k].op = "open" => i = k
    <3> SUFFICES ASSUME NEW i \in DOMAIN finished', NEW k \in DOMAIN finished',
                        finished'[i].op = "open", finished'[k].op = "open"
                 PROVE  i = k
      OBVIOUS
    <3>1. i + 1 = k + 1 /\ i \in Nat /\ k \in Nat
      BY <1>1 DEF Own, Opens
    <3> QED BY <3>1
  <2>3. \A i \in DOMAIN pool', k \in DOMAIN finished' : ~(pool'[i].op = "open" /\ finished'[k].op = "open")
    BY <1>1 DEF Own, Opens
  <2>4. \A fd \in 1..MaxFd, k \in DOMAIN finished' : Opened(k, fd)' =>
          fds'[fd] > 0 /\ (InUse' => fd # logfile')
    BY <1>1, <1>2, <1>3 DEF Own, Opens
  <2>5. \A i, k \in DOMAIN pool' : pool'[i].op = "open" /\ pool'[k].op = "open" => i = k
    BY DEF Own, Opens
  <2> QED BY <2>1, <2>2, <2>3, <2>4, <2>5 DEF Opens
<1>6. Closes'
  <2>1. \A i \in DOMAIN pool' : pool'[i].op = "close" => At(pool[i].fd)' = pool'[i].file
    BY DEF Own, Closes, At
  <2>2. ASSUME NEW fd \in 1..MaxFd, NEW i \in DOMAIN pool', Closing(i, fd)'
        PROVE  /\ fds'[fd] > 0
               /\ InUse' => fd # logfile'
               /\ \A m \in DOMAIN pool' : Closing(m, fd)' => m = i
               /\ \A k \in DOMAIN finished' : ~Opened(k, fd)'
    <3>1. Closing(i, fd) /\ i \in DOMAIN pool
      BY <2>2 DEF Closing
    <3>2. \A m \in DOMAIN pool' : Closing(m, fd)' => m \in DOMAIN pool /\ Closing(m, fd)
      BY DEF Closing
    <3>3. /\ fds[fd] > 0 /\ (InUse => fd # logfile)
          /\ \A m \in DOMAIN pool : Closing(m, fd) => m = i
          /\ \A k \in DOMAIN finished : ~Opened(k, fd)
      BY <3>1 DEF Own, Closes
    <3> QED BY <1>1, <1>2, <1>3, <3>2, <3>3
  <2> QED BY <2>1, <2>2 DEF Closes
<1>7. Held'
  <2> SUFFICES ASSUME NEW fd \in 1..MaxFd, fds[fd] > 0
               PROVE  \/ log_state = "LOG_IS_OPEN" /\ logfile = fd
                      \/ \E p \in Outstanding' : p.cb = "close_log" /\ p.fd = fd
                      \/ \E i \in DOMAIN pool : Closing(i, fd)
                      \/ \E k \in DOMAIN finished' : Opened(k, fd)'
    BY DEF Held, Closing
  <2> QED BY <1>1, <1>3 DEF Own, Held
<1> QED BY <1>4, <1>5, <1>6, <1>7 DEF Own

\* The last write that used the log file is called back and submits the file's close.
LEMMA OwnClosed ==
  ASSUME TypeInv, Own, NEW q, Called(q), q.op = "write",
         Added({CloseRequest(q.file)}), ~Writing',
         log_state' = log_state \/ (log_state = "LOG_IS_OPEN" /\ log_state' = "LOG_NOT_OPEN"),
         log_state' # "LOG_IS_OPEN",
         UNCHANGED <<logfile, fds, strayed>>
  PROVE  Own'
<1>1. PICK c : c = CloseRequest(q.file)
  OBVIOUS
<1>2. /\ c.op = "close" /\ c.cb = "on_log_close" /\ c.fd = logfile /\ c.file = q.file
  <2>1. q.file \in Int
    BY DEF Called, RequestType
  <2> QED BY <1>1, <2>1, OpenClose DEF TypeInv
<1>3. /\ q \in Outstanding /\ Outstanding' \cup {q} = Outstanding \cup {c}
      /\ \A k \in DOMAIN finished' : k \in Nat /\ k + 1 \in DOMAIN finished \ {1}
                                /\ finished'[k] = finished[k + 1]
      /\ \A k \in DOMAIN finished \ {1} : k \in Nat /\ k - 1 \in DOMAIN finished'
                                     /\ finished[k] = finished'[k - 1]
      /\ q = finished[1]
  <2>1. /\ ToSet(finished) = ToSet(finished') \cup {q}
        /\ ToSet(pool') = ToSet(pool) \cup {c}
    BY <1>1 DEF Called, Added
  <2>2. q \in Outstanding /\ Outstanding' \cup {q} = Outstanding \cup {c}
    BY <2>1 DEF Outstanding
  <2> QED BY <2>2 DEF Called
<1>4. /\ InUse /\ ~InUse' /\ q.fd = logfile /\ q.file = At(logfile)
      /\ logfile \in 1 .. MaxFd => fds[logfile] > 0
  BY <1>3 DEF InUse, Writing, Own, Writes
<1>5. /\ \A k \in DOMAIN finished' : \A fd : Opened(k, fd)' => Opened(k + 1, fd)
      /\ \A k \in DOMAIN finished : \A fd : Opened(k, fd) => k - 1 \in DOMAIN finished' /\ Opened(k - 1, fd)'
  BY <1>3 DEF Opened
<1>6. /\ \A i \in DOMAIN pool : i \in DOMAIN pool' /\ pool'[i] = pool[i]
      /\ \A i \in DOMAIN pool' \ DOMAIN pool : pool'[i] = c
      /\ \A i, k \in DOMAIN pool' \ DOMAIN pool : i = k
      /\ \E i \in DOMAIN pool' : pool'[i] = c
  <2>1. /\ \A i \in DOMAIN pool : i \in DOMAIN pool' /\ pool'[i] = pool[i]
        /\ \A i \in DOMAIN pool' \ DOMAIN pool : pool'[i] \in {c}
        /\ \A i, k \in DOMAIN pool' \ DOMAIN pool : pool'[i].op = pool'[k].op => i = k
        /\ {c} \subseteq ToSet(pool')
    BY <1>1 DEF Added
  <2> QED BY <2>1 DEF ToSet
<1>7. Writes'
  <2>1. \A p \in Outstanding' : p.op # "write"
    BY DEF Writing
  <2> QED BY <1>4, <2>1 DEF Writes, Writing, InUse
<1>8. Opens'
  <2>1. log_state' # "OPENING_LOG" => \A p \in Outstanding' : p.op # "open"
    BY <1>2, <1>3 DEF Own, Opens
  <2>2. \A i, k \in DOMAIN finished' : finished'[i].op = "open" /\ finished'[k].op = "open" => i = k
    <3> SUFFICES ASSUME NEW i \in DOMAIN finished', NEW k \in DOMAIN finished',
                        finished'[i].op = "open", finished'[k].op = "open"
                 PROVE  i = k
      OBVIOUS
    <3>1. i + 1 = k + 1 /\ i \in Nat /\ k \in Nat
      BY <1>3 DEF Own, Opens
    <3> QED BY <3>1
  <2>3. \A i \in DOMAIN pool' : pool'[i].op = "open" => i \in DOMAIN pool /\ pool[i].op = "open"
    BY <1>2, <1>6
  <2>4. \A i \in DOMAIN pool', k \in DOMAIN finished' : ~(pool'[i].op = "open" /\ finished'[k].op = "open")
    BY <1>3, <2>3 DEF Own, Opens
  <2>5. \A fd \in 1..MaxFd, k \in DOMAIN finished' : Opened(k, fd)' =>
          fds'[fd] > 0 /\ (InUse' => fd # logfile')
    BY <1>3, <1>4, <1>5 DEF Own, Opens
  <2>6. \A i, k \in DOMAIN pool' : pool'[i].op = "open" /\ pool'[k].op = "open" => i = k
    BY <2>3 DEF Own, Opens
  <2> QED BY <2>1, <2>2, <2>4, <2>5, <2>6 DEF Opens
<1>9. Closes'
  <2>1. ASSUME NEW i \in DOMAIN pool', pool'[i].op = "close"
        PROVE  At(pool[i].fd)' = pool'[i].file
    <3>1. At(pool'[i].fd) = pool'[i].file
      BY <1>2, <1>4, <1>6, <2>1 DEF Own, Closes
    <3> QED BY <3>1 DEF At
  <2>2. ASSUME NEW fd \in 1..MaxFd, NEW i \in DOMAIN pool', Closing(i, fd)'
        PROVE  /\ fds'[fd] > 0
               /\ InUse' => fd # logfile'
               /\ \A m \in DOMAIN pool' : Closing(m, fd)' => m = i
               /\ \A k \in DOMAIN finished' : ~Opened(k, fd)'
    <3>1. \A m \in DOMAIN pool' : Closing(m, fd)' =>
            (m \in DOMAIN pool /\ Closing(m, fd)) \/ (m \notin DOMAIN pool /\ fd = logfile)
      BY <1>2, <1>6 DEF Closing
    <3>2. \A m \in DOMAIN pool : Closing(m, fd) => fd # logfile
      BY <1>4 DEF Own, Closes
    <3>3. \A m \in DOMAIN pool' : Closing(m, fd)' => m = i
      <4>1. \A m, j \in DOMAIN pool : Closing(m, fd) /\ Closing(j, fd) => m = j
        BY DEF Own, Closes
      <4> QED BY <1>6, <2>2, <3>1, <3>2, <4>1
    <3>4. \A k \in DOMAIN finished : ~Opened(k, fd)
      <4>1. CASE fd = logfile
        BY <1>4, <4>1 DEF Own, Opens
      <4>2. CASE fd # logfile
        <5>1. i \in DOMAIN pool /\ Closing(i, fd)
          BY <2>2, <3>1, <4>2
        <5> QED BY <5>1 DEF Own, Closes
      <4> QED BY <4>1, <4>2
    <3>5. fds[fd] > 0
      BY <1>4, <2>2, <3>1 DEF Own, Closes
    <3> QED BY <1>3, <1>4, <1>5, <3>3, <3>4, <3>5
  <2> QED BY <2>1, <2>2 DEF Closes
<1>10. Held'
  <2> SUFFICES ASSUME NEW fd \in 1..MaxFd, fds[fd] > 0
               PROVE  \/ \E i \in DOMAIN pool' : Closing(i, fd)'
                      \/ \E k \in DOMAIN finished' : Opened(k, fd)'
    BY DEF Held
  <2>1. CASE fd = logfile
    BY <1>2, <1>6, <2>1 DEF Closing
  <2>2. CASE fd # logfile
    <3>1. ~\E p \in Outstanding : p.cb = "close_log" /\ p.fd = fd
      <4>1. \A p \in Outstanding : p.cb = "close_log" => p.op = "write"
        BY DEF TypeInv, Requests, WellFormed
      <4> QED BY <2>2, <4>1 DEF Own, Writes
    <3>2. \A i \in DOMAIN pool : Closing(i, fd) => i \in DOMAIN pool' /\ Closing(i, fd)'
      BY <1>6 DEF Closing
    <3> QED BY <1>5, <2>2, <3>1, <3>2 DEF Own, Held
  <2> QED BY <2>1, <2>2
<1> QED BY <1>7, <1>8, <1>9, <1>10 DEF Own

\* on_log_open respects it, unless it raced with a write.
LEMMA OwnOpened ==
  ASSUME TypeInv, Own, on_log_open, ~raced'
  PROVE  Own'
<1>1. PICK q : q = Head(finished) /\ Called(q) /\ q.cb = "on_log_open"
  BY CallbackCalls DEF on_log_open, TypeInv
<1>2. /\ logfile' = q.result /\ log_state' = "LOG_IS_OPEN" /\ ~Writing
      /\ UNCHANGED <<fds, pool, strayed>>
  BY <1>1 DEF on_log_open, Writing
<1>3. /\ q.op = "open" /\ q \in Outstanding /\ q.result \in (1 .. MaxFd) \cup {-1}
      /\ \A p \in Outstanding : p.cb = "close_log" => p.op = "write"
  BY <1>1, CalledWellFormed DEF WellFormed, TypeInv, Requests
<1>4. /\ Outstanding = Outstanding' \cup {q}
      /\ \A k \in DOMAIN finished' : k \in Nat /\ k + 1 \in DOMAIN finished \ {1}
                                /\ finished'[k] = finished[k + 1]
      /\ q = finished[1] /\ 1 \in DOMAIN finished
  BY <1>1, <1>2 DEF Called, Outstanding
<1>5. log_state = "OPENING_LOG"
  BY <1>3 DEF Own, Opens
<1>6. /\ \A k \in DOMAIN finished : finished[k].op = "open" => k = 1
      /\ \A i \in DOMAIN pool : pool[i].op # "open"
  BY <1>3, <1>4 DEF Own, Opens
<1>7. /\ \A k \in DOMAIN finished' : finished'[k].op # "open"
      /\ \A k \in DOMAIN finished' : \A fd : ~Opened(k, fd)'
  BY <1>4, <1>6 DEF Opened
<1>8. \A p \in Outstanding' : p.op # "open" /\ p.op # "write" /\ p.cb # "close_log"
  <2>1. \A p \in Outstanding' : p.op # "open"
    <3>1. Outstanding' = ToSet(pool) \cup ToSet(finished')
      BY <1>2 DEF Outstanding
    <3> QED BY <1>6, <1>7, <3>1 DEF ToSet
  <2> QED BY <1>2, <1>3, <1>4, <2>1 DEF Writing
<1>9. logfile' \in 1 .. MaxFd => Opened(1, logfile') /\ fds[logfile'] > 0
  <2>1. logfile' \in 1 .. MaxFd => Opened(1, logfile')
    BY <1>2, <1>3, <1>4 DEF Opened
  <2> QED BY <1>4, <2>1 DEF Own, Opens
<1>10. Writes'
  BY <1>2, <1>8, <1>9 DEF Writes, Writing
<1>11. Opens'
  BY <1>2, <1>6, <1>7, <1>8 DEF Opens
<1>12. Closes'
  <2>1. \A i \in DOMAIN pool' : pool'[i].op = "close" => At(pool[i].fd)' = pool'[i].file
    BY <1>2 DEF Own, Closes, At
  <2>2. ASSUME NEW fd \in 1..MaxFd, NEW i \in DOMAIN pool', Closing(i, fd)'
        PROVE  /\ fds'[fd] > 0
               /\ InUse' => fd # logfile'
               /\ \A m \in DOMAIN pool' : Closing(m, fd)' => m = i
               /\ \A k \in DOMAIN finished' : ~Opened(k, fd)'
    <3>1. Closing(i, fd) /\ i \in DOMAIN pool
      BY <1>2, <2>2 DEF Closing
    <3>2. \A m \in DOMAIN pool' : Closing(m, fd)' => m \in DOMAIN pool /\ Closing(m, fd)
      BY <1>2 DEF Closing
    <3>3. /\ fds[fd] > 0
          /\ \A m \in DOMAIN pool : Closing(m, fd) => m = i
          /\ \A k \in DOMAIN finished : ~Opened(k, fd)
      BY <3>1 DEF Own, Closes
    <3> QED BY <1>2, <1>4, <1>7, <1>9, <3>2, <3>3
  <2> QED BY <2>1, <2>2 DEF Closes
<1>13. Held'
  <2> SUFFICES ASSUME NEW fd \in 1..MaxFd, fds[fd] > 0
               PROVE  logfile' = fd \/ \E i \in DOMAIN pool' : Closing(i, fd)'
    BY <1>2 DEF Held
  <2>1. \/ \E i \in DOMAIN pool : Closing(i, fd)
        \/ \E k \in DOMAIN finished : Opened(k, fd)
    BY <1>2, <1>3, <1>5 DEF Own, Held, Writing
  <2>2. \A k \in DOMAIN finished : Opened(k, fd) => logfile' = fd
    BY <1>2, <1>4, <1>6 DEF Opened
  <2> QED BY <1>2, <2>1, <2>2 DEF Closing
<1> QED BY <1>2, <1>10, <1>11, <1>12, <1>13 DEF Own

\* The callbacks respect it, unless they raced with a write.
LEMMA OwnCallback ==
  ASSUME TypeInv, Own, Callback, ~raced'
  PROVE  Own'
<1>1. CASE on_log_open
  BY <1>1, OwnOpened
<1>2. PICK q : q = Head(finished)
  OBVIOUS
<1>3. Called(q) /\ q.file \in Foreign .. Len(files) /\ q \in RequestType /\ q \in Outstanding
      /\ WellFormed(q, Len(files))
  <2>1. Called(q)
    BY <1>2, CallbackCalls DEF Callback, on_log_open, CloseAfterWrite, on_log_write, on_log_close, TypeInv
  <2> QED BY <2>1, CalledWellFormed
<1>4. ASSUME close_log(q)
      PROVE  /\ Added({CloseRequest(q.file)}) /\ CloseRequest(q.file).op = "close"
             /\ ~Writing' /\ \A p \in Outstanding : p.op = "write" => p = q
  <2>1. Added({CloseRequest(q.file)}) /\ CloseRequest(q.file).op = "close"
    BY <1>3, <1>4, CloseAdds, OpenClose DEF TypeInv, RequestType
  <2>2. \A p \in ToSet(pool) \cup ToSet(Tail(finished)) : p.op # "write"
    BY <1>4 DEF close_log
  <2>3. finished' = Tail(finished)
    BY DEF Callback, on_log_open, CloseAfterWrite, on_log_write, on_log_close
  <2>4. ~Writing'
    BY <2>1, <2>2, <2>3 DEF Writing, Outstanding, Added
  <2>5. \A p \in Outstanding : p.op = "write" => p = q
    BY <1>3, <2>2, <2>3 DEF Outstanding, Called
  <2> QED BY <2>1, <2>4, <2>5
<1>5. CASE CloseAfterWrite
  <2>1. /\ q.cb = "close_log" /\ close_log(q)
        /\ UNCHANGED <<log_state, logfile, fds, strayed>>
    BY <1>2, <1>5 DEF CloseAfterWrite
  <2>2. q.op = "write" /\ log_state # "LOG_IS_OPEN"
    BY <1>3, <2>1 DEF WellFormed, Own, Writes
  <2>3. Added({CloseRequest(q.file)}) /\ ~Writing'
    BY <1>4, <2>1
  <2> QED BY <1>3, <2>1, <2>2, <2>3, OwnClosed
<1>6. CASE on_log_write
  <2>1. /\ q.cb = "on_log_write" /\ UNCHANGED <<logfile, fds, strayed>>
        /\ \/ UNCHANGED <<log_state, pool>>
           \/ log_state' = "LOG_NOT_OPEN" /\ close_log(q)
    BY <1>2, <1>6 DEF on_log_write
  <2>2. q.op = "write"
    BY <1>3, <2>1 DEF WellFormed
  <2>3. CASE UNCHANGED <<log_state, pool>>
    BY <1>3, <2>1, <2>2, <2>3, OwnDropped
  <2>4. CASE log_state' = "LOG_NOT_OPEN" /\ close_log(q)
    <3>1. log_state = "LOG_IS_OPEN"
      <4>1. \A p \in Outstanding : p.cb # "close_log"
        BY <1>4, <2>1, <2>4 DEF TypeInv, Requests, WellFormed
      <4> QED BY <1>3, <2>2, <4>1 DEF Own, Writes, Writing
    <3> QED BY <1>3, <1>4, <2>1, <2>2, <2>4, <3>1, OwnClosed
  <2> QED BY <2>1, <2>3, <2>4
<1>7. CASE on_log_close
  <2>1. q.cb = "on_log_close" /\ UNCHANGED <<log_state, logfile, fds, pool, strayed>>
    BY <1>2, <1>7 DEF on_log_close
  <2>2. q.op # "open"
    BY <1>3, <2>1 DEF WellFormed
  <2> QED BY <1>3, <2>1, <2>2, OwnDropped
<1> QED BY <1>1, <1>5, <1>6, <1>7 DEF Callback

\* The rest of the process takes descriptors that are free and gives up its own.
LEMMA OwnOthers ==
  ASSUME TypeInv, Own, OtherOpens \/ OtherCloses
  PROVE  Own'
<1>1. /\ UNCHANGED <<log_state, logfile, pool, finished, strayed>>
      /\ Free = 0 /\ Foreign = -1 /\ fds \in [1 .. MaxFd -> Foreign .. Len(files)]
  BY DEF OtherOpens, OtherCloses, Free, Foreign, TypeInv, TypeOK
<1>2. \A fd \in 1 .. MaxFd : /\ fds[fd] > 0 => fds'[fd] = fds[fd]
                             /\ fds'[fd] > 0 => fds[fd] > 0
  <2>1. PICK x, v : /\ x \in 1 .. MaxFd /\ fds' = [fds EXCEPT ![x] = v]
                    /\ v \in {Free, Foreign} /\ fds[x] \in {Free, Foreign}
    BY DEF OtherOpens, OtherCloses
  <2> QED BY <1>1, <2>1
<1>3. /\ Outstanding' = Outstanding /\ (Writing' <=> Writing) /\ (InUse' <=> InUse)
      /\ \A k, fd : Opened(k, fd)' <=> Opened(k, fd)
      /\ \A k, fd : Closing(k, fd)' <=> Closing(k, fd)
  BY <1>1 DEF Outstanding, Writing, InUse, Opened, Closing
<1>4. ASSUME NEW x, x \in 1 .. MaxFd => fds[x] > 0
      PROVE  At(x)' = At(x)
  BY <1>2, <1>4 DEF At
<1>5. Writes'
  <2>1. \A q \in Outstanding' : q.op = "write" => q.fd = logfile' /\ q.file = At(logfile)'
    BY <1>1, <1>2, <1>3 DEF Own, Writes, At, InUse, Writing
  <2> QED BY <1>1, <1>2, <1>3, <2>1 DEF Own, Writes
<1>6. Opens'
  BY <1>1, <1>2, <1>3 DEF Own, Opens
<1>7. Closes'
  <2>1. \A i \in DOMAIN pool : pool[i].op = "close" => At(pool[i].fd)' = pool[i].file
    BY <1>1, <1>2 DEF Own, Closes, At, Closing
  <2>2. \A fd \in 1..MaxFd, i \in DOMAIN pool : Closing(i, fd) =>
         /\ fds'[fd] > 0
         /\ InUse => fd # logfile
         /\ \A m \in DOMAIN pool : Closing(m, fd) => m = i
         /\ \A k \in DOMAIN finished : ~Opened(k, fd)
    BY <1>2 DEF Own, Closes
  <2>3. /\ DOMAIN pool' = DOMAIN pool /\ DOMAIN finished' = DOMAIN finished /\ logfile' = logfile
        /\ \A i \in DOMAIN pool : pool'[i].op = pool[i].op /\ pool'[i].file = pool[i].file
    BY <1>1
  <2>4. \A i \in DOMAIN pool' : pool'[i].op = "close" => At(pool[i].fd)' = pool'[i].file
    BY <2>1, <2>3
  <2>5. \A fd \in 1..MaxFd, i \in DOMAIN pool' : Closing(i, fd)' =>
         /\ fds'[fd] > 0
         /\ InUse' => fd # logfile'
         /\ \A m \in DOMAIN pool' : Closing(m, fd)' => m = i
         /\ \A k \in DOMAIN finished' : ~Opened(k, fd)'
    BY <1>3, <2>2, <2>3
  <2> QED BY <2>4, <2>5 DEF Closes
<1>8. Held'
  BY <1>1, <1>2, <1>3 DEF Own, Held
<1> QED BY <1>1, <1>5, <1>6, <1>7, <1>8 DEF Own

\* Every step respects it.
LEMMA OwnershipStep == TypeInv /\ Ownership /\ [Next]_vars => Ownership'
<1> SUFFICES ASSUME TypeInv, Ownership, [Next]_vars, ~raced'
             PROVE  Own'
  BY DEF Ownership
<1>0. Own
  <2>1. ASSUME raced PROVE FALSE
    <3>1. LogLine \/ LogBatch \/ OtherOpens \/ OtherCloses \/ UNCHANGED vars => raced'
      BY <2>1 DEF LogLine, LogBatch, OtherOpens, OtherCloses, vars
    <3>2. ASSUME NEW i, RunOpen(i) \/ RunWrite(i) \/ RunClose(i) PROVE raced'
      BY <2>1, <3>2 DEF RunOpen, RunWrite, RunClose, Finish
    <3>3. Callback => raced'
      BY <2>1 DEF Callback, on_log_open, CloseAfterWrite, close_log, on_log_write, on_log_close
    <3> QED BY <3>1, <3>2, <3>3 DEF Next, Pool
  <2> QED BY <2>1 DEF Ownership
<1>1. CASE LogLine
  BY <1>0, <1>1, OwnLine
<1>2. CASE LogBatch
  BY <1>0, <1>2, OwnBatch
<1>3. CASE Pool
  BY <1>0, <1>3, OwnPool DEF Pool
<1>4. CASE Callback
  BY <1>0, <1>4, OwnCallback
<1>5. CASE OtherOpens \/ OtherCloses
  BY <1>0, <1>5, OwnOthers
<1>6. CASE UNCHANGED vars
  BY <1>0, <1>6 DEF vars, Own, Writes, Opens, Closes, Held, Outstanding, Writing, InUse, Opened,
                    Closing, At
<1> QED BY <1>1, <1>2, <1>3, <1>4, <1>5, <1>6 DEF Next

\* No descriptor is held initially.
LEMMA OwnershipInit == Init => Ownership
<1> SUFFICES ASSUME Init
             PROVE  Own
  BY DEF Ownership
<1>1. /\ DOMAIN pool = {} /\ DOMAIN finished = {} /\ Outstanding = {} /\ ~strayed
      /\ log_state = "LOG_NOT_OPEN" /\ \A fd \in 1 .. MaxFd : fds[fd] = 0
  BY EmptyDomain DEF Init, Outstanding, ToSet, Free
<1> QED BY <1>1 DEF Own, Writes, Opens, Closes, Held, Writing, InUse, Opened, Closing

\* A file in use, to be closed or just opened has someone who holds its descriptor.
LEMMA OwnershipShows == TypeInv /\ Ownership => OwnFileOnly /\ NoFileLeaks
<1> SUFFICES ASSUME TypeInv, Ownership, ~raced
             PROVE  OwnFileOnly /\ NoFileLeaks
  BY DEF OwnFileOnly, NoFileLeaks
<1>1. OwnFileOnly
  BY DEF OwnFileOnly, Ownership, Own
<1>2. ASSUME NEW fd \in 1..MaxFd, fds[fd] > 0
      PROVE  \/ log_state = "LOG_IS_OPEN" /\ logfile = fd
             \/ \E q \in Outstanding : \/ q.cb = "on_log_open" /\ q.result = fd
                                       \/ q.fd = fd /\ q.cb \in {"close_log", "on_log_close"}
  <2>1. ASSUME NEW i \in DOMAIN pool, Closing(i, fd)
        PROVE  pool[i] \in Outstanding /\ pool[i].fd = fd /\ pool[i].cb = "on_log_close"
    <3>1. pool[i] \in Outstanding /\ pool[i].op = "close" /\ pool[i].fd = fd
      BY <2>1 DEF Outstanding, ToSet, Closing
    <3>2. WellFormed(pool[i], Len(files)) /\ pool[i] \in RequestType
      BY <3>1, ElementOfSeq, LenProperties DEF TypeInv, TypeOK, Requests
    <3> QED BY <3>1, <3>2 DEF WellFormed, RequestType
  <2>2. ASSUME NEW k \in DOMAIN finished, Opened(k, fd)
        PROVE  finished[k] \in Outstanding /\ finished[k].cb = "on_log_open" /\ finished[k].result = fd
    <3>1. finished[k] \in Outstanding /\ finished[k].op = "open" /\ finished[k].result = fd
      BY <2>2 DEF Outstanding, ToSet, Opened
    <3> QED BY <3>1 DEF TypeInv, Requests, WellFormed
  <2> QED BY <1>2, <2>1, <2>2 DEF Ownership, Own, Held
<1> QED BY <1>1, <1>2 DEF NoFileLeaks

\* A write or a close goes to a descriptor that was closed, or that is a connection's or
\* another log file's, only after the log file changed while a write was under way,
\* however many threads run the requests and in whatever order they finish.
THEOREM FilesAreOwned == Spec => []OwnFileOnly
BY OwnershipShows, TypeInit, TypeStep, OwnershipInit, OwnershipStep, PTL DEF Spec

\* As long as that did not happen no descriptor of a log file is ever forgotten.
THEOREM FilesAreClosed == Spec => []NoFileLeaks
BY OwnershipShows, TypeInit, TypeStep, OwnershipInit, OwnershipStep, PTL DEF Spec

-----------------------------------------------------------------------------
(* How large the files get, as long as no request strayed.                  *)

\* A line of a file is in the file or in a pending write to it.
LEMMA LinesOfDef ==
  ASSUME NEW f, NEW x
  PROVE  x \in LinesOf(f) <=>
           \/ \E j \in DOMAIN files[f] : x = files[f][j]
           \/ \E i \in DOMAIN pool : /\ pool[i].file = f
                                     /\ \E j \in DOMAIN pool[i].lines : x = pool[i].lines[j]
<1>1. x \in Range(files[f]) <=> \E j \in DOMAIN files[f] : x = files[f][j]
  BY DEF Range
<1>2. x \in UNION {Range(pool[i].lines) : i \in {j \in DOMAIN pool : pool[j].file = f}} <=>
        \E i \in DOMAIN pool : pool[i].file = f /\ x \in Range(pool[i].lines)
  OBVIOUS
<1>3. \A i \in DOMAIN pool :
        x \in Range(pool[i].lines) <=> \E j \in DOMAIN pool[i].lines : x = pool[i].lines[j]
  BY DEF Range
<1> QED BY <1>1, <1>2, <1>3 DEF LinesOf

\* The lines of a file, there already or on their way, are finitely many.
LEMMA LinesOfFinite ==
  ASSUME Lines, NEW f \in DOMAIN files
  PROVE  IsFiniteSet(LinesOf(f)) /\ Cardinality(LinesOf(f)) \in Nat
<1>1. LinesOf(f) \subseteq Elems(Pending) \cup Elems(files)
  <2> SUFFICES ASSUME NEW x \in LinesOf(f)
               PROVE  x \in Elems(Pending) \/ x \in Elems(files)
    OBVIOUS
  <2>1. CASE \E j \in DOMAIN files[f] : x = files[f][j]
    BY <2>1, ElemsDef
  <2>2. CASE \E i \in DOMAIN pool : \E j \in DOMAIN pool[i].lines : x = pool[i].lines[j]
    <3>1. PICK i, j : i \in DOMAIN pool /\ j \in DOMAIN pool[i].lines /\ x = pool[i].lines[j]
      BY <2>2
    <3>2. i \in DOMAIN Pending /\ Pending[i] = pool[i].lines
      BY <3>1, LinesInDef DEF Pending
    <3> QED BY <3>1, <3>2, ElemsDef
  <2> QED BY <2>1, <2>2, LinesOfDef
<1>2. LinesOf(f) \subseteq 1 .. Taken /\ Taken \in Nat
  BY <1>1 DEF Lines, Kept
<1>3. IsFiniteSet(1 .. Taken)
  BY <1>2, FS_Interval
<1> QED BY <1>2, <1>3, FS_Subset, FS_CardinalityType

\* A file whose lines become no more stays within any bound.
LEMMA NoMoreLines ==
  ASSUME Lines, NEW f \in DOMAIN files, LinesOf(f)' \subseteq LinesOf(f)
  PROVE  Cardinality(LinesOf(f)') \in Nat /\ Cardinality(LinesOf(f)') <= Cardinality(LinesOf(f))
<1>1. PICK S : S = LinesOf(f) /\ IsFiniteSet(S)
  BY LinesOfFinite
<1>2. PICK T : T = LinesOf(f)' /\ T \subseteq S
  BY <1>1
<1>3. IsFiniteSet(T) /\ Cardinality(T) <= Cardinality(S)
  BY <1>1, <1>2, FS_Subset
<1> QED BY <1>1, <1>2, <1>3, FS_CardinalityType

\* A file that gets a batch gets at most its lines.
LEMMA BatchOfLines ==
  ASSUME TypeInv, Lines, NEW b, b = offer(logged + 1),
         noOfLogLinesDropped' = noOfLogLinesDropped + (IF Len(buffer) = Capacity THEN 1 ELSE 0),
         NEW f \in DOMAIN files, LinesOf(f)' \subseteq LinesOf(f) \cup Range(b)
  PROVE  /\ Cardinality(LinesOf(f)') \in Nat
         /\ Cardinality(LinesOf(f)') <= Cardinality(LinesOf(f)) + Len(b)
         /\ Len(b) \in Nat
<1>1. PICK S : S = LinesOf(f) /\ IsFiniteSet(S) /\ Cardinality(S) \in Nat
  BY LinesOfFinite
<1>2. PICK t \in Nat : t = logged + 1 - Len(b) /\ Len(b) \in Nat /\ Range(b) = (t + 1) .. (logged + 1)
  BY OfferLines
<1>3. PICK n \in Nat : n = Len(b) /\ logged + 1 = t + n
  <2>1. logged \in Nat
    BY DEF TypeInv, TypeOK
  <2>2. PICK n \in Nat : n = Len(b)
    BY <1>2
  <2>3. t = logged + 1 - n
    BY <1>2, <2>2
  <2>4. logged + 1 = t + n
    BY <2>1, <2>3
  <2> QED BY <2>2, <2>4
<1>4. PICK B : B = Range(b) /\ IsFiniteSet(B) /\ Cardinality(B) = n
  <2>1. Range(b) = (t + 1) .. (t + n)
    BY <1>2, <1>3
  <2>2. IsFiniteSet((t + 1) .. (t + n)) /\ Cardinality((t + 1) .. (t + n)) = n
    BY <1>2, <1>3, IntervalSize
  <2> QED BY <2>1, <2>2
<1>5. /\ IsFiniteSet(S \cup B)
      /\ Cardinality(S \cup B) = Cardinality(S) + n - Cardinality(S \cap B)
  BY <1>1, <1>4, FS_Union
<1>6. Cardinality(S \cap B) \in Nat
  <2>1. S \cap B \subseteq S
    OBVIOUS
  <2> QED BY <1>1, <2>1, FS_Subset, FS_CardinalityType
<1>7. PICK T : T = LinesOf(f)' /\ T \subseteq S \cup B
  BY <1>1, <1>4
<1>8. IsFiniteSet(T) /\ Cardinality(T) <= Cardinality(S \cup B) /\ Cardinality(T) \in Nat
  BY <1>5, <1>7, FS_Subset, FS_CardinalityType
<1>9. Cardinality(T) <= Cardinality(S) + n
  BY <1>1, <1>5, <1>6, <1>8
<1> QED BY <1>1, <1>3, <1>7, <1>8, <1>9

\* The lines that requests bring to a file.
LEMMA LinesOfAdded ==
  ASSUME NEW N, Added(N), NEW f, NEW b, files' = files,
         \A q \in N : q.file = f => Range(q.lines) \subseteq b
  PROVE  LinesOf(f)' \subseteq LinesOf(f) \cup b
<1> SUFFICES ASSUME NEW x \in LinesOf(f)'
             PROVE  x \in LinesOf(f) \/ x \in b
  OBVIOUS
<1>1. \/ \E j \in DOMAIN files[f] : x = files[f][j]
      \/ \E i \in DOMAIN pool' : /\ pool'[i].file = f
                                 /\ \E j \in DOMAIN pool'[i].lines : x = pool'[i].lines[j]
  <2>1. \/ \E j \in DOMAIN files'[f] : x = files'[f][j]
        \/ \E i \in DOMAIN pool' : /\ pool'[i].file = f
                                   /\ \E j \in DOMAIN pool'[i].lines : x = pool'[i].lines[j]
    BY DEF LinesOf, Range
  <2> QED BY <2>1
<1>2. CASE \E j \in DOMAIN files[f] : x = files[f][j]
  BY <1>2, LinesOfDef
<1>3. CASE \E i \in DOMAIN pool' : /\ pool'[i].file = f
                                   /\ \E j \in DOMAIN pool'[i].lines : x = pool'[i].lines[j]
  <2>1. PICK i \in DOMAIN pool' : /\ pool'[i].file = f
                                  /\ \E j \in DOMAIN pool'[i].lines : x = pool'[i].lines[j]
    BY <1>3
  <2>2. CASE i \in DOMAIN pool
    <3>1. pool'[i] = pool[i]
      BY <2>2 DEF Added
    <3> QED BY <2>1, <2>2, <3>1, LinesOfDef
  <2>3. CASE i \notin DOMAIN pool
    <3>1. pool'[i] \in N
      BY <2>3 DEF Added
    <3>2. x \in Range(pool'[i].lines)
      BY <2>1 DEF Range
    <3> QED BY <2>1, <3>1, <3>2
  <2> QED BY <2>2, <2>3
<1> QED BY <1>1, <1>2, <1>3

\* Requests for the current file keep the files apart.
LEMMA ApartSubmit ==
  ASSUME TypeInv, Apart, NEW N, Added(N), UNCHANGED <<logfile, fds, files, finished>>,
         \A q \in N : q.file = Free \/ (log_state = "LOG_IS_OPEN" /\ q.file = At(logfile)),
         log_state' = "LOG_IS_OPEN" =>
           log_state = "LOG_IS_OPEN" /\ \A q \in N : q.op # "close" /\ q.cb # "close_log"
  PROVE  Apart'
<1>1. /\ Outstanding' = Outstanding \cup N /\ Free = 0
      /\ \A k, fd : Opened(k, fd)' <=> Opened(k, fd)
      /\ \A i \in DOMAIN pool' : (i \in DOMAIN pool /\ pool'[i] = pool[i]) \/ pool'[i] \in N
  BY DEF Outstanding, Added, Opened, Free
<1>2. OneDescriptor'
  BY DEF Apart, OneDescriptor
<1>3. FreshFiles'
  <2> SUFFICES ASSUME NEW fd \in 1..MaxFd, NEW k \in DOMAIN finished, Opened(k, fd)
               PROVE  /\ fds[fd] > 0 /\ files[fds[fd]] = <<>>
                      /\ \A q \in Outstanding' : q.file # fds[fd]
                      /\ log_state' = "LOG_IS_OPEN" => logfile # fd
                      /\ \A m \in DOMAIN finished : Opened(m, fd) => m = k
    BY <1>1 DEF FreshFiles
  <2>1. /\ fds[fd] > 0 /\ files[fds[fd]] = <<>>
        /\ \A q \in Outstanding : q.file # fds[fd]
        /\ log_state = "LOG_IS_OPEN" => logfile # fd
        /\ \A m \in DOMAIN finished : Opened(m, fd) => m = k
    BY DEF Apart, FreshFiles
  <2>2. log_state = "LOG_IS_OPEN" => At(logfile) # fds[fd]
    <3>1. log_state = "LOG_IS_OPEN" /\ logfile \in 1 .. MaxFd => fds[logfile] # fds[fd]
      BY <2>1 DEF Apart, OneDescriptor
    <3> QED BY <1>1, <2>1, <3>1 DEF At
  <2>3. \A q \in N : q.file # fds[fd]
    BY <1>1, <2>1, <2>2
  <2> QED BY <1>1, <2>1, <2>3
<1>4. CurrentFile'
  <2> SUFFICES ASSUME log_state' = "LOG_IS_OPEN", logfile \in 1 .. MaxFd
               PROVE  /\ fds[logfile] > 0
                      /\ \A i \in DOMAIN pool' : pool'[i].op = "close" => pool'[i].file # fds[logfile]
                      /\ \A q \in Outstanding' : q.cb = "close_log" => q.file # fds[logfile]
    BY DEF CurrentFile
  <2> QED BY <1>1 DEF Apart, CurrentFile
<1> QED BY <1>2, <1>3, <1>4 DEF Apart

\* A request finishes, and nothing but its file and the descriptor d changes.
LEMMA ApartMoved ==
  ASSUME TypeInv, Apart, NEW i \in 1 .. Len(pool), NEW r \in Int, Moved(i, r),
         pool[i] \in RequestType, UNCHANGED <<log_state, logfile>>,
         NEW d \in Int, Changes(i, r, d),
         \A f \in 1 .. Len(files) : f # pool[i].file => files'[f] = files[f],
         pool[i].op = "open" /\ d # -1 => fds'[d] = Len(files) + 1 /\ files'[Len(files) + 1] = <<>>,
         pool[i].op = "close" /\ d \in 1 .. MaxFd => fds[d] = pool[i].file
  PROVE  Apart'
<1>0. i \in DOMAIN pool /\ pool[i] \in Outstanding
  BY LenProperties DEF TypeInv, TypeOK, Outstanding, ToSet
<1>1. /\ \A p \in Outstanding' : \E q \in Outstanding : Alike(p, q)
      /\ \A j \in DOMAIN pool' : Skip(i, j) \in DOMAIN pool /\ pool'[j] = pool[Skip(i, j)]
  BY <1>0, MovedAlike DEF Moved
<1>2. PICK n \in DOMAIN finished' :
        /\ n \notin DOMAIN finished
        /\ finished'[n] = [pool[i] EXCEPT !.result = r]
        /\ \A m \in DOMAIN finished' \ DOMAIN finished : m = n
        /\ \A k \in DOMAIN finished : k \in DOMAIN finished' /\ finished'[k] = finished[k]
  BY DEF Moved
<1>3. finished'[n].op = pool[i].op /\ finished'[n].result = r
  BY <1>2 DEF RequestType
<1>4. /\ Free = 0 /\ Len(files) \in Nat
      /\ \A fd \in 1 .. MaxFd : fds[fd] \in Int /\ fds[fd] <= Len(files)
      /\ \A q \in Outstanding : q.file \in Int /\ q.file <= Len(files)
  <2>1. /\ \A fd \in 1 .. MaxFd : fds[fd] \in Foreign .. Len(files)
        /\ Foreign \in Int /\ Len(files) \in Nat
    BY AtType DEF TypeInv
  <2>2. \A q \in Outstanding : q.file \in Foreign .. Len(files)
    BY DEF TypeInv, Requests, WellFormed
  <2> QED BY <2>1, <2>2 DEF Free
<1>5. \A fd \in 1 .. MaxFd, k \in DOMAIN finished : Opened(k, fd) => fd # d
  <2> SUFFICES ASSUME NEW fd \in 1 .. MaxFd, NEW k \in DOMAIN finished, Opened(k, fd), fd = d
               PROVE  FALSE
    OBVIOUS
  <2>1. fds[fd] > 0 /\ pool[i].file # fds[fd]
    BY <1>0 DEF Apart, FreshFiles
  <2> QED BY <1>4, <2>1 DEF Changes
<1>6. log_state = "LOG_IS_OPEN" /\ logfile \in 1 .. MaxFd => fds[logfile] > 0 /\ logfile # d
  <2> SUFFICES ASSUME log_state = "LOG_IS_OPEN", logfile \in 1 .. MaxFd
               PROVE  fds[logfile] > 0 /\ logfile # d
    OBVIOUS
  <2>1. fds[logfile] > 0 /\ (pool[i].op = "close" => pool[i].file # fds[logfile])
    BY <1>0 DEF Apart, CurrentFile
  <2> QED BY <1>4, <2>1 DEF Changes
<1>7. \A fd \in 1 .. MaxFd : fd # d => fds'[fd] = fds[fd]
  BY DEF Changes
<1>8. d \in 1 .. MaxFd => \/ pool[i].op = "open" /\ fds'[d] = Len(files) + 1
                          \/ fds'[d] = 0
  BY <1>4 DEF Changes
<1>9. OneDescriptor'
  <2> SUFFICES ASSUME NEW a \in 1..MaxFd, NEW b \in 1..MaxFd, fds'[a] > 0, fds'[a] = fds'[b]
               PROVE  a = b
    BY DEF OneDescriptor
  <2>1. CASE a = d
    <3>1. fds'[a] = Len(files) + 1
      BY <1>8, <2>1
    <3> QED BY <1>4, <1>7, <2>1, <3>1
  <2>2. CASE b = d
    <3>1. fds'[b] = Len(files) + 1
      BY <1>8, <2>2
    <3> QED BY <1>4, <1>7, <2>2, <3>1
  <2>3. CASE a # d /\ b # d
    BY <1>7, <2>3 DEF Apart, OneDescriptor
  <2> QED BY <2>1, <2>2, <2>3
<1>10. ASSUME NEW k \in DOMAIN finished', NEW fd \in 1 .. MaxFd, Opened(k, fd)'
       PROVE  \/ k \in DOMAIN finished /\ Opened(k, fd) /\ fd # d
              \/ k = n /\ pool[i].op = "open" /\ fd = d
  <2>1. CASE k \in DOMAIN finished
    BY <1>2, <1>5, <1>10, <2>1 DEF Opened
  <2>2. CASE k \notin DOMAIN finished
    BY <1>2, <1>3, <1>10, <2>2 DEF Opened, Changes
  <2> QED BY <2>1, <2>2
<1>11. FreshFiles'
  <2> SUFFICES ASSUME NEW fd \in 1..MaxFd, NEW k \in DOMAIN finished', Opened(k, fd)'
               PROVE  /\ fds'[fd] > 0 /\ files'[fds'[fd]] = <<>>
                      /\ \A q \in Outstanding' : q.file # fds'[fd]
                      /\ log_state = "LOG_IS_OPEN" => logfile # fd
                      /\ \A m \in DOMAIN finished' : Opened(m, fd)' => m = k
    BY DEF FreshFiles
  <2>1. CASE k \in DOMAIN finished /\ Opened(k, fd) /\ fd # d
    <3>1. /\ fds[fd] > 0 /\ files[fds[fd]] = <<>>
          /\ \A q \in Outstanding : q.file # fds[fd]
          /\ log_state = "LOG_IS_OPEN" => logfile # fd
          /\ \A m \in DOMAIN finished : Opened(m, fd) => m = k
      BY <2>1 DEF Apart, FreshFiles
    <3>2. fds'[fd] = fds[fd] /\ fds[fd] \in 1 .. Len(files)
      BY <1>4, <1>7, <2>1, <3>1
    <3>3. files'[fds[fd]] = <<>>
      BY <1>0, <3>1, <3>2
    <3>4. \A q \in Outstanding' : q.file # fds[fd]
      BY <1>1, <3>1 DEF Alike
    <3>5. \A m \in DOMAIN finished' : Opened(m, fd)' => m = k
      BY <1>10, <2>1, <3>1
    <3> QED BY <3>1, <3>2, <3>3, <3>4, <3>5
  <2>2. CASE k = n /\ pool[i].op = "open" /\ fd = d
    <3>1. fds'[fd] = Len(files) + 1 /\ files'[Len(files) + 1] = <<>> /\ fds'[fd] > 0
      BY <1>4, <2>2
    <3>2. \A q \in Outstanding' : q.file # fds'[fd]
      BY <1>1, <1>4, <3>1 DEF Alike
    <3>3. \A m \in DOMAIN finished' : Opened(m, fd)' => m = k
      BY <1>10, <2>2
    <3> QED BY <1>6, <2>2, <3>1, <3>2, <3>3
  <2> QED BY <1>10, <2>1, <2>2
<1>12. CurrentFile'
  <2> SUFFICES ASSUME log_state = "LOG_IS_OPEN", logfile \in 1 .. MaxFd
               PROVE  /\ fds'[logfile] > 0
                      /\ \A j \in DOMAIN pool' : pool'[j].op = "close" => pool'[j].file # fds'[logfile]
                      /\ \A q \in Outstanding' : q.cb = "close_log" => q.file # fds'[logfile]
    BY DEF CurrentFile
  <2>1. fds'[logfile] = fds[logfile]
    BY <1>6, <1>7
  <2> QED BY <1>1, <1>6, <2>1 DEF Apart, CurrentFile, Alike
<1> QED BY <1>9, <1>11, <1>12 DEF Apart

\* A request is called back and at most the close of its file is submitted.
LEMMA ApartCalled ==
  ASSUME TypeInv, Apart, NEW q, Called(q), NEW N, Added(N),
         \A p \in N : p.file = q.file /\ p.cb # "close_log",
         UNCHANGED <<logfile, fds, files>>,
         log_state' = "LOG_IS_OPEN" =>
           log_state = "LOG_IS_OPEN" /\ (N = {} \/ q.cb = "close_log")
  PROVE  Apart'
<1>1. /\ Outstanding' \subseteq Outstanding \cup N /\ q \in Outstanding
      /\ \A i \in DOMAIN pool' : (i \in DOMAIN pool /\ pool'[i] = pool[i]) \/ pool'[i] \in N
      /\ \A k \in DOMAIN finished' : k \in Nat /\ k + 1 \in DOMAIN finished
                                     /\ finished'[k] = finished[k + 1]
  BY DEF Outstanding, Added, Called
<1>2. \A k \in DOMAIN finished' : \A fd : Opened(k, fd)' => Opened(k + 1, fd)
  BY <1>1 DEF Opened
<1>3. OneDescriptor'
  BY DEF Apart, OneDescriptor
<1>4. FreshFiles'
  <2> SUFFICES ASSUME NEW fd \in 1..MaxFd, NEW k \in DOMAIN finished', Opened(k, fd)'
               PROVE  /\ fds[fd] > 0 /\ files[fds[fd]] = <<>>
                      /\ \A p \in Outstanding' : p.file # fds[fd]
                      /\ log_state' = "LOG_IS_OPEN" => logfile # fd
                      /\ \A m \in DOMAIN finished' : Opened(m, fd)' => m = k
    BY DEF FreshFiles
  <2>1. /\ fds[fd] > 0 /\ files[fds[fd]] = <<>>
        /\ \A p \in Outstanding : p.file # fds[fd]
        /\ log_state = "LOG_IS_OPEN" => logfile # fd
        /\ \A m \in DOMAIN finished : Opened(m, fd) => m = k + 1
    BY <1>1, <1>2 DEF Apart, FreshFiles
  <2>2. ASSUME NEW m \in DOMAIN finished', Opened(m, fd)'
        PROVE  m = k
    <3>1. m + 1 = k + 1 /\ m \in Nat /\ k \in Nat
      BY <1>1, <1>2, <2>1, <2>2
    <3> QED BY <3>1
  <2> QED BY <1>1, <2>1, <2>2
<1>5. CurrentFile'
  <2> SUFFICES ASSUME log_state' = "LOG_IS_OPEN", logfile \in 1 .. MaxFd
               PROVE  /\ fds[logfile] > 0
                      /\ \A i \in DOMAIN pool' : pool'[i].op = "close" => pool'[i].file # fds[logfile]
                      /\ \A p \in Outstanding' : p.cb = "close_log" => p.file # fds[logfile]
    BY DEF CurrentFile
  <2> QED BY <1>1 DEF Apart, CurrentFile
<1> QED BY <1>3, <1>4, <1>5 DEF Apart

\* on_log_open turns to a file that is empty and nobody else's.
LEMMA ApartOpened ==
  ASSUME TypeInv, Apart, on_log_open
  PROVE  /\ Apart'
         /\ logfile' \in 1 .. MaxFd =>
              fds[logfile'] > 0 /\ files[fds[logfile']] = <<>>
              /\ \A i \in DOMAIN pool : pool[i].file # fds[logfile']
<1>1. PICK q : q = Head(finished) /\ Called(q) /\ q.cb = "on_log_open"
  BY CallbackCalls DEF on_log_open, TypeInv
<1>2. /\ logfile' = q.result /\ log_state' = "LOG_IS_OPEN"
      /\ UNCHANGED <<fds, files, pool>>
  BY <1>1 DEF on_log_open
<1>3. q.op = "open"
  BY <1>1, CalledWellFormed DEF WellFormed
<1>4. /\ Outstanding' \subseteq Outstanding /\ q = finished[1] /\ 1 \in DOMAIN finished
      /\ \A k \in DOMAIN finished' : k \in Nat /\ k + 1 \in DOMAIN finished \ {1}
                                     /\ finished'[k] = finished[k + 1]
      /\ \A i \in DOMAIN pool : pool[i] \in Outstanding
  BY <1>1, <1>2 DEF Called, Outstanding, ToSet
<1>5. \A k \in DOMAIN finished' : \A fd : Opened(k, fd)' => Opened(k + 1, fd)
  BY <1>4 DEF Opened
<1>6. logfile' \in 1 .. MaxFd => Opened(1, logfile')
  BY <1>2, <1>3, <1>4 DEF Opened
<1>7. logfile' \in 1 .. MaxFd =>
        /\ fds[logfile'] > 0 /\ files[fds[logfile']] = <<>>
        /\ \A p \in Outstanding : p.file # fds[logfile']
        /\ \A m \in DOMAIN finished : Opened(m, logfile') => m = 1
  BY <1>4, <1>6 DEF Apart, FreshFiles
<1>8. OneDescriptor'
  BY <1>2 DEF Apart, OneDescriptor
<1>9. FreshFiles'
  <2> SUFFICES ASSUME NEW fd \in 1..MaxFd, NEW k \in DOMAIN finished', Opened(k, fd)'
               PROVE  /\ fds[fd] > 0 /\ files[fds[fd]] = <<>>
                      /\ \A p \in Outstanding' : p.file # fds[fd]
                      /\ logfile' # fd
                      /\ \A m \in DOMAIN finished' : Opened(m, fd)' => m = k
    BY <1>2 DEF FreshFiles
  <2>1. /\ fds[fd] > 0 /\ files[fds[fd]] = <<>>
        /\ \A p \in Outstanding : p.file # fds[fd]
        /\ \A m \in DOMAIN finished : Opened(m, fd) => m = k + 1
    BY <1>4, <1>5 DEF Apart, FreshFiles
  <2>2. ASSUME NEW m \in DOMAIN finished', Opened(m, fd)'
        PROVE  m = k
    <3>1. m + 1 = k + 1 /\ m \in Nat /\ k \in Nat
      BY <1>4, <1>5, <2>1, <2>2
    <3> QED BY <3>1
  <2>3. logfile' # fd
    <3>1. k + 1 \in DOMAIN finished /\ k + 1 # 1 /\ Opened(k + 1, fd)
      BY <1>4, <1>5
    <3> QED BY <1>7, <3>1
  <2> QED BY <1>4, <2>1, <2>2, <2>3
<1>10. CurrentFile'
  <2> SUFFICES ASSUME logfile' \in 1 .. MaxFd
               PROVE  /\ fds[logfile'] > 0
                      /\ \A i \in DOMAIN pool : pool[i].op = "close" => pool[i].file # fds[logfile']
                      /\ \A p \in Outstanding' : p.cb = "close_log" => p.file # fds[logfile']
    BY <1>2 DEF CurrentFile
  <2> QED BY <1>4, <1>7
<1> QED BY <1>4, <1>7, <1>8, <1>9, <1>10 DEF Apart

\* The rest of the process keeps the files apart.
LEMMA ApartOthers ==
  ASSUME TypeInv, Apart, OtherOpens \/ OtherCloses
  PROVE  Apart' /\ (log_state = "LOG_IS_OPEN" /\ logfile \in 1 .. MaxFd => fds'[logfile] = fds[logfile])
<1>1. /\ UNCHANGED <<log_state, logfile, files, pool, finished>>
      /\ Free = 0 /\ Foreign = -1 /\ fds \in [1 .. MaxFd -> Foreign .. Len(files)]
  BY DEF OtherOpens, OtherCloses, Free, Foreign, TypeInv, TypeOK
<1>2. \A fd \in 1 .. MaxFd : /\ fds[fd] > 0 => fds'[fd] = fds[fd]
                             /\ fds'[fd] > 0 => fds[fd] > 0
  <2>1. PICK x, v : /\ x \in 1 .. MaxFd /\ fds' = [fds EXCEPT ![x] = v]
                    /\ v \in {Free, Foreign} /\ fds[x] \in {Free, Foreign}
    BY DEF OtherOpens, OtherCloses
  <2> QED BY <1>1, <2>1
<1>3. Outstanding' = Outstanding /\ \A k, fd : Opened(k, fd)' <=> Opened(k, fd)
  BY <1>1 DEF Outstanding, Opened
<1>4. OneDescriptor'
  BY <1>2 DEF Apart, OneDescriptor
<1>5. FreshFiles'
  BY <1>1, <1>2, <1>3 DEF Apart, FreshFiles
<1>6. CurrentFile'
  BY <1>1, <1>2, <1>3 DEF Apart, CurrentFile
<1>7. log_state = "LOG_IS_OPEN" /\ logfile \in 1 .. MaxFd => fds'[logfile] = fds[logfile]
  BY <1>2 DEF Apart, CurrentFile
<1> QED BY <1>4, <1>5, <1>6, <1>7 DEF Apart

\* Sizes stay within their bounds when no file gets more lines.
LEMMA SizesSame ==
  ASSUME TypeInv, Lines, Apart, Sizes,
         \A f \in DOMAIN files' : f \in DOMAIN files \/ LinesOf(f)' = {},
         \A f \in DOMAIN files : LinesOf(f)' \subseteq LinesOf(f),
         log_state' = "LOG_IS_OPEN" /\ logfile' \in 1..MaxFd =>
           /\ log_state = "LOG_IS_OPEN" /\ logfile' = logfile /\ fds'[logfile] = fds[logfile]
           /\ logSize' \in Nat /\ logSize' >= logSize
  PROVE  Sizes'
<1>1. ASSUME NEW f \in DOMAIN files
      PROVE  /\ Cardinality(LinesOf(f)') \in Nat /\ Cardinality(LinesOf(f)) \in Nat
             /\ Cardinality(LinesOf(f)') <= Cardinality(LinesOf(f))
  BY NoMoreLines, LinesOfFinite
<1>2. SizeLimit \in Nat /\ Capacity \in Nat /\ logSize \in Nat
  BY LogAssumption DEF TypeInv, TypeOK
<1>3. ASSUME NEW f \in DOMAIN files'
      PROVE  Cardinality(LinesOf(f)') < SizeLimit + Capacity
  <2>1. CASE f \in DOMAIN files
    BY <1>1, <1>2, <2>1 DEF Sizes
  <2>2. CASE LinesOf(f)' = {}
    <3>1. Cardinality(LinesOf(f)') = 0
      BY <2>2, FS_EmptySet
    <3> QED BY <3>1, LogAssumption
  <2> QED BY <2>1, <2>2
<1>4. ASSUME log_state' = "LOG_IS_OPEN", logfile' \in 1..MaxFd
      PROVE  \E f \in DOMAIN files :
               /\ f = fds'[logfile']
               /\ Cardinality(LinesOf(f)') <= logSize' /\ Cardinality(LinesOf(f)') < SizeLimit
  <2>1. PICK f : f = fds[logfile] /\ f \in DOMAIN files
    <3>1. fds[logfile] \in Foreign .. Len(files) /\ Foreign \in Int /\ Len(files) \in Nat
      BY <1>4, AtType DEF TypeInv
    <3>2. fds[logfile] > 0 /\ files \in Seq(Seq(Nat))
      BY <1>4 DEF Apart, CurrentFile, TypeInv, TypeOK
    <3>3. fds[logfile] \in 1 .. Len(files)
      BY <3>1, <3>2
    <3> QED BY <3>2, <3>3, LenProperties
  <2>2. Cardinality(LinesOf(f)) <= logSize /\ Cardinality(LinesOf(f)) < SizeLimit
    BY <1>4, <2>1 DEF Sizes
  <2>3. Cardinality(LinesOf(f)') <= logSize' /\ Cardinality(LinesOf(f)') < SizeLimit
    <3>1. PICK a \in Nat, c \in Nat : a = Cardinality(LinesOf(f)) /\ c = Cardinality(LinesOf(f)') /\ c <= a
      BY <1>1, <2>1
    <3> QED BY <1>2, <1>4, <2>2, <3>1
  <2> QED BY <1>4, <2>1, <2>3
<1> QED BY <1>3, <1>4 DEF Sizes

\* LogLine writes nothing.
LEMMA BoundsLine ==
  ASSUME TypeInv, Lines, Apart, Sizes, LogLine
  PROVE  Apart' /\ Sizes'
<1>1. LineKept
  BY LineCases
<1>2. UNCHANGED <<logfile, fds, files, finished>>
  BY <1>1 DEF LineKept
<1>3. /\ OpenRequest.op = "open" /\ OpenRequest.cb = "on_log_open" /\ OpenRequest.lines = <<>>
      /\ OpenRequest.file = Free
  BY OpenClose DEF TypeInv
<1>4. PICK N : /\ Added(N) /\ \A q \in N : q = OpenRequest
               /\ log_state' = "LOG_IS_OPEN" => log_state = "LOG_IS_OPEN" /\ logSize' = logSize
  BY <1>1 DEF LineKept, Reopens
<1>5. Apart'
  BY <1>2, <1>3, <1>4, ApartSubmit
<1>6. ASSUME NEW f \in DOMAIN files
      PROVE  LinesOf(f)' \subseteq LinesOf(f)
  <2>1. PICK b : b = {}
    OBVIOUS
  <2>2. \A q \in N : q.file = f => Range(q.lines) \subseteq b
    BY <1>3, <1>4, EmptyDomain DEF Range
  <2>3. LinesOf(f)' \subseteq LinesOf(f) \cup b
    BY <1>2, <1>4, <2>2, LinesOfAdded
  <2> QED BY <2>1, <2>3
<1>7. logSize \in Nat
  BY DEF TypeInv, TypeOK
<1>8. Sizes'
  BY <1>2, <1>4, <1>6, <1>7, SizesSame
<1> QED BY <1>5, <1>8

\* LogBatch adds its lines to the current file and to logSize.
LEMMA BoundsBatch ==
  ASSUME TypeInv, Lines, Apart, Sizes, LogBatch
  PROVE  Apart' /\ Sizes'
<1>0. PICK b : b = offer(logged + 1)
  OBVIOUS
<1>1. /\ log_state = "LOG_IS_OPEN"
      /\ UNCHANGED <<logfile, fds, files, finished>>
      /\ BatchWritten(b) \/ BatchRotates(b) \/ BatchRefused(b) \/ BatchForgotten(b)
  BY <1>0, BatchCases
<1>2. /\ b \in Seq(Nat) /\ Len(b) \in Nat /\ Len(b) <= Capacity /\ logSize \in Nat
      /\ SizeLimit \in Nat /\ Capacity \in Nat /\ At(logfile) \in Int
  <2>1. TypeOK /\ logfile \in Int /\ logSize \in Nat
    BY DEF TypeInv, TypeOK
  <2>2. At(logfile) \in Foreign .. Len(files) /\ Foreign \in Int /\ Len(files) \in Nat
    BY <2>1, AtType
  <2>3. b \in Seq(Nat) /\ Len(b) \in 1 .. Capacity
    BY <1>0, <2>1, OfferType
  <2>4. SizeLimit \in Nat /\ Capacity \in Nat
    BY LogAssumption
  <2> QED BY <2>1, <2>2, <2>3, <2>4
<1>3. /\ OpenRequest.op = "open" /\ OpenRequest.cb = "on_log_open" /\ OpenRequest.lines = <<>>
      /\ OpenRequest.file = Free
  BY OpenClose DEF TypeInv
<1>4. PICK N : /\ Added(N)
               /\ \A q \in N : q.file = Free \/ q.file = At(logfile)
               /\ \A q \in N : q.lines = <<>> \/ (q.lines = b /\ q.file = At(logfile))
               /\ log_state' = "LOG_IS_OPEN" =>
                    /\ \A q \in N : q.op # "close" /\ q.cb # "close_log"
                    /\ logSize' = logSize + Len(b) /\ (N = {} \/ logSize + Len(b) < SizeLimit)
  <2>1. CASE BatchWritten(b)
    <3>1. PICK w : w = WriteRequest(b, FALSE)
      OBVIOUS
    <3>2. w.op = "write" /\ w.file = At(logfile) /\ w.lines = b /\ w.cb = "on_log_write"
      BY <1>2, <3>1, NewWellFormed
    <3>3. /\ Added({w}) /\ logSize' = logSize + Len(b) /\ logSize + Len(b) < SizeLimit
      BY <2>1, <3>1 DEF BatchWritten
    <3> QED BY <3>2, <3>3
  <2>2. CASE BatchRotates(b)
    <3>1. PICK w : w = WriteRequest(b, TRUE)
      OBVIOUS
    <3>2. w.file = At(logfile) /\ w.lines = b
      BY <1>2, <3>1, NewWellFormed
    <3> QED BY <1>3, <2>2, <3>1, <3>2 DEF BatchRotates, Reopens
  <2>3. CASE BatchRefused(b)
    <3>1. PICK w : w = CloseRequest(At(logfile))
      OBVIOUS
    <3>2. w.file = At(logfile) /\ w.lines = <<>>
      BY <1>2, <3>1, OpenClose DEF TypeInv
    <3> QED BY <1>3, <2>3, <3>1, <3>2 DEF BatchRefused, Reopens
  <2>4. CASE BatchForgotten(b)
    <3>1. PICK M : M = {}
      OBVIOUS
    <3>2. Added(M)
      BY <2>4, <3>1, AddNone DEF BatchForgotten, TypeInv
    <3> QED BY <2>4, <3>1, <3>2 DEF BatchForgotten
  <2> QED BY <1>1, <2>1, <2>2, <2>3, <2>4
<1>5. Apart'
  BY <1>1, <1>4, ApartSubmit
<1>6. ASSUME NEW f \in DOMAIN files
      PROVE  /\ LinesOf(f)' \subseteq LinesOf(f) \cup Range(b)
             /\ f # At(logfile) \/ N = {} => LinesOf(f)' \subseteq LinesOf(f)
  <2>1. Range(<<>>) = {}
    BY EmptyDomain DEF Range
  <2>2. \A q \in N : q.file = f => Range(q.lines) \subseteq Range(b)
    BY <1>4, <2>1
  <2>3. PICK e : e = {}
    OBVIOUS
  <2>4. f # At(logfile) \/ N = {} => \A q \in N : q.file = f => Range(q.lines) \subseteq e
    BY <1>4, <2>1
  <2>5. f # At(logfile) \/ N = {} => LinesOf(f)' \subseteq LinesOf(f) \cup e
    BY <1>1, <1>4, <2>4, LinesOfAdded
  <2> QED BY <1>1, <1>4, <2>2, <2>3, <2>5, LinesOfAdded
<1>7. noOfLogLinesDropped' = noOfLogLinesDropped + (IF Len(buffer) = Capacity THEN 1 ELSE 0)
  BY DEF LogBatch
<1>8. ASSUME NEW f \in DOMAIN files
      PROVE  /\ Cardinality(LinesOf(f)') \in Nat /\ Cardinality(LinesOf(f)) \in Nat
             /\ Cardinality(LinesOf(f)') <= Cardinality(LinesOf(f)) + Len(b)
             /\ f # At(logfile) \/ N = {} => Cardinality(LinesOf(f)') <= Cardinality(LinesOf(f))
  BY <1>0, <1>6, <1>7, BatchOfLines, NoMoreLines, LinesOfFinite
<1>9. ASSUME logfile \in 1 .. MaxFd
      PROVE  /\ At(logfile) = fds[logfile] /\ At(logfile) \in DOMAIN files
             /\ Cardinality(LinesOf(At(logfile))) <= logSize
             /\ Cardinality(LinesOf(At(logfile))) < SizeLimit
  <2>1. /\ fds[logfile] \in Foreign .. Len(files) /\ Foreign \in Int /\ Len(files) \in Nat
        /\ At(logfile) = fds[logfile]
    BY <1>9, AtType DEF TypeInv
  <2>2. fds[logfile] > 0 /\ files \in Seq(Seq(Nat))
    BY <1>1, <1>9 DEF Apart, CurrentFile, TypeInv, TypeOK
  <2>3. fds[logfile] \in 1 .. Len(files)
    BY <2>1, <2>2
  <2> QED BY <1>1, <1>9, <2>1, <2>2, <2>3, LenProperties DEF Sizes
<1>10. ASSUME NEW f \in DOMAIN files'
       PROVE  Cardinality(LinesOf(f)') < SizeLimit + Capacity
  <2>0. f \in DOMAIN files
    BY <1>1
  <2>1. CASE f # At(logfile)
    <3>1. Cardinality(LinesOf(f)) < SizeLimit + Capacity
      BY <2>0 DEF Sizes
    <3> QED BY <1>2, <1>8, <2>0, <2>1, <3>1
  <2>2. CASE f = At(logfile)
    <3>1. logfile \in 1 .. MaxFd
      <4>1. 0 \notin DOMAIN files
        BY LenProperties DEF TypeInv, TypeOK
      <4> QED BY <2>0, <2>2, <4>1 DEF At, Free
    <3>2. Cardinality(LinesOf(f)) < SizeLimit
      BY <1>9, <2>2, <3>1
    <3> QED BY <1>2, <1>8, <2>0, <3>2
  <2> QED BY <2>1, <2>2
<1>11. ASSUME log_state' = "LOG_IS_OPEN", logfile' \in 1..MaxFd
       PROVE  \E f \in DOMAIN files :
                /\ f = fds'[logfile']
                /\ Cardinality(LinesOf(f)') <= logSize' /\ Cardinality(LinesOf(f)') < SizeLimit
  <2>1. PICK f \in DOMAIN files : f = fds[logfile] /\ f = At(logfile)
    BY <1>1, <1>9, <1>11
  <2>2. Cardinality(LinesOf(f)) <= logSize /\ Cardinality(LinesOf(f)) < SizeLimit
    BY <1>1, <1>9, <1>11, <2>1
  <2>3. PICK a \in Nat, c \in Nat, n \in Nat :
          /\ a = Cardinality(LinesOf(f)) /\ c = Cardinality(LinesOf(f)') /\ n = Len(b)
          /\ c <= a + n /\ (N = {} => c <= a)
    BY <1>2, <1>8, <2>1
  <2>4. logSize' = logSize + n /\ (N = {} \/ logSize + n < SizeLimit)
    BY <1>4, <1>11, <2>3
  <2>5. c <= logSize' /\ c < SizeLimit
    BY <1>2, <2>2, <2>3, <2>4
  <2> QED BY <1>1, <2>1, <2>3, <2>5
<1>12. Sizes'
  BY <1>10, <1>11 DEF Sizes
<1> QED BY <1>5, <1>12

\* A finished request leaves the lines of every file what they were, or less.
LEMMA LinesOfMoved ==
  ASSUME NEW i \in DOMAIN pool, NEW r, Moved(i, r), NEW f,
         \/ files'[f] = files[f]
         \/ /\ pool[i].file = f
            /\ \E done : /\ \A j \in DOMAIN files'[f] :
                              \/ files'[f][j] \in Range(files[f])
                              \/ files'[f][j] \in Range(done)
                         /\ Range(done) \subseteq Range(pool[i].lines)
  PROVE  LinesOf(f)' \subseteq LinesOf(f)
<1> SUFFICES ASSUME NEW x \in LinesOf(f)'
             PROVE  x \in LinesOf(f)
  OBVIOUS
<1>1. \/ \E j \in DOMAIN files'[f] : x = files'[f][j]
      \/ \E k \in DOMAIN pool' : /\ pool'[k].file = f
                                 /\ \E j \in DOMAIN pool'[k].lines : x = pool'[k].lines[j]
  BY DEF LinesOf, Range
<1>2. CASE \E j \in DOMAIN files'[f] : x = files'[f][j]
  <2>1. CASE files'[f] = files[f]
    BY <1>2, <2>1, LinesOfDef
  <2>2. CASE /\ pool[i].file = f
             /\ x \in Range(files[f]) \/ x \in Range(pool[i].lines)
    <3>1. x \in Range(files[f]) => \E j \in DOMAIN files[f] : x = files[f][j]
      BY DEF Range
    <3>2. x \in Range(pool[i].lines) => \E j \in DOMAIN pool[i].lines : x = pool[i].lines[j]
      BY DEF Range
    <3> QED BY <2>2, <3>1, <3>2, LinesOfDef
  <2> QED BY <1>2, <2>1, <2>2
<1>3. CASE \E k \in DOMAIN pool' : /\ pool'[k].file = f
                                   /\ \E j \in DOMAIN pool'[k].lines : x = pool'[k].lines[j]
  <2>1. PICK k \in DOMAIN pool' : /\ pool'[k].file = f
                                  /\ \E j \in DOMAIN pool'[k].lines : x = pool'[k].lines[j]
    BY <1>3
  <2>2. Skip(i, k) \in DOMAIN pool /\ pool'[k] = pool[Skip(i, k)]
    BY DEF Moved
  <2> QED BY <2>1, <2>2, LinesOfDef
<1> QED BY <1>1, <1>2, <1>3

\* A new file has no lines.
LEMMA BoundsRunOpen ==
  ASSUME TypeInv, Lines, Apart, Sizes, NEW i, RunOpen(i)
  PROVE  Apart' /\ Sizes'
<1>0. /\ TypeOK /\ fds \in [1 .. MaxFd -> Foreign .. Len(files)]
      /\ Len(files) \in Nat /\ Foreign = -1 /\ Free = 0 /\ pool \in Seq(RequestType)
      /\ DOMAIN files = 1 .. Len(files)
  BY LenProperties DEF TypeInv, TypeOK, Foreign, Free
<1>1. i \in 1 .. Len(pool) /\ i \in DOMAIN pool /\ pool[i].op = "open"
  BY <1>0, LenProperties DEF RunOpen, Running
<1>2. CASE \E fd \in 1..MaxFd :
             /\ fds[fd] = Free /\ fds' = [fds EXCEPT ![fd] = Len(files) + 1]
             /\ files' = Append(files, <<>>) /\ Finish(i, fd)
  <2>1. PICK fd \in 1..MaxFd :
             /\ fds[fd] = Free /\ fds' = [fds EXCEPT ![fd] = Len(files) + 1]
             /\ files' = Append(files, <<>>) /\ Finish(i, fd)
    BY <1>2
  <2>2. /\ Moved(i, fd) /\ pool[i] \in RequestType /\ UNCHANGED <<log_state, logfile, logSize>>
    <3>1. Moved(i, fd) /\ pool[i] \in RequestType
      <4>1. Finish(i, fd) /\ fd \in Int /\ i \in 1 .. Len(pool) /\ TypeOK
        BY <1>0, <1>1, <2>1
      <4> QED BY <4>1, FinishMoves
    <3> QED BY <2>1, <3>1 DEF Finish, luaVars
  <2>3. Changes(i, fd, fd)
    BY <1>0, <1>1, <2>1 DEF Changes
  <2>4. /\ \A f \in 1 .. Len(files) : files'[f] = files[f]
        /\ files'[Len(files) + 1] = <<>> /\ DOMAIN files' = 1 .. Len(files) + 1
    BY <1>0, <2>1, FileMade
  <2>5. fds'[fd] = Len(files) + 1 /\ fd \in Int
    BY <1>0, <2>1
  <2>6. Apart'
    BY <1>1, <2>2, <2>3, <2>4, <2>5, ApartMoved
  <2>7. ASSUME NEW f \in DOMAIN files
        PROVE  LinesOf(f)' \subseteq LinesOf(f)
    BY <1>0, <1>1, <2>2, <2>4, LinesOfMoved
  <2>8. ASSUME NEW f \in DOMAIN files', f \notin DOMAIN files
        PROVE  LinesOf(f)' = {}
    <3>1. f = Len(files) + 1 /\ files'[f] = <<>>
      BY <1>0, <2>4, <2>8
    <3>2. \A k \in DOMAIN pool' : pool'[k].file # f
      <4>1. \A k \in DOMAIN pool : pool[k].file \in Foreign .. Len(files)
        BY DEF TypeInv, Requests, WellFormed, Outstanding, ToSet
      <4>2. \A k \in DOMAIN pool : pool[k].file # f
        BY <1>0, <3>1, <4>1
      <4> QED BY <2>2, <4>2 DEF Moved
    <3> SUFFICES ASSUME NEW x \in LinesOf(f)'
                 PROVE  FALSE
      OBVIOUS
    <3>3. \/ \E j \in DOMAIN files'[f] : x = files'[f][j]
          \/ \E k \in DOMAIN pool' : pool'[k].file = f
      BY DEF LinesOf, Range
    <3> QED BY <3>1, <3>2, <3>3, EmptyDomain
  <2>9. log_state = "LOG_IS_OPEN" /\ logfile \in 1 .. MaxFd => fds'[logfile] = fds[logfile]
    BY <1>0, <2>1 DEF Apart, CurrentFile
  <2>10. logSize \in Nat
    BY <1>0 DEF TypeOK
  <2>11. Sizes'
    BY <2>2, <2>7, <2>8, <2>9, <2>10, SizesSame
  <2> QED BY <2>6, <2>11
<1>3. CASE Finish(i, -1) /\ UNCHANGED <<fds, files>>
  <2>1. /\ Moved(i, -1) /\ pool[i] \in RequestType /\ UNCHANGED <<log_state, logfile, logSize>>
    <3>1. UNCHANGED <<log_state, logfile, logSize>>
      BY <1>3 DEF Finish, luaVars
    <3>2. PICK r \in Int : r = -1
      OBVIOUS
    <3>3. Finish(i, r) /\ i \in 1 .. Len(pool) /\ TypeOK
      BY <1>0, <1>1, <1>3, <3>2
    <3>4. Moved(i, r) /\ pool[i] \in RequestType
      BY ONLY r \in Int, <3>3, FinishMoves
    <3> QED BY <3>1, <3>2, <3>4
  <2>2. Changes(i, -1, -1)
    BY <1>1, <1>3 DEF Changes
  <2>3. Apart'
    BY <1>1, <1>3, <2>1, <2>2, ApartMoved
  <2>4. ASSUME NEW f \in DOMAIN files
        PROVE  LinesOf(f)' \subseteq LinesOf(f)
    BY <1>1, <1>3, <2>1, LinesOfMoved
  <2>5. logSize \in Nat
    BY <1>0 DEF TypeOK
  <2>6. Sizes'
    BY <1>3, <2>1, <2>4, <2>5, SizesSame
  <2> QED BY <2>3, <2>6
<1> QED BY <1>2, <1>3 DEF RunOpen

\* A write that did not stray brings lines that its file was due to get.
LEMMA BoundsRunWrite ==
  ASSUME TypeInv, Lines, Apart, Sizes, NEW i, RunWrite(i), ~strayed'
  PROVE  Apart' /\ Sizes'
<1>1. /\ i \in 1 .. Len(pool) /\ i \in DOMAIN pool /\ pool[i] \in RequestType /\ pool[i].op = "write"
      /\ At(pool[i].fd) = pool[i].file
      /\ UNCHANGED <<log_state, logfile, fds, logSize>>
  <2>1. /\ i \in 1 .. Len(pool) /\ pool[i] \in RequestType /\ pool[i].op = "write"
        /\ strayed' = (strayed \/ At(pool[i].fd) # pool[i].file)
        /\ UNCHANGED <<luaVars, log_state, logfile, fds>>
    BY WriteLands
  <2>2. DOMAIN pool = 1 .. Len(pool)
    BY LenProperties DEF TypeInv, TypeOK
  <2> QED BY <2>1, <2>2 DEF luaVars
<1>2. PICK n \in Int : Moved(i, n)
  BY WriteLands
<1>3. PICK done, gone : Landed(pool[i].lines, pool[i].file, done, gone)
  BY <1>1, WriteLands
<1>4. /\ DOMAIN files' = DOMAIN files /\ DOMAIN files = 1 .. Len(files)
      /\ \A g \in DOMAIN files : g # pool[i].file => files'[g] = files[g]
      /\ \A g \in DOMAIN files : g = pool[i].file => files'[g] = files[g] \o done
  <2>1. TypeOK /\ DOMAIN files = 1 .. Len(files)
    BY LenProperties DEF TypeInv, TypeOK
  <2>2. PICK f, lines : f = pool[i].file /\ Landed(lines, f, done, gone)
    BY <1>3
  <2>3. /\ DOMAIN files' = DOMAIN files
        /\ \A g \in DOMAIN files : g # f => files'[g] = files[g]
        /\ \A g \in DOMAIN files : g = f => files'[g] = files[f] \o done
    <3>1. Landed(lines, f, done, gone)
      BY <2>2
    <3>2. TypeOK
      BY <2>1
    <3> QED BY <3>1, <3>2, LandedFiles
  <2> QED BY <2>1, <2>2, <2>3
<1>5. Changes(i, n, -1)
  BY <1>1 DEF Changes
<1>6. Apart'
  BY <1>1, <1>2, <1>4, <1>5, ApartMoved
<1>7. Range(done) \subseteq Range(pool[i].lines)
  <2>1. pool[i].lines \in Seq(Nat)
    BY <1>1 DEF RequestType
  <2>2. /\ Len(done) \in Nat /\ Len(gone) \in Nat /\ DOMAIN done = 1 .. Len(done)
        /\ DOMAIN pool[i].lines = 1 .. Len(pool[i].lines)
        /\ Len(pool[i].lines) = Len(done) + Len(gone)
        /\ \A j \in 1 .. Len(done) : done[j] = pool[i].lines[j]
    BY <1>3, <2>1, LenProperties DEF Landed
  <2>3. \A j \in DOMAIN done : j \in DOMAIN pool[i].lines
    BY <2>2
  <2> QED BY <2>2, <2>3 DEF Range
<1>8. ASSUME NEW f \in DOMAIN files
      PROVE  LinesOf(f)' \subseteq LinesOf(f)
  <2>1. CASE f # pool[i].file
    <3>1. files'[f] = files[f]
      BY <1>4, <2>1
    <3> QED BY <1>1, <1>2, <3>1, LinesOfMoved
  <2>2. CASE f = pool[i].file
    <3>1. files[f] \in Seq(Nat) /\ done \in Seq(Nat)
      BY <1>3, <1>4, ElementOfSeq DEF TypeInv, TypeOK, Landed
    <3>2. PICK a \in Seq(Nat) : a = files[f] /\ files'[f] = a \o done
      BY <1>4, <2>2, <3>1
    <3>3. /\ Len(a) \in Nat /\ Len(done) \in Nat /\ DOMAIN a = 1 .. Len(a) /\ DOMAIN done = 1 .. Len(done)
          /\ DOMAIN (a \o done) = 1 .. Len(a) + Len(done)
          /\ \A j \in 1 .. Len(a) + Len(done) :
               (a \o done)[j] = IF j <= Len(a) THEN a[j] ELSE done[j - Len(a)]
      BY <3>1, <3>2, ConcatProperties, LenProperties
    <3>4. ASSUME NEW j \in DOMAIN (a \o done)
          PROVE  (a \o done)[j] \in Range(a) \/ (a \o done)[j] \in Range(done)
      <4>1. CASE j <= Len(a)
        BY <3>3, <4>1 DEF Range
      <4>2. CASE ~(j <= Len(a))
        <5>1. PICK k \in DOMAIN done : k = j - Len(a)
          BY <3>3, <4>2
        <5> QED BY <3>3, <4>2, <5>1 DEF Range
      <4> QED BY <4>1, <4>2
    <3> QED BY <1>1, <1>2, <1>7, <2>2, <3>2, <3>4, LinesOfMoved
  <2> QED BY <2>1, <2>2
<1>9. logSize \in Nat
  BY DEF TypeInv, TypeOK
<1>10. Sizes'
  BY <1>1, <1>4, <1>8, <1>9, SizesSame
<1> QED BY <1>6, <1>10

\* A close that did not stray leaves the current file alone.
LEMMA BoundsRunClose ==
  ASSUME TypeInv, Lines, Apart, Sizes, NEW i, RunClose(i), ~strayed'
  PROVE  Apart' /\ Sizes'
<1>0. /\ TypeOK /\ fds \in [1 .. MaxFd -> Foreign .. Len(files)] /\ pool \in Seq(RequestType)
  BY DEF TypeInv, TypeOK
<1>1. /\ i \in 1 .. Len(pool) /\ i \in DOMAIN pool /\ pool[i].op = "close"
      /\ At(pool[i].fd) = pool[i].file /\ files' = files
      /\ fds' = IF pool[i].fd \in 1..MaxFd THEN [fds EXCEPT ![pool[i].fd] = Free] ELSE fds
      /\ Finish(i, IF At(pool[i].fd) = Free THEN -1 ELSE 0)
  BY <1>0, LenProperties DEF RunClose, Running
<1>2. PICK n \in Int : Finish(i, n)
  BY <1>1
<1>3. /\ Moved(i, n) /\ pool[i] \in RequestType /\ UNCHANGED <<log_state, logfile, logSize>>
      /\ pool[i].fd \in Int
  BY <1>0, <1>1, <1>2, FinishMoves DEF Finish, RequestType, luaVars
<1>4. Changes(i, n, pool[i].fd)
  BY <1>0, <1>1 DEF Changes
<1>5. pool[i].fd \in 1 .. MaxFd => fds[pool[i].fd] = pool[i].file
  BY <1>1 DEF At
<1>6. Apart'
  BY <1>1, <1>3, <1>4, <1>5, ApartMoved
<1>7. ASSUME NEW f \in DOMAIN files
      PROVE  LinesOf(f)' \subseteq LinesOf(f)
  BY <1>1, <1>3, LinesOfMoved
<1>8. log_state = "LOG_IS_OPEN" /\ logfile \in 1 .. MaxFd => fds'[logfile] = fds[logfile]
  BY <1>0, <1>1, <1>5 DEF Apart, CurrentFile
<1>9. logSize \in Nat
  BY <1>0 DEF TypeOK
<1>10. Sizes'
  BY <1>1, <1>3, <1>7, <1>8, <1>9, SizesSame
<1> QED BY <1>6, <1>10

\* The callbacks write nothing.
LEMMA BoundsCallback ==
  ASSUME TypeInv, Lines, Apart, Sizes, Callback
  PROVE  Apart' /\ Sizes'
<1>0. logSize \in Nat /\ TypeOK
  BY DEF TypeInv, TypeOK
<1>1. CASE on_log_open
  <2>1. /\ UNCHANGED <<fds, files, pool, logSize>> /\ log_state' = "LOG_IS_OPEN"
    BY <1>1 DEF on_log_open, luaVars
  <2>2. /\ Apart'
        /\ logfile' \in 1 .. MaxFd =>
             fds[logfile'] > 0 /\ files[fds[logfile']] = <<>>
             /\ \A i \in DOMAIN pool : pool[i].file # fds[logfile']
    BY <1>1, ApartOpened
  <2>3. \A f : LinesOf(f)' = LinesOf(f)
    BY <2>1 DEF LinesOf
  <2>4. ASSUME logfile' \in 1 .. MaxFd
        PROVE  \E f : f = fds'[logfile'] /\ LinesOf(f)' = {}
    <3>1. PICK f : f = fds[logfile'] /\ files[f] = <<>> /\ \A i \in DOMAIN pool : pool[i].file # f
      BY <2>2, <2>4
    <3>2. \A x : x \notin LinesOf(f)
      BY <3>1, LinesOfDef, EmptyDomain
    <3> QED BY <2>1, <2>3, <3>1, <3>2
  <2>5. logfile' \in 1 .. MaxFd => /\ Cardinality(LinesOf(fds[logfile])') <= logSize
                                   /\ Cardinality(LinesOf(fds[logfile])') < SizeLimit
    <3> SUFFICES ASSUME logfile' \in 1 .. MaxFd
                 PROVE  /\ Cardinality(LinesOf(fds[logfile])') <= logSize
                        /\ Cardinality(LinesOf(fds[logfile])') < SizeLimit
      OBVIOUS
    <3>1. LinesOf(fds[logfile])' = {}
      BY <2>4
    <3>2. Cardinality(LinesOf(fds[logfile])') = 0
      BY <3>1, FS_EmptySet
    <3> QED BY <1>0, <3>2, LogAssumption
  <2>6. \A f \in DOMAIN files' : Cardinality(LinesOf(f)') < SizeLimit + Capacity
    BY <2>1, <2>3 DEF Sizes
  <2>7. Sizes'
    BY <2>1, <2>5, <2>6 DEF Sizes
  <2> QED BY <2>2, <2>7
<1>2. PICK q : q = Head(finished) /\ Called(q) /\ q.file \in Foreign .. Len(files) /\ q \in RequestType
  <2>1. Called(Head(finished))
    BY CallbackCalls DEF Callback, on_log_open, CloseAfterWrite, on_log_write, on_log_close, TypeInv
  <2> QED BY <2>1, CalledWellFormed
<1>3. ASSUME close_log(q)
      PROVE  \E N : /\ Added(N)
                    /\ \A p \in N : p.file = q.file /\ p.cb # "close_log" /\ p.lines = <<>>
  <2>1. Added({CloseRequest(q.file)})
    BY <1>2, <1>3, CloseAdds
  <2>2. q.file \in Int
    BY <1>2 DEF RequestType
  <2>3. PICK c : c = CloseRequest(q.file)
    OBVIOUS
  <2>4. c.file = q.file /\ c.cb = "on_log_close" /\ c.lines = <<>>
    BY <1>0, <2>2, <2>3, OpenClose
  <2>5. Added({c}) /\ \A p \in {c} : p.file = q.file /\ p.cb # "close_log" /\ p.lines = <<>>
    BY <2>1, <2>3, <2>4
  <2> QED BY <2>5
<1>4. CASE ~on_log_open
  <2>1. UNCHANGED <<logfile, fds, files, logSize>>
    BY <1>4 DEF Callback, CloseAfterWrite, on_log_write, on_log_close, luaVars
  <2>2. \E N : /\ Added(N)
               /\ \A p \in N : p.file = q.file /\ p.cb # "close_log" /\ p.lines = <<>>
               /\ log_state' = "LOG_IS_OPEN" =>
                    log_state = "LOG_IS_OPEN" /\ (N = {} \/ q.cb = "close_log")
    <3>1. CASE close_log(q) /\ (log_state' = "LOG_NOT_OPEN" \/ (q.cb = "close_log" /\ log_state' = log_state))
      BY <1>3, <3>1
    <3>2. CASE UNCHANGED <<pool, log_state>>
      <4>1. PICK N : N = {}
        OBVIOUS
      <4>2. Added(N)
        BY <1>0, <3>2, <4>1, AddNone
      <4> QED BY <3>2, <4>1, <4>2
    <3> QED BY <1>2, <1>4, <3>1, <3>2 DEF Callback, CloseAfterWrite, on_log_write, on_log_close
  <2>3. PICK N : /\ Added(N)
                 /\ \A p \in N : p.file = q.file /\ p.cb # "close_log" /\ p.lines = <<>>
                 /\ log_state' = "LOG_IS_OPEN" =>
                      log_state = "LOG_IS_OPEN" /\ (N = {} \/ q.cb = "close_log")
    BY <2>2
  <2>4. Apart'
    <3>1. /\ \A p \in N : p.file = q.file /\ p.cb # "close_log"
          /\ log_state' = "LOG_IS_OPEN" =>
               log_state = "LOG_IS_OPEN" /\ (N = {} \/ q.cb = "close_log")
      BY <2>3
    <3> QED BY <1>2, <2>1, <2>3, <3>1, ApartCalled
  <2>5. ASSUME NEW f \in DOMAIN files
        PROVE  LinesOf(f)' \subseteq LinesOf(f)
    <3>1. PICK b : b = {}
      OBVIOUS
    <3>2. \A p \in N : p.file = f => Range(p.lines) \subseteq b
      <4>1. Range(<<>>) = {}
        BY EmptyDomain DEF Range
      <4>2. \A p \in N : p.lines = <<>>
        BY <2>3
      <4> QED BY <4>1, <4>2
    <3>3. LinesOf(f)' \subseteq LinesOf(f) \cup b
      BY <2>1, <2>3, <3>2, LinesOfAdded
    <3> QED BY <3>1, <3>3
  <2>6. Sizes'
    <3>1. log_state' = "LOG_IS_OPEN" => log_state = "LOG_IS_OPEN"
      BY <2>3
    <3>2. logSize' \in Nat /\ logSize' >= logSize
      BY <1>0, <2>1
    <3> QED BY <2>1, <2>5, <3>1, <3>2, SizesSame
  <2> QED BY <2>4, <2>6
<1> QED BY <1>1, <1>4

\* Every step keeps the bounds.
LEMMA BoundsStep == TypeInv /\ Lines /\ Bounds /\ [Next]_vars => Bounds'
<1> SUFFICES ASSUME TypeInv, Lines, Bounds, [Next]_vars, ~strayed'
             PROVE  Apart' /\ Sizes'
  BY DEF Bounds
<1>0. Apart /\ Sizes
  <2>1. ASSUME strayed PROVE FALSE
    <3>1. LogLine \/ LogBatch \/ OtherOpens \/ OtherCloses \/ UNCHANGED vars => strayed'
      BY <2>1 DEF LogLine, LogBatch, OtherOpens, OtherCloses, vars
    <3>2. ASSUME NEW i, RunOpen(i) \/ RunWrite(i) \/ RunClose(i) PROVE strayed'
      BY <2>1, <3>2 DEF RunOpen, RunWrite, RunClose
    <3>3. Callback => strayed'
      BY <2>1 DEF Callback, on_log_open, CloseAfterWrite, on_log_write, on_log_close
    <3> QED BY <3>1, <3>2, <3>3 DEF Next, Pool
  <2> QED BY <2>1 DEF Bounds
<1>1. CASE LogLine
  BY <1>0, <1>1, BoundsLine
<1>2. CASE LogBatch
  BY <1>0, <1>2, BoundsBatch
<1>3. CASE Pool
  BY <1>0, <1>3, BoundsRunOpen, BoundsRunWrite, BoundsRunClose DEF Pool
<1>4. CASE Callback
  BY <1>0, <1>4, BoundsCallback
<1>5. CASE OtherOpens \/ OtherCloses
  <2>1. /\ Apart'
        /\ log_state = "LOG_IS_OPEN" /\ logfile \in 1 .. MaxFd => fds'[logfile] = fds[logfile]
    BY <1>0, <1>5, ApartOthers
  <2>2. UNCHANGED <<log_state, logfile, files, pool, logSize>> /\ logSize \in Nat
    BY <1>5 DEF OtherOpens, OtherCloses, luaVars, TypeInv, TypeOK
  <2>3. \A f : LinesOf(f)' = LinesOf(f)
    BY <2>2 DEF LinesOf
  <2>4. Sizes'
    BY <1>0, <2>1, <2>2, <2>3, SizesSame
  <2> QED BY <2>1, <2>4
<1>6. CASE UNCHANGED vars
  <2>1. UNCHANGED <<log_state, logfile, files, pool, finished, fds, logSize>>
    BY <1>6 DEF vars
  <2>2. Outstanding' = Outstanding /\ \A k, fd : Opened(k, fd)' <=> Opened(k, fd)
    BY <2>1 DEF Outstanding, Opened
  <2>3. OneDescriptor' /\ FreshFiles' /\ CurrentFile'
    BY <1>0, <2>1, <2>2 DEF Apart, OneDescriptor, FreshFiles, CurrentFile
  <2>4. \A f : LinesOf(f)' = LinesOf(f)
    BY <2>1 DEF LinesOf
  <2>5. logSize \in Nat
    BY DEF TypeInv, TypeOK
  <2>6. Sizes'
    BY <1>0, <2>1, <2>4, <2>5, SizesSame
  <2> QED BY <2>3, <2>6 DEF Apart
<1> QED BY <1>1, <1>2, <1>3, <1>4, <1>5, <1>6 DEF Next

\* The bounds hold initially.
LEMMA BoundsInit == Init => Bounds
<1> SUFFICES ASSUME Init
             PROVE  Apart /\ Sizes
  BY DEF Bounds
<1>1. /\ DOMAIN files = {} /\ DOMAIN finished = {} /\ log_state = "LOG_NOT_OPEN"
      /\ \A fd \in 1 .. MaxFd : fds[fd] = 0
  BY EmptyDomain DEF Init, Free
<1> QED BY <1>1 DEF Apart, Sizes, OneDescriptor, FreshFiles, CurrentFile

\* As long as no request strayed, every log file ends up with less than the limit and one
\* more batch, however many writes are under way when it is rotated and whichever fail.
THEOREM FilesAreBounded == Spec => []FilesBounded
<1>1. TypeInv /\ Lines /\ Bounds => FilesBounded
  <2> SUFFICES ASSUME TypeInv, Lines, Bounds, ~strayed, NEW f \in DOMAIN files
               PROVE  Len(files[f]) < SizeLimit + Capacity
    BY DEF FilesBounded
  <2>1. PICK s \in Seq(Nat) : s = files[f] /\ Len(s) \in Nat /\ DOMAIN s = 1 .. Len(s)
    BY ElementOfSeq, LenProperties DEF TypeInv, TypeOK
  <2>2. PICK S : S = LinesOf(f) /\ IsFiniteSet(S) /\ Cardinality(S) \in Nat
    BY LinesOfFinite
  <2>3. s \in Injection(1 .. Len(s), S)
    <3>1. \A j \in 1 .. Len(s) : s[j] \in S
      BY <2>1, <2>2, LinesOfDef
    <3>2. \A j, k \in 1 .. Len(s) : s[j] = s[k] => j = k
      BY <2>1 DEF Lines, Disjoint
    <3>3. s \in [1 .. Len(s) -> S]
      BY <2>1, <3>1
    <3> QED BY <2>1, <3>2, <3>3 DEF Injection, IsInjective
  <2>4. Cardinality(1 .. Len(s)) <= Cardinality(S)
    BY <2>2, <2>3, FS_Injection
  <2>5. Cardinality(1 .. Len(s)) = Len(s)
    BY <2>1, IntervalFrom1
  <2>6. Cardinality(S) < SizeLimit + Capacity
    BY <2>2 DEF Bounds, Sizes
  <2> QED BY <2>1, <2>2, <2>4, <2>5, <2>6, LogAssumption
<1> QED BY <1>1, TypeInit, TypeStep, LinesInit, LinesStep, BoundsInit, BoundsStep, PTL DEF Spec

============================================================================
