----------------------------- MODULE NtpPoolProofs -----------------------------
(***************************************************************************)
(* Theorems about NtpPool, for every result of socket() that FdsAssumption *)
(* allows and any number of duplicated datagrams.                          *)
(***************************************************************************)
EXTENDS NtpPool, SequenceTheorems, TLAPS

-----------------------------------------------------------------------------
(* Numbers of calls and datagrams on their way.                            *)

\* A failed call's result in eax is never turned into the number of write.
LEMMA NegativeIsNoWrite ==
  ASSUME NEW w \in Int, w < 0
  PROVE  MovLow(w, write) # write
BY DEF MovLow, write

LEMMA LowNumber == MovLow(0, write) = write /\ MovLow(48, write) = write
BY DEF MovLow, write

LEMMA NumberIsInt ==
  ASSUME NEW w \in Int, NEW n \in Int
  PROVE  MovLow(w, n) \in Int /\ Mov16(w, n) \in Int
BY DEF MovLow, Mov16

\* What the elements of a concatenation are.
LEMMA Joined ==
  ASSUME NEW S, NEW a \in Seq(S), NEW b \in Seq(S)
  PROVE  /\ a \o b \in Seq(S) /\ Len(a \o b) = Len(a) + Len(b)
         /\ \A k \in 1 .. Len(a) + Len(b) :
              (a \o b)[k] = IF k <= Len(a) THEN a[k] ELSE b[k - Len(a)]
OBVIOUS

\* What is taken off the network is gone, and nothing else changes.
LEMMA Removed ==
  ASSUME NEW S, NEW s \in Seq(S), NEW i \in 1 .. Len(s)
  PROVE  /\ Remove(s, i) \in Seq(S)
         /\ Len(Remove(s, i)) = Len(s) - 1
         /\ \A k \in 1 .. Len(Remove(s, i)) : \E j \in 1 .. Len(s) : Remove(s, i)[k] = s[j]
<1>0. Len(s) \in Nat /\ i \in Nat
  OBVIOUS
<1>1. PICK a : a = SubSeq(s, 1, i - 1)
  OBVIOUS
<1>2. PICK b : b = SubSeq(s, i + 1, Len(s))
  OBVIOUS
<1>3. a \in Seq(S) /\ Len(a) = i - 1 /\ \A k \in 1 .. i - 1 : a[k] = s[k]
  <2>1. \A m \in 1 .. Len(s) : m \in 1 .. Len(s) + 1
    OBVIOUS
  <2>2. \A k \in 1 .. i - 1 : k \in 1 .. (i - 1) - 1 + 1 /\ 1 + k - 1 = k
    BY <1>0
  <2>3. 1 \in 1 .. Len(s) + 1 /\ i - 1 \in 0 .. Len(s)
    BY <1>0
  <2>4. \A k \in 1 .. Len(s) : s[k] \in S
    OBVIOUS
  <2> QED  BY <1>0, <1>1, <2>2, <2>3, <2>4, SubSeqProperties
<1>4. b \in Seq(S) /\ Len(b) = Len(s) - i /\ \A k \in 1 .. Len(s) - i : b[k] = s[i + k]
  <2>1. \A k \in 1 .. Len(s) - i : k \in 1 .. Len(s) - (i + 1) + 1 /\ (i + 1) + k - 1 = i + k
    BY <1>0
  <2>2. i + 1 \in 1 .. Len(s) + 1 /\ Len(s) \in 0 .. Len(s)
    BY <1>0
  <2> QED  BY <1>0, <1>2, <2>1, <2>2, SubSeqProperties
<1>5. Remove(s, i) = a \o b
  BY <1>1, <1>2 DEF Remove
<1>6. a \o b \in Seq(S) /\ Len(a \o b) = Len(s) - 1
  <2>1. a \o b \in Seq(S) /\ Len(a \o b) = Len(a) + Len(b)
    BY <1>3, <1>4, Joined
  <2>2. Len(a) + Len(b) = Len(s) - 1
    BY <1>0, <1>3, <1>4
  <2> QED  BY <2>1, <2>2
<1>7. ASSUME NEW k \in 1 .. Len(s) - 1
      PROVE  \E j \in 1 .. Len(s) : (a \o b)[k] = s[j]
  <2>1. (a \o b)[k] = IF k <= i - 1 THEN a[k] ELSE b[k - (i - 1)]
    <3>1. k \in 1 .. Len(a) + Len(b)
      BY <1>0, <1>3, <1>4
    <3>2. (a \o b)[k] = IF k <= Len(a) THEN a[k] ELSE b[k - Len(a)]
      BY <3>1, <1>3, <1>4, Joined
    <3> QED  BY <3>2, <1>3
  <2>2. CASE k <= i - 1
    BY <2>1, <2>2, <1>0, <1>3
  <2>3. CASE ~(k <= i - 1)
    <3>1. k - (i - 1) \in 1 .. Len(s) - i /\ i + (k - (i - 1)) = k + 1 /\ k + 1 \in 1 .. Len(s)
      BY <1>0, <2>3
    <3>2. (a \o b)[k] = s[k + 1]
      BY <2>1, <2>3, <3>1, <1>4
    <3> QED  BY <3>1, <3>2
  <2> QED  BY <2>2, <2>3
<1> QED  BY <1>5, <1>6, <1>7

-----------------------------------------------------------------------------
(* Types.                                                                  *)

Calls == {"socket", "alarm", "connect", "send", "recv", "decode", "exit", "done"}

\* The type of the state.
TypeOK ==
  /\ pc \in Calls /\ round \in {1, 2} /\ eax \in Int /\ ebx \in Fds \cup {LoadedEbx}
  /\ answer \in {"ntp", "self"} /\ stamp \in Servers \cup {"none"}
  /\ peer \in {"dns", "ntp", "self", "none"}
  /\ queue \in Seq(Replies) /\ refused \in BOOLEAN
  /\ requests \in Seq(Requests) /\ replies \in Seq(Replies)
  /\ duplicates \in Nat /\ sent \subseteq Requests
  /\ clock \in Servers \cup {"kept"} /\ exit \in Int
  /\ pc # "socket" => ebx \in Fds
  /\ pc = "socket" => armed = FALSE

LEMMA FdsRange == Fds \subseteq Int /\ MaxDuplicates \in Nat
BY FdsAssumption

LEMMA EbxRange == TypeOK => ebx \in Int
BY FdsRange DEF TypeOK, LoadedEbx

LEMMA InitTyped == Init => TypeOK
<1> SUFFICES ASSUME Init  PROVE TypeOK
  OBVIOUS
<1>1. queue \in Seq(Replies) /\ requests \in Seq(Requests) /\ replies \in Seq(Replies)
  BY DEF Init
<1>2. exit \in Int /\ duplicates \in Nat /\ eax \in Int /\ sent \subseteq Requests
  BY DEF Init, LoadedEax
<1>3. ebx \in Fds \cup {LoadedEbx} /\ pc = "socket" /\ armed = FALSE /\ refused \in BOOLEAN
  BY DEF Init
<1>4. round \in {1, 2} /\ answer \in {"ntp", "self"} /\ stamp \in Servers \cup {"none"}
      /\ peer \in {"dns", "ntp", "self", "none"} /\ clock \in Servers \cup {"kept"}
  BY DEF Init
<1> QED  BY <1>1, <1>2, <1>3, <1>4 DEF TypeOK, Calls

\* A write puts one request on its way, or fails.
LEMMA WriteTyped ==
  ASSUME TypeOK, Write
  PROVE  /\ eax' \in Int /\ refused' \in BOOLEAN /\ requests' \in Seq(Requests)
         /\ replies' \in Seq(Replies) /\ duplicates' \in Nat /\ sent' \subseteq Requests
<1> DEFINE request == [ to |-> peer, what |-> IF round = 1 THEN "query" ELSE "request" ]
<1>1. CASE refused \/ ebx < 0 \/ peer = "none"
  <2>1. eax' \in {ECONNREFUSED, EBADF, EDESTADDRREQ} /\ UNCHANGED network
    BY <1>1 DEF Write, TypeOK
  <2>2. refused' = refused \/ refused' = FALSE
    BY <1>1 DEF Write, TypeOK
  <2>3. refused' \in BOOLEAN
    <3>1. refused \in BOOLEAN
      BY DEF TypeOK
    <3> QED  BY <2>2, <3>1
  <2> QED  BY <2>1, <2>3 DEF TypeOK, network, ECONNREFUSED, EBADF, EDESTADDRREQ
<1>2. CASE ~(refused \/ ebx < 0 \/ peer = "none")
  <2>1. request \in Requests
    BY <1>2 DEF TypeOK, Requests, Servers
  <2>2. requests' = Append(requests, request) /\ sent' = sent \cup {request}
    BY <1>2 DEF Write, TypeOK
  <2> HIDE DEF request
  <2> QED  BY <1>2, <2>1, <2>2 DEF Write, TypeOK
<1> QED  BY <1>1, <1>2

LEMMA ProgramTyped ==
  ASSUME TypeOK, Program \/ Sigalrm
  PROVE  TypeOK'
<1> USE FdsRange
<1>1. CASE Socket
  BY <1>1 DEF Socket, TypeOK, Calls, socket, network, world
<1>2. CASE Alarm
  BY <1>2 DEF Alarm, TypeOK, Calls, socket, network
<1>3. CASE Connect
  BY <1>3 DEF Connect, TypeOK, Calls, network, world, Destination, ENETUNREACH, EBADF, ENOSYS, Servers
<1>4. CASE Send
  <2>1. CASE SendNumber = write
    BY <1>4, <2>1, WriteTyped DEF Send, TypeOK, Calls, world
  <2>2. CASE SendNumber # write
    BY <1>4, <2>2 DEF Send, TypeOK, Calls, world, network, ENOSYS
  <2> QED  BY <2>1, <2>2
<1>5. CASE Recv
  <2>0. CASE ebx < 0
    BY <1>5, <2>0 DEF Recv, TypeOK, Calls, AfterRecv, network, world, EBADF
  <2>1. CASE ~(ebx < 0) /\ refused
    <3>1. eax' = ECONNREFUSED /\ refused' = FALSE /\ UNCHANGED << answer, stamp, queue >>
          /\ pc' = AfterRecv /\ round' = 2 /\ UNCHANGED << ebx, peer, network, world >>
      BY <1>5, <2>1 DEF Recv
    <3>2. pc = "recv" /\ pc' \in {"connect", "decode"}
      BY <1>5, <3>1 DEF Recv, AfterRecv
    <3>3. UNCHANGED << requests, replies, duplicates, sent, clock, exit, answer, stamp, queue, ebx, peer >>
      BY <3>1 DEF network, world
    <3>4. eax' \in Int /\ round' \in {1, 2} /\ pc' \in Calls
      BY <3>1, <3>2 DEF Calls, ECONNREFUSED
    <3>5. refused' \in BOOLEAN
      BY <3>1
    <3> QED  BY <3>2, <3>3, <3>4, <3>5 DEF TypeOK
  <2>2. CASE ~(ebx < 0) /\ ~refused
    <3>1. queue # << >> /\ Head(queue) \in Replies /\ Tail(queue) \in Seq(Replies)
      BY <1>5, <2>2 DEF Recv, TypeOK
    <3>2. Head(queue).from \in Servers
      BY <3>1 DEF Replies
    <3>3. /\ eax' \in {30, 48} /\ queue' = Tail(queue) /\ refused' = refused
          /\ Received(Head(queue))
          /\ pc' = AfterRecv /\ round' = 2 /\ UNCHANGED << ebx, peer, network, world >>
      BY <1>5, <2>2 DEF Recv
    <3>4. answer' \in {"ntp", "self"} /\ stamp' \in Servers \cup {"none"}
      BY <3>2, <3>3 DEF Received, TypeOK
    <3>5. pc = "recv" /\ pc' \in {"connect", "decode"}
      BY <1>5, <3>3 DEF Recv, AfterRecv
    <3>6. /\ UNCHANGED << requests, replies, duplicates, sent, clock, exit, ebx, peer, refused >>
          /\ eax' \in Int /\ round' \in {1, 2} /\ pc' \in Calls /\ queue' \in Seq(Replies)
      BY <3>1, <3>3, <3>5 DEF network, world, Calls
    <3> QED  BY <3>4, <3>5, <3>6 DEF TypeOK
  <2> QED  BY <2>0, <2>1, <2>2
<1>6. CASE NoTime
  BY <1>6 DEF NoTime, Ended, TypeOK, Calls, socket, network, sys_exit
<1>7. CASE SetTime
  BY <1>7 DEF SetTime, TypeOK, Calls, socket, network, EPERM
<1>8. CASE Exit
  BY <1>8 DEF Exit, Ended, TypeOK, Calls, socket, network, sys_exit
<1>9. CASE Sigalrm
  BY <1>9 DEF Sigalrm, TypeOK, Calls, socket, network
<1> QED  BY <1>1, <1>2, <1>3, <1>4, <1>5, <1>6, <1>7, <1>8, <1>9 DEF Program

\* A reply is what some request asked for.
LEMMA AnswersTyped ==
  ASSUME NEW request \in Requests, NEW answered \in Answers(request)
  PROVE  [ from |-> request.to, what |-> answered ] \in Replies
BY DEF Requests, Replies, Answers

\* The network's part of the state, after a datagram is taken off it.
LEMMA TakenTyped ==
  ASSUME NEW S, NEW s, NEW t, s \in Seq(S), NEW i \in 1 .. Len(s), duplicates \in Nat,
         \/ t = Remove(s, i) /\ duplicates' = duplicates
         \/ duplicates' = duplicates + 1 /\ t = s
  PROVE  t \in Seq(S) /\ duplicates' \in Nat
BY Removed

LEMMA NetworkTyped ==
  ASSUME TypeOK, Serve \/ Refuse \/ Deliver \/ Lose
  PROVE  TypeOK'
<1>1. CASE Serve
  <2>1. PICK i \in 1 .. Len(requests) :
          \E answered \in Answers(requests[i]) :
            /\ Taken(requests, i)
            /\ replies' = Append(replies, [ from |-> requests[i].to, what |-> answered ])
    BY <1>1 DEF Serve
  <2>2. PICK answered \in Answers(requests[i]) :
            /\ Taken(requests, i)
            /\ replies' = Append(replies, [ from |-> requests[i].to, what |-> answered ])
    BY <2>1
  <2>3. requests[i] \in Requests
    BY DEF TypeOK
  <2>4. replies' \in Seq(Replies)
    BY <2>2, <2>3, AnswersTyped DEF TypeOK
  <2>5. requests' \in Seq(Requests) /\ duplicates' \in Nat
    BY <2>2, TakenTyped DEF Taken, TypeOK
  <2>6. UNCHANGED << program, world, queue, refused, sent, peer >>
    BY <1>1 DEF Serve, Outside, socket
  <2> QED  BY <2>4, <2>5, <2>6 DEF program, world, TypeOK
<1>2. CASE Refuse
  <2>1. PICK i \in 1 .. Len(requests) :
          Taken(requests, i) /\ refused' = (refused \/ peer = requests[i].to)
    BY <1>2 DEF Refuse
  <2>2. requests' \in Seq(Requests) /\ duplicates' \in Nat
    BY <2>1, TakenTyped DEF Taken, TypeOK
  <2> QED  BY <1>2, <2>1, <2>2 DEF Refuse, Outside, program, world, TypeOK
<1>3. CASE Deliver
  <2>1. PICK i \in 1 .. Len(replies) :
          /\ Taken(replies, i)
          /\ queue' = IF replies[i].from = peer THEN Append(queue, replies[i]) ELSE queue
    BY <1>3 DEF Deliver
  <2>2. replies' \in Seq(Replies) /\ duplicates' \in Nat
    BY <2>1, TakenTyped DEF Taken, TypeOK
  <2>3. queue' \in Seq(Replies)
    BY <2>1 DEF TypeOK
  <2> QED  BY <1>3, <2>2, <2>3 DEF Deliver, Outside, program, world, TypeOK
<1>4. CASE Lose
  <2>1. requests' \in Seq(Requests) /\ replies' \in Seq(Replies)
    BY <1>4, Removed DEF Lose, TypeOK
  <2> QED  BY <1>4, <2>1 DEF Lose, Outside, program, world, TypeOK
<1> QED  BY <1>1, <1>2, <1>3, <1>4

LEMMA StepTyped == TypeOK /\ [Next]_vars => TypeOK'
<1> SUFFICES ASSUME TypeOK, [Next]_vars  PROVE TypeOK'
  OBVIOUS
<1>1. CASE UNCHANGED vars
  BY <1>1 DEF vars, program, socket, network, world, TypeOK
<1> QED  BY <1>1, ProgramTyped, NetworkTyped DEF Next

\* The state of the program, the socket and the network keeps its type.
THEOREM TypeCorrect == Spec => []TypeOK
BY InitTyped, StepTyped, PTL DEF Spec

-----------------------------------------------------------------------------
(* Which server gets what.                                                 *)

\* The socket is connected to the DNS server in the first round only; in the
\* second one either connect has moved it on, or eax is negative, and the
\* number of write comes out as another.
Directed ==
  /\ round = 1 => peer \in {"none", "dns"}
  /\ pc = "socket" => sent = {}
  /\ pc = "send" /\ round = 2 => \/ peer \in {"ntp", "self"}
                                 \/ eax < 0
  /\ NoMisdirected

\* Only Send writes.
LEMMA SendDirected ==
  ASSUME TypeOK, Directed, Send
  PROVE  Directed'
<1>1. CASE SendNumber = write
  <2>1. eax >= 0
    BY <1>1, NegativeIsNoWrite DEF SendNumber, TypeOK
  <2>2. CASE sent' = sent
    BY <2>2 DEF Send, Directed, NoMisdirected
  <2>3. CASE sent' # sent
    <3>1. /\ sent' = sent \cup {[ to |-> peer, what |-> IF round = 1 THEN "query" ELSE "request" ]}
          /\ peer # "none"
      BY <1>1, <2>3 DEF Send, Write, network, TypeOK
    <3>2. (peer = "dns") = (round = 1)
      BY <2>1, <3>1 DEF Send, Directed, TypeOK
    <3> QED  BY <3>1, <3>2 DEF Send, Directed, NoMisdirected, TypeOK
  <2> QED  BY <2>2, <2>3
<1>2. CASE SendNumber # write
  BY <1>2 DEF Send, Directed, NoMisdirected, network
<1> QED  BY <1>1, <1>2

LEMMA StepDirected == TypeOK /\ Directed /\ [Next]_vars => Directed'
<1> SUFFICES ASSUME TypeOK, Directed, [Next]_vars  PROVE Directed'
  OBVIOUS
<1> USE DEF NoMisdirected
<1>1. CASE Socket
  <2>1. sent' = sent /\ peer' = peer /\ round' = round /\ pc' = "alarm"
    BY <1>1 DEF Socket, socket, network
  <2>2. sent = {}
    BY <1>1 DEF Socket, Directed
  <2> QED  BY <2>1, <2>2 DEF Directed
<1>2. CASE Alarm \/ NoTime \/ SetTime \/ Exit \/ Sigalrm
  BY <1>2 DEF Alarm, NoTime, SetTime, Exit, Sigalrm, Ended, socket, network, Directed
<1>3. CASE Connect
  <2>1. \/ eax' = 0 /\ peer' = Destination
        \/ eax' < 0 /\ peer' = peer
    BY <1>3 DEF Connect, ENETUNREACH, EBADF, ENOSYS
  <2>2. pc' = "send" /\ UNCHANGED << round, ebx, sent >>
    BY <1>3 DEF Connect, network
  <2> QED  BY <2>1, <2>2 DEF Directed, Destination, TypeOK
<1>4. CASE Send
  BY <1>4, SendDirected
<1>5. CASE Recv
  BY <1>5 DEF Recv, AfterRecv, Directed, network
<1>6. CASE Serve \/ Refuse \/ Deliver \/ Lose \/ UNCHANGED vars
  <2>1. UNCHANGED << pc, round, eax, ebx, peer, sent >>
    BY <1>6 DEF Serve, Refuse, Deliver, Lose, Outside, vars, program, socket, network
  <2> QED  BY <2>1 DEF Directed
<1> QED  BY <1>1, <1>2, <1>3, <1>4, <1>5, <1>6 DEF Next, Program

\* Whatever socket() returned, neither server is sent what is meant for the other.
THEOREM WellDirected == Spec => []NoMisdirected
<1>1. Init => Directed
  BY DEF Init, Directed, NoMisdirected
<1>2. Directed => NoMisdirected
  BY DEF Directed
<1> QED  BY <1>1, <1>2, InitTyped, StepTyped, StepDirected, PTL DEF Spec

-----------------------------------------------------------------------------
(* What the exit status says.                                              *)

\* Between settimeofday and exit, eax holds whether the clock was set.
Told ==
  /\ clock # "kept" => pc \in {"exit", "done"}
  /\ pc = "exit" => eax = (IF clock = "kept" THEN EPERM ELSE 0)
  /\ ExitTells

\* What settimeofday returns, as a status.
LEMMA Status == EPERM % 256 # 0 /\ 0 % 256 = 0
BY DEF EPERM

LEMMA StepTold == TypeOK /\ Told /\ [Next]_vars => Told'
<1> SUFFICES ASSUME TypeOK, Told, [Next]_vars  PROVE Told'
  OBVIOUS
<1> USE DEF ExitTells
<1>1. CASE NoTime
  <2>1. /\ clock' = "kept" /\ pc' = "done" /\ exit' = ebx % 256
        /\ stamp' = "none" /\ ebx' = ebx
    BY <1>1 DEF NoTime, Ended, Told
  <2> QED  BY <2>1 DEF Told
<1>2. CASE SetTime
  <2>1. pc' = "exit" /\ stamp # "none" /\ clock = "kept" /\ pc = "decode"
    BY <1>2 DEF SetTime, Told
  <2>2. stamp # "kept"
    BY DEF TypeOK, Servers
  <2>3. (eax' = 0 /\ clock' = stamp) \/ (eax' = EPERM /\ clock' = clock)
    BY <1>2 DEF SetTime, EPERM
  <2> QED  BY <2>1, <2>2, <2>3 DEF Told
<1>3. CASE Exit
  <2>1. pc = "exit" /\ pc' = "done" /\ exit' = eax % 256 /\ clock' = clock
    BY <1>3 DEF Exit, Ended
  <2> QED  BY <2>1, Status DEF Told
<1>4. CASE Sigalrm
  BY <1>4 DEF Sigalrm, Told
<1>5. CASE Socket \/ Alarm \/ Connect \/ Send \/ Recv
  <2>1. pc \notin {"exit", "done"} /\ pc' \notin {"exit", "done"} /\ clock' = clock
    BY <1>5 DEF Socket, Alarm, Connect, Send, Recv, AfterRecv, world
  <2> QED  BY <2>1 DEF Told
<1>6. CASE Serve \/ Refuse \/ Deliver \/ Lose \/ UNCHANGED vars
  <2>1. UNCHANGED << pc, eax, ebx, stamp, clock, exit >>
    BY <1>6 DEF Serve, Refuse, Deliver, Lose, Outside, vars, program, world
  <2> QED  BY <2>1 DEF Told
<1> QED  BY <1>1, <1>2, <1>3, <1>4, <1>5, <1>6 DEF Next, Program

\* The exit status says whether the clock was set, but for a late SIGALRM.
THEOREM StatusTells == Spec => []ExitTells
<1>1. Init => Told
  BY DEF Init, Told, ExitTells
<1>2. Told => ExitTells
  BY DEF Told
<1> QED  BY <1>1, <1>2, InitTyped, StepTyped, StepTold, PTL DEF Spec

-----------------------------------------------------------------------------
(* Where the time comes from.                                              *)

\* How many datagrams and errors the DNS server's one query still accounts for.
None == requests = << >> /\ replies = << >> /\ queue = << >> /\ refused = FALSE
AtMostOne == /\ Len(requests) + Len(replies) + Len(queue) <= 1
             /\ refused = TRUE => Len(requests) + Len(replies) + Len(queue) = 0

\* Nothing to or from the DNS server is on its way or queued.
NoDns ==
  /\ \A k \in 1 .. Len(requests) : requests[k].to # "dns"
  /\ \A k \in 1 .. Len(replies) : replies[k].from # "dns"
  /\ \A k \in 1 .. Len(queue) : queue[k].from # "dns"

\* As long as nothing is delivered twice, the one query of the first round is
\* one datagram, or one error, until the first read has taken it.
OnItsWay ==
  /\ pc = "socket" => round = 1 /\ None
  /\ (duplicates = 0 /\ round = 1) => AtMostOne /\ (pc \notin {"recv", "done"} => None)
  /\ (duplicates = 0 /\ round = 2) => NoDns

\* Nothing is sent, received or refused where there is no socket.
NoSocket == pc # "socket" /\ ebx < 0 => None

\* What has been read as a time is not the DNS server's answer.
Stamped == duplicates = 0 => stamp # "dns" /\ clock # "dns"

LEMMA Appended ==
  ASSUME NEW S, NEW s \in Seq(S), NEW x \in S
  PROVE  /\ Len(Append(s, x)) = Len(s) + 1
         /\ \A k \in 1 .. Len(s) + 1 : Append(s, x)[k] = IF k = Len(s) + 1 THEN x ELSE s[k]
OBVIOUS

LEMMA ServeOnItsWay ==
  ASSUME TypeOK, OnItsWay, Serve
  PROVE  OnItsWay'
<1>1. PICK i \in 1 .. Len(requests) :
        \E answered \in Answers(requests[i]) :
          /\ Taken(requests, i)
          /\ replies' = Append(replies, [ from |-> requests[i].to, what |-> answered ])
  BY DEF Serve
<1>2. PICK reply \in Replies : /\ reply.from = requests[i].to
                               /\ Taken(requests, i) /\ replies' = Append(replies, reply)
  <2>1. PICK answered \in Answers(requests[i]) :
          /\ Taken(requests, i)
          /\ replies' = Append(replies, [ from |-> requests[i].to, what |-> answered ])
    BY <1>1
  <2>2. requests[i] \in Requests
    BY DEF TypeOK
  <2>3. [ from |-> requests[i].to, what |-> answered ] \in Replies
    BY <2>2, AnswersTyped
  <2> QED  BY <2>1, <2>3
<1>3. UNCHANGED << pc, round, ebx, queue, refused >>
  BY DEF Serve, Outside, program
<1>4. requests # << >> /\ ~None
  BY DEF None, TypeOK
<1>5. ASSUME duplicates' = 0
      PROVE  /\ duplicates = 0 /\ Len(requests') = Len(requests) - 1
             /\ \A k \in 1 .. Len(requests') : \E j \in 1 .. Len(requests) : requests'[k] = requests[j]
  <2>1. duplicates = 0 /\ requests' = Remove(requests, i)
    BY <1>2, <1>5 DEF Taken, TypeOK
  <2>2. requests \in Seq(Requests)
    BY DEF TypeOK
  <2> QED  BY <2>1, <2>2, Removed
<1>6. /\ Len(replies') = Len(replies) + 1
      /\ \A k \in 1 .. Len(replies) + 1 :
           replies'[k] = IF k = Len(replies) + 1 THEN reply ELSE replies[k]
  BY <1>2, Appended DEF TypeOK
<1>7. pc' # "socket"
  BY <1>3, <1>4 DEF OnItsWay
<1>8. ASSUME duplicates' = 0, round' = 1
      PROVE  AtMostOne' /\ (pc' \notin {"recv", "done"} => None')
  <2>1. AtMostOne /\ pc \in {"recv", "done"}
    BY <1>3, <1>4, <1>5, <1>8 DEF OnItsWay
  <2>2. Len(requests) \in Nat /\ Len(replies) \in Nat /\ Len(queue) \in Nat /\ Len(requests) > 0
    BY <1>4 DEF TypeOK
  <2>3. Len(requests') + Len(replies') + Len(queue') = Len(requests) + Len(replies) + Len(queue)
    <3>1. Len(requests') = Len(requests) - 1
      BY <1>5, <1>8
    <3>2. Len(replies') = Len(replies) + 1 /\ Len(queue') = Len(queue)
      BY <1>3, <1>6
    <3> QED  BY <2>2, <3>1, <3>2
  <2> QED  BY <1>3, <2>1, <2>3 DEF AtMostOne
<1>9. ASSUME duplicates' = 0, round' = 2
      PROVE  NoDns'
  <2>1. NoDns
    BY <1>3, <1>5, <1>9 DEF OnItsWay
  <2>2. \A k \in 1 .. Len(requests') : requests'[k].to # "dns"
    BY <2>1, <1>5, <1>9 DEF NoDns
  <2>3. \A k \in 1 .. Len(replies') : replies'[k].from # "dns"
    <3>1. Len(replies) \in Nat /\ reply.from # "dns"
      BY <2>1, <1>2 DEF TypeOK, NoDns
    <3>2. ASSUME NEW k \in 1 .. Len(replies) + 1  PROVE replies'[k].from # "dns"
      <4>1. k = Len(replies) + 1 \/ k \in 1 .. Len(replies)
        BY <3>1
      <4> QED  BY <4>1, <3>1, <1>6, <2>1 DEF NoDns
    <3> QED  BY <3>2, <1>6
  <2> QED  BY <2>1, <2>2, <2>3, <1>3 DEF NoDns
<1> QED  BY <1>7, <1>8, <1>9 DEF OnItsWay

LEMMA RefuseOnItsWay ==
  ASSUME TypeOK, OnItsWay, Refuse
  PROVE  OnItsWay'
<1>1. PICK i \in 1 .. Len(requests) :
        Taken(requests, i) /\ refused' = (refused \/ peer = requests[i].to)
  BY DEF Refuse
<1>2. UNCHANGED << pc, round, ebx, queue, replies >>
  BY DEF Refuse, Outside, program
<1>3. requests # << >> /\ ~None
  BY DEF None, TypeOK
<1>4. ASSUME duplicates' = 0
      PROVE  /\ duplicates = 0 /\ Len(requests') = Len(requests) - 1
             /\ \A k \in 1 .. Len(requests') : \E j \in 1 .. Len(requests) : requests'[k] = requests[j]
  <2>1. duplicates = 0 /\ requests' = Remove(requests, i)
    BY <1>1, <1>4 DEF Taken, TypeOK
  <2>2. requests \in Seq(Requests)
    BY DEF TypeOK
  <2> QED  BY <2>1, <2>2, Removed
<1>5. pc' # "socket"
  BY <1>2, <1>3 DEF OnItsWay
<1>6. ASSUME duplicates' = 0, round' = 1
      PROVE  AtMostOne' /\ (pc' \notin {"recv", "done"} => None')
  <2>1. AtMostOne /\ pc \in {"recv", "done"}
    BY <1>2, <1>3, <1>4, <1>6 DEF OnItsWay
  <2>2. Len(requests) \in Nat /\ Len(replies) \in Nat /\ Len(queue) \in Nat /\ Len(requests) > 0
    BY <1>3 DEF TypeOK
  <2>3. Len(requests') + Len(replies') + Len(queue') = 0
    BY <1>2, <1>4, <1>6, <2>1, <2>2 DEF AtMostOne
  <2> QED  BY <1>2, <2>1, <2>3 DEF AtMostOne
<1>7. ASSUME duplicates' = 0, round' = 2
      PROVE  NoDns'
  BY <1>2, <1>4, <1>7 DEF OnItsWay, NoDns
<1> QED  BY <1>5, <1>6, <1>7 DEF OnItsWay

LEMMA DeliverOnItsWay ==
  ASSUME TypeOK, OnItsWay, Deliver
  PROVE  OnItsWay'
<1>1. PICK i \in 1 .. Len(replies) :
        /\ Taken(replies, i)
        /\ queue' = IF replies[i].from = peer THEN Append(queue, replies[i]) ELSE queue
  BY DEF Deliver
<1>2. UNCHANGED << pc, round, ebx, requests, refused >>
  BY DEF Deliver, Outside, program
<1>3. replies # << >> /\ ~None /\ replies[i] \in Replies
  BY DEF None, TypeOK
<1>4. ASSUME duplicates' = 0
      PROVE  /\ duplicates = 0 /\ Len(replies') = Len(replies) - 1
             /\ \A k \in 1 .. Len(replies') : \E j \in 1 .. Len(replies) : replies'[k] = replies[j]
  <2>1. duplicates = 0 /\ replies' = Remove(replies, i)
    BY <1>1, <1>4 DEF Taken, TypeOK
  <2>2. replies \in Seq(Replies)
    BY DEF TypeOK
  <2> QED  BY <2>1, <2>2, Removed
<1>5. pc' # "socket"
  BY <1>2, <1>3 DEF OnItsWay
<1>6. \/ queue' = queue
      \/ /\ Len(queue') = Len(queue) + 1
         /\ \A k \in 1 .. Len(queue) + 1 :
              queue'[k] = IF k = Len(queue) + 1 THEN replies[i] ELSE queue[k]
  BY <1>1, <1>3, Appended DEF TypeOK
<1>7. ASSUME duplicates' = 0, round' = 1
      PROVE  AtMostOne' /\ (pc' \notin {"recv", "done"} => None')
  <2>1. AtMostOne /\ pc \in {"recv", "done"}
    BY <1>2, <1>3, <1>4, <1>7 DEF OnItsWay
  <2>2. Len(requests) \in Nat /\ Len(replies) \in Nat /\ Len(queue) \in Nat /\ Len(replies) > 0
    BY <1>3 DEF TypeOK
  <2>3. /\ Len(requests') + Len(replies') + Len(queue') <= Len(requests) + Len(replies) + Len(queue)
        /\ Len(requests) + Len(replies) + Len(queue) > 0
    BY <1>2, <1>4, <1>6, <1>7, <2>2
  <2>4. Len(requests') + Len(replies') + Len(queue') <= 1 /\ refused' # TRUE
    <3>1. Len(requests') \in Nat /\ Len(replies') \in Nat /\ Len(queue') \in Nat
      <4>1. Len(replies') = Len(replies) - 1 /\ Len(requests') = Len(requests)
        BY <1>2, <1>4, <1>7
      <4>2. Len(queue') = Len(queue) \/ Len(queue') = Len(queue) + 1
        BY <1>6
      <4>3. Len(queue') \in Nat
        BY <2>2, <4>2
      <4>4. Len(replies') \in Nat
        BY <2>2, <4>1
      <4> QED  BY <2>2, <4>1, <4>3, <4>4
    <3>2. refused # TRUE
      <4>1. SUFFICES ASSUME refused = TRUE  PROVE FALSE
        OBVIOUS
      <4>2. Len(requests) + Len(replies) + Len(queue) = 0
        BY <2>1, <4>1, Zenon DEF AtMostOne
      <4> QED  BY <2>2, <2>3, <4>2
    <3>3. Len(requests) + Len(replies) + Len(queue) <= 1
      BY <2>1 DEF AtMostOne
    <3>4. Len(requests') + Len(replies') + Len(queue') <= 1
      BY <2>2, <2>3, <3>1, <3>3
    <3> QED  BY <1>2, <3>2, <3>4
  <2> QED  BY <1>2, <2>1, <2>4 DEF AtMostOne
<1>8. ASSUME duplicates' = 0, round' = 2
      PROVE  NoDns'
  <2>1. NoDns
    BY <1>2, <1>4, <1>8 DEF OnItsWay
  <2>2. \A k \in 1 .. Len(replies') : replies'[k].from # "dns"
    BY <2>1, <1>4, <1>8 DEF NoDns
  <2>3. \A k \in 1 .. Len(queue') : queue'[k].from # "dns"
    <3>1. Len(queue) \in Nat /\ replies[i].from # "dns"
      BY <2>1 DEF TypeOK, NoDns
    <3>2. ASSUME NEW k \in 1 .. Len(queue')  PROVE queue'[k].from # "dns"
      <4>1. CASE queue' = queue
        BY <4>1, <3>2, <2>1 DEF NoDns
      <4>2. CASE queue' # queue
        <5>1. k = Len(queue) + 1 \/ k \in 1 .. Len(queue)
          BY <4>2, <3>1, <3>2, <1>6
        <5> QED  BY <4>2, <5>1, <3>1, <1>6, <2>1 DEF NoDns
      <4> QED  BY <4>1, <4>2
    <3> QED  BY <3>2
  <2> QED  BY <2>1, <2>2, <2>3, <1>2 DEF NoDns
<1> QED  BY <1>5, <1>7, <1>8 DEF OnItsWay

LEMMA LoseOnItsWay ==
  ASSUME TypeOK, OnItsWay, Lose
  PROVE  OnItsWay'
<1>1. UNCHANGED << pc, round, ebx, queue, refused, duplicates >>
  BY DEF Lose, Outside, program
<1>2. \/ (/\ UNCHANGED replies /\ Len(requests') = Len(requests) - 1
          /\ Len(requests) > 0
          /\ \A k \in 1 .. Len(requests') : \E j \in 1 .. Len(requests) : requests'[k] = requests[j])
      \/ (/\ UNCHANGED requests /\ Len(replies') = Len(replies) - 1
          /\ Len(replies) > 0
          /\ \A k \in 1 .. Len(replies') : \E j \in 1 .. Len(replies) : replies'[k] = replies[j])
  <2>1. CASE \E i \in 1 .. Len(requests) : requests' = Remove(requests, i) /\ UNCHANGED replies
    <3>1. PICK i \in 1 .. Len(requests) : requests' = Remove(requests, i) /\ UNCHANGED replies
      BY <2>1
    <3>2. requests \in Seq(Requests) /\ Len(requests) > 0
      BY DEF TypeOK
    <3> QED  BY <3>1, <3>2, Removed, SMTT(30)
  <2>2. CASE \E i \in 1 .. Len(replies) : replies' = Remove(replies, i) /\ UNCHANGED requests
    <3>1. PICK i \in 1 .. Len(replies) : replies' = Remove(replies, i) /\ UNCHANGED requests
      BY <2>2
    <3>2. replies \in Seq(Replies) /\ Len(replies) > 0
      BY DEF TypeOK
    <3> QED  BY <3>1, <3>2, Removed, SMTT(30)
  <2> QED  BY <2>1, <2>2 DEF Lose
<1>3. Len(requests) \in Nat /\ Len(replies) \in Nat /\ Len(queue) \in Nat
  BY DEF TypeOK
<1>4. ~None
  <2>1. requests # << >> \/ replies # << >>
    BY <1>2
  <2> QED  BY <2>1 DEF None
<1>5. pc' # "socket"
  BY <1>1, <1>4 DEF OnItsWay
<1>6. ASSUME duplicates' = 0, round' = 1
      PROVE  AtMostOne' /\ (pc' \notin {"recv", "done"} => None')
  <2>1. AtMostOne /\ pc \in {"recv", "done"}
    BY <1>1, <1>4, <1>6 DEF OnItsWay
  <2>2. Len(requests') + Len(replies') + Len(queue') = Len(requests) + Len(replies) + Len(queue) - 1
        /\ Len(requests) + Len(replies) + Len(queue) > 0
    BY <1>1, <1>2, <1>3
  <2> QED  BY <1>1, <1>3, <2>1, <2>2 DEF AtMostOne
<1>7. ASSUME duplicates' = 0, round' = 2
      PROVE  NoDns'
  BY <1>1, <1>2, <1>7 DEF OnItsWay, NoDns
<1> QED  BY <1>5, <1>6, <1>7 DEF OnItsWay

LEMMA SendOnItsWay ==
  ASSUME TypeOK, Directed, OnItsWay, Send
  PROVE  OnItsWay'
<1>1. pc = "send" /\ pc' = "recv" /\ UNCHANGED << round, ebx, peer, queue >>
  BY DEF Send
<1>2. replies' = replies /\ duplicates' = duplicates
  BY DEF Send, Write, network
<1>3. \/ requests' = requests
      \/ /\ \E r \in Requests : r.to = peer /\ requests' = Append(requests, r)
         /\ SendNumber = write /\ peer # "none"
  <2> DEFINE r == [ to |-> peer, what |-> IF round = 1 THEN "query" ELSE "request" ]
  <2>1. CASE SendNumber = write /\ ~(refused \/ ebx < 0 \/ peer = "none")
    <3>1. requests' = Append(requests, r)
      BY <2>1 DEF Send, Write
    <3>2. r \in Requests /\ r.to = peer
      BY <2>1 DEF TypeOK, Requests, Servers
    <3> QED  BY <2>1, <3>1, <3>2
  <2>2. CASE SendNumber # write \/ refused \/ ebx < 0 \/ peer = "none"
    BY <2>2 DEF Send, Write, network
  <2> QED  BY <2>1, <2>2
<1>4. ASSUME duplicates' = 0, round' = 1
      PROVE  AtMostOne' /\ (pc' \notin {"recv", "done"} => None')
  <2>1. None
    BY <1>1, <1>2, <1>4 DEF OnItsWay
  <2>2. refused' = FALSE
    BY <2>1 DEF Send, Write, None
  <2>3. Len(requests') <= 1 /\ Len(requests') \in Nat
    <3>1. CASE requests' = requests
      BY <3>1, <2>1 DEF None
    <3>2. CASE \E r \in Requests : requests' = Append(requests, r)
      BY <3>2, <2>1, Appended DEF None, TypeOK
    <3> QED  BY <1>3, <3>1, <3>2
  <2> QED  BY <1>1, <1>2, <2>1, <2>2, <2>3 DEF AtMostOne, None
<1>5. ASSUME duplicates' = 0, round' = 2
      PROVE  NoDns'
  <2>1. NoDns
    BY <1>1, <1>2, <1>5 DEF OnItsWay
  <2>2. \A k \in 1 .. Len(requests') : requests'[k].to # "dns"
    <3>1. CASE requests' = requests
      BY <3>1, <2>1 DEF NoDns
    <3>2. CASE requests' # requests
      <4>1. PICK r \in Requests : r.to = peer /\ requests' = Append(requests, r)
        BY <1>3, <3>2
      <4>2. peer # "dns"
        <5>1. eax >= 0
          BY <1>3, <3>2, NegativeIsNoWrite DEF SendNumber, TypeOK
        <5>2. round = 2
          BY <1>1, <1>5
        <5> QED  BY <1>1, <5>1, <5>2 DEF Directed, TypeOK
      <4>3. Len(requests) \in Nat /\ Len(requests') = Len(requests) + 1
        BY <4>1, Appended DEF TypeOK
      <4>4. ASSUME NEW k \in 1 .. Len(requests')  PROVE requests'[k].to # "dns"
        <5>1. k = Len(requests) + 1 \/ k \in 1 .. Len(requests)
          BY <4>3, <4>4
        <5>2. requests'[k] = IF k = Len(requests) + 1 THEN r ELSE requests[k]
          BY <4>1, <4>3, <4>4, Appended DEF TypeOK
        <5> QED  BY <4>1, <4>2, <4>3, <5>1, <5>2, <2>1 DEF NoDns
      <4> QED  BY <4>4
    <3> QED  BY <3>1, <3>2
  <2> QED  BY <1>1, <1>2, <2>1, <2>2 DEF NoDns
<1> QED  BY <1>1, <1>4, <1>5 DEF OnItsWay

LEMMA RecvOnItsWay ==
  ASSUME TypeOK, OnItsWay, NoSocket, Recv
  PROVE  OnItsWay'
<1>1. /\ pc = "recv" /\ pc' \in {"connect", "decode"} /\ round' = 2
      /\ UNCHANGED << ebx, requests, replies, duplicates >>
  BY DEF Recv, AfterRecv, network
<1>2. \/ refused = TRUE /\ queue' = queue
      \/ queue # << >> /\ queue' = Tail(queue)
      \/ ebx < 0 /\ queue' = queue
  BY DEF Recv, TypeOK
<1>0. ebx < 0 => None
  BY <1>1 DEF NoSocket
<1>3. ASSUME duplicates' = 0
      PROVE  NoDns'
  <2>1. CASE round = 1
    <3>1. AtMostOne
      BY <2>1, <1>1, <1>3 DEF OnItsWay
    <3>2. Len(requests) \in Nat /\ Len(replies) \in Nat /\ Len(queue) \in Nat
      BY DEF TypeOK
    <3>3. CASE refused = TRUE /\ queue' = queue
      BY <3>1, <3>2, <3>3, <1>1 DEF AtMostOne, NoDns
    <3>4. CASE queue # << >> /\ queue' = Tail(queue)
      <4>1. Len(queue) > 0 /\ Len(queue') = Len(queue) - 1
        BY <3>4 DEF TypeOK
      <4>2. Len(requests) = 0 /\ Len(replies) = 0 /\ Len(queue') = 0
        BY <3>1, <3>2, <4>1 DEF AtMostOne
      <4> QED  BY <4>2, <1>1 DEF NoDns
    <3>5. CASE ebx < 0 /\ queue' = queue
      <4>1. requests' = << >> /\ replies' = << >> /\ queue' = << >>
        BY <3>5, <1>0, <1>1 DEF None
      <4> QED  BY <4>1 DEF NoDns
    <3> QED  BY <1>2, <3>3, <3>4, <3>5
  <2>2. CASE round = 2
    <3>1. NoDns
      BY <2>2, <1>1, <1>3 DEF OnItsWay
    <3>2. \A k \in 1 .. Len(queue') : queue'[k].from # "dns"
      <4>1. CASE queue' = queue
        BY <4>1, <3>1 DEF NoDns
      <4>2. CASE queue # << >> /\ queue' = Tail(queue)
        <5>1. Len(queue') = Len(queue) - 1 /\ \A k \in 1 .. Len(queue') : queue'[k] = queue[k + 1]
          BY <4>2 DEF TypeOK
        <5>2. \A k \in 1 .. Len(queue') : k + 1 \in 1 .. Len(queue)
          BY <5>1 DEF TypeOK
        <5> QED  BY <5>1, <5>2, <3>1 DEF NoDns
      <4> QED  BY <1>2, <4>1, <4>2
    <3> QED  BY <3>1, <3>2, <1>1 DEF NoDns
  <2> QED  BY <2>1, <2>2 DEF TypeOK
<1> QED  BY <1>1, <1>3 DEF OnItsWay

LEMMA StepNoSocket == TypeOK /\ OnItsWay /\ NoSocket /\ [Next]_vars => NoSocket'
<1> SUFFICES ASSUME TypeOK, OnItsWay, NoSocket, [Next]_vars  PROVE NoSocket'
  OBVIOUS
<1>1. CASE Socket
  BY <1>1 DEF Socket, OnItsWay, NoSocket, None, socket, network
<1>2. CASE Alarm \/ Connect \/ NoTime \/ SetTime \/ Exit \/ Sigalrm
  <2>1. UNCHANGED << requests, replies, queue, refused, ebx >> /\ (pc = "socket" => None)
    BY <1>2 DEF Alarm, Connect, NoTime, SetTime, Exit, Sigalrm, Ended, socket, network, OnItsWay
  <2> QED  BY <2>1 DEF NoSocket, None
<1>3. CASE Send
  <2>1. pc = "send" /\ ebx' = ebx /\ queue' = queue
    BY <1>3 DEF Send
  <2>2. ebx < 0 /\ ~refused => UNCHANGED << requests, replies, refused >>
    BY <1>3 DEF Send, Write, network
  <2> QED  BY <2>1, <2>2 DEF NoSocket, None
<1>4. CASE Recv
  <2>1. pc = "recv" /\ ebx' = ebx /\ UNCHANGED << requests, replies >>
    BY <1>4 DEF Recv, network
  <2>2. ebx < 0 => UNCHANGED << queue, refused >>
    BY <1>4, EbxRange DEF Recv
  <2> QED  BY <2>1, <2>2 DEF NoSocket, None
<1>5. CASE Serve \/ Refuse \/ Deliver \/ Lose
  <2>1. requests # << >> \/ replies # << >>
    BY <1>5 DEF Serve, Refuse, Deliver, Lose, TypeOK
  <2>2. UNCHANGED << pc, ebx >>
    BY <1>5 DEF Serve, Refuse, Deliver, Lose, Outside, program
  <2> QED  BY <2>1, <2>2 DEF NoSocket, None
<1>6. CASE UNCHANGED vars
  BY <1>6 DEF vars, program, socket, network, NoSocket, None
<1> QED  BY <1>1, <1>2, <1>3, <1>4, <1>5, <1>6 DEF Next, Program

LEMMA StepOnItsWay == TypeOK /\ Directed /\ OnItsWay /\ NoSocket /\ [Next]_vars => OnItsWay'
<1> SUFFICES ASSUME TypeOK, Directed, OnItsWay, NoSocket, [Next]_vars  PROVE OnItsWay'
  OBVIOUS
<1>1. CASE Socket
  <2>1. None' /\ round' = 1 /\ pc' = "alarm"
    BY <1>1 DEF Socket, OnItsWay, None, socket, network
  <2> QED  BY <2>1 DEF OnItsWay, None, AtMostOne
<1>2. CASE Alarm \/ Connect \/ NoTime \/ SetTime \/ Exit \/ Sigalrm
  <2>1. /\ UNCHANGED << round, ebx, requests, replies, queue, refused, duplicates >>
        /\ pc' # "socket" /\ (pc \in {"recv", "done"} => pc' = "done")
    BY <1>2 DEF Alarm, Connect, NoTime, SetTime, Exit, Sigalrm, Ended, socket, network
  <2> QED  BY <2>1 DEF OnItsWay, AtMostOne, None, NoDns
<1>3. CASE UNCHANGED vars
  BY <1>3 DEF vars, program, socket, network, OnItsWay, AtMostOne, None, NoDns
<1> QED  BY <1>1, <1>2, <1>3, SendOnItsWay, RecvOnItsWay, ServeOnItsWay, RefuseOnItsWay,
            DeliverOnItsWay, LoseOnItsWay DEF Next, Program

LEMMA StepStamped == TypeOK /\ OnItsWay /\ Stamped /\ [Next]_vars => Stamped'
<1> SUFFICES ASSUME TypeOK, OnItsWay, Stamped, [Next]_vars  PROVE Stamped'
  OBVIOUS
<1>1. CASE Recv
  <2>1. clock' = clock /\ duplicates' = duplicates
    BY <1>1 DEF Recv, network, world
  <2>2. CASE stamp' = stamp
    BY <2>1, <2>2 DEF Stamped
  <2>3. CASE stamp' # stamp
    <3>1. round = 2 /\ queue # << >> /\ stamp' = Head(queue).from /\ pc = "recv"
      BY <1>1, <2>3 DEF Recv, Received
    <3>2. Len(queue) > 0 /\ Head(queue) = queue[1] /\ 1 \in 1 .. Len(queue)
      BY <3>1 DEF TypeOK
    <3>3. duplicates = 0 => stamp' # "dns"
      BY <2>1, <3>1, <3>2 DEF OnItsWay, NoDns
    <3> QED  BY <2>1, <3>3 DEF Stamped
  <2> QED  BY <2>2, <2>3
<1>2. CASE SetTime
  BY <1>2 DEF SetTime, Stamped, network
<1>3. CASE Socket
  BY <1>3 DEF Socket, Stamped, network, world
<1>4. CASE Alarm \/ Connect \/ NoTime \/ Exit \/ Sigalrm \/ UNCHANGED vars
  <2>1. UNCHANGED << ebx, stamp, duplicates, clock >>
    BY <1>4 DEF Alarm, Connect, NoTime, Exit, Sigalrm, Ended, network, world, vars, program
  <2> QED  BY <2>1 DEF Stamped
<1>5. CASE Send
  <2>1. UNCHANGED << ebx, stamp, duplicates, clock >>
    BY <1>5 DEF Send, Write, network, world
  <2> QED  BY <2>1 DEF Stamped
<1>6. CASE Serve \/ Refuse \/ Deliver \/ Lose
  <2>1. UNCHANGED << ebx, stamp, clock >> /\ (duplicates' = 0 => duplicates = 0)
    <3>1. UNCHANGED << ebx, stamp, clock >>
      BY <1>6 DEF Serve, Refuse, Deliver, Lose, Outside, program, world
    <3>2. duplicates' = duplicates \/ duplicates' = duplicates + 1
      BY <1>6 DEF Serve, Refuse, Deliver, Lose, Taken
    <3> QED  BY <3>1, <3>2 DEF TypeOK
  <2> QED  BY <2>1 DEF Stamped
<1> QED  BY <1>1, <1>2, <1>3, <1>4, <1>5, <1>6 DEF Next, Program

\* The clock is only set to what a time server sent, whatever is lost, late or
\* refused, as long as nothing is delivered twice.
THEOREM RightClock == Spec => []ClockFromTimeServer
<1>1. Init => OnItsWay /\ NoSocket /\ Stamped /\ Directed
  <2> SUFFICES ASSUME Init  PROVE OnItsWay /\ NoSocket /\ Stamped /\ Directed
    OBVIOUS
  <2>1. pc = "socket" /\ round = 1 /\ None /\ peer = "none" /\ sent = {}
    BY DEF Init, None
  <2>2. OnItsWay /\ NoSocket
    BY <2>1 DEF OnItsWay, NoSocket, None, AtMostOne
  <2>3. Stamped
    BY DEF Init, Stamped
  <2>4. Directed
    BY <2>1 DEF Directed, NoMisdirected
  <2> QED  BY <2>2, <2>3, <2>4
<1>2. TypeOK /\ Stamped => ClockFromTimeServer
  BY DEF TypeOK, Stamped, ClockFromTimeServer, Servers
<1> QED  BY <1>1, <1>2, InitTyped, StepTyped, StepDirected, StepOnItsWay, StepNoSocket, StepStamped, PTL DEF Spec
=============================================================================
