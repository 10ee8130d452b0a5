------------------------------ MODULE NtpPool ------------------------------
(***************************************************************************)
(* The clock setter isvm-tool/ntppool2.asm, in the build its %defines      *)
(* choose (LINCOM, TIMEOUT, SET, DNS; neither PARSE, LOCAL, FRACTION nor   *)
(* PRINT), with the network it runs on.  It asks a DNS server for the      *)
(* address of a time server, asks that server for the time, and sets the   *)
(* clock, on one UDP socket, without testing the result of a system call.  *)
(*                                                                         *)
(* What makes that work is the encoding the register tracker chooses for   *)
(* the number of each call.  After `rset eax, 0 ; OPTIMISTIC' the number   *)
(* of write goes to al alone: when connect has failed, eax is negative and *)
(* stays so, and the kernel knows no such call.  eax is kept as the signed *)
(* number it holds.  A step is the instructions up to an int 0x80 and the  *)
(* kernel's answer, or a step of the network or of the timer.              *)
(***************************************************************************)
EXTENDS Integers, Sequences

CONSTANTS
  Fds,            \* what socket() may return: a descriptor or -errno
  MaxDuplicates   \* the number of datagrams the network may deliver twice

ENOSYS == -38
EBADF == -9
EPERM == -1
EDESTADDRREQ == -89
ECONNREFUSED == -111
ENETUNREACH == -101

\* A descriptor, 0 if standard input is closed, or an errno of Linux.
ASSUME FdsAssumption ==
  /\ Fds \subseteq (-133 .. -1) \cup Nat
  /\ MaxDuplicates \in Nat

Servers == {"dns", "ntp", "self"}
Requests == [to : Servers, what : {"query", "request"}]
Replies == [from : Servers, what : {"address", "error", "time", "no time"}]

VARIABLES
  pc,         \* the system call that is next, or "decode" or "done"
  round,      \* 1 in the first call of ue_func, 2 in the second
  eax, ebx,   \* the registers the program counts on
  answer,     \* the address in the DNS buffer: "ntp", or "self" for 0.0.0.0
  stamp,      \* the timestamp in the NTP buffer: "none" for 0, or its source
  peer,       \* the server the socket is connected to, or "none"
  queue,      \* the replies in the socket's receive buffer
  refused,    \* whether an ICMP error waits for the socket's next call
  requests,   \* the requests on their way
  replies,    \* the replies on their way
  duplicates, \* the number of datagrams delivered twice
  armed,      \* whether SIGALRM will come
  clock,      \* "kept", or where the time it was set to came from
  exit,       \* the exit status, -1 before, 142 for SIGALRM
  sent        \* every request the socket has sent

program == << pc, round, eax, ebx, answer, stamp >>
socket == << peer, queue, refused >>
network == << requests, replies, duplicates, sent >>
world == << armed, clock, exit >>
vars == << program, socket, network, world >>

\* eax and ebx are what the loader leaves in them, by the rset of LINCOM, until
\* the number of socket and its arguments are set.
LoadedEax == 65536
LoadedEbx == 65280

Init ==
  /\ pc = "socket" /\ round = 1 /\ eax = LoadedEax /\ ebx = LoadedEbx
  /\ answer = "self" /\ stamp = "none"
  /\ peer = "none" /\ queue = << >> /\ refused = FALSE
  /\ requests = << >> /\ replies = << >> /\ duplicates = 0 /\ sent = {}
  /\ armed = FALSE /\ clock = "kept" /\ exit = -1

-----------------------------------------------------------------------------
(* The numbers of the calls, as the tracker's idioms leave them in eax.    *)

MovLow(w, n) == w - (w % 256) + n
Mov16(w, n) == w - (w % 65536) + n

alarm == 27
connect == 362
write == 4
read == 3
sys_exit == 1

\* set eax, 362 where `rset eax, -2' says that eax is a byte.
ConnectNumber == Mov16(eax, connect)
\* Mutant: the whole of eax is set.
SendNumberWhole == write
\* set eax, 4 where `rset eax, 0' says that eax is 0.
SendNumber == MovLow(eax, write)
\* set eax, 3.  `rset ebx, 3' would make it mov eax, ebx, but the tracker goes by
\* the order of the lines: ue_func is assembled behind the set ebx, esp of
\* settimeofday, which leaves nothing recorded of ebx, and nothing else is
\* recorded to hold 3.  ebp has been 0 all along: lea eax, [ebp+3].
RecvNumber == read

-----------------------------------------------------------------------------
(* The program.                                                            *)

\* socket; xchg eax, SOCKET; rset eax, 2; rset ebx, 3
Socket ==
  /\ pc = "socket"
  /\ ebx' \in Fds /\ eax' = 2
  /\ pc' = "alarm"
  /\ UNCHANGED << round, answer, stamp, socket, network, world >>

\* Mutant: no alarm.
AlarmNever ==
  /\ pc = "alarm" /\ eax' = 0 /\ pc' = "connect"
  /\ UNCHANGED << round, ebx, answer, stamp, socket, network, world >>

\* alarm(SOCKET): the descriptor is the number of seconds, and 0 sets no timer.
\* -errno is more than the program will live to see.
Alarm ==
  /\ pc = "alarm"
  /\ MovLow(eax, alarm) = alarm
  /\ armed' = (ebx > 0)
  /\ eax' = 0
  /\ pc' = "connect"
  /\ UNCHANGED << round, ebx, answer, stamp, socket, network, clock, exit >>

Destination == IF round = 1 THEN "dns" ELSE answer

Connect ==
  /\ pc = "connect"
  /\ \/ /\ ConnectNumber = connect /\ ebx >= 0
        /\ \/ eax' = 0 /\ peer' = Destination
           \/ eax' = ENETUNREACH /\ peer' = peer
     \/ /\ ~(ConnectNumber = connect /\ ebx >= 0)
        /\ eax' = IF ConnectNumber = connect THEN EBADF ELSE ENOSYS
        /\ peer' = peer
  /\ pc' = "send"
  /\ UNCHANGED << round, ebx, answer, stamp, queue, refused, network, world >>

\* write(SOCKET, buffer, 48)
Write ==
  LET request == [ to |-> peer,
                   what |-> IF round = 1 THEN "query" ELSE "request" ]
  IN  IF refused
        THEN eax' = ECONNREFUSED /\ refused' = FALSE /\ UNCHANGED network
      ELSE IF ebx < 0 \/ peer = "none"
        THEN /\ eax' = IF ebx < 0 THEN EBADF ELSE EDESTADDRREQ
             /\ UNCHANGED << refused, network >>
      ELSE /\ eax' = 48 /\ sent' = sent \cup {request}
           /\ requests' = Append(requests, request)
           /\ UNCHANGED << refused, replies, duplicates >>

Send ==
  /\ pc = "send"
  /\ IF SendNumber = write THEN Write
     ELSE eax' = ENOSYS /\ UNCHANGED << refused, network >>
  /\ pc' = "recv"
  /\ UNCHANGED << round, ebx, answer, stamp, peer, queue, world >>

AfterRecv == IF round = 1 THEN "connect" ELSE "decode"

\* What read leaves in the buffer of this round: an address lies where the
\* time would, and a DNS error is too short for either.
Received(reply) ==
  /\ answer' = IF round = 1 /\ reply.what = "address" THEN "ntp" ELSE answer
  /\ stamp' = IF round = 2 /\ reply.what \in {"address", "time"}
                THEN reply.from ELSE stamp

\* Mutant: read does not wait (EAGAIN is -11).
RecvImpatient ==
  /\ pc = "recv" /\ RecvNumber = read
  /\ IF queue # << >>
       THEN eax' = 48 /\ queue' = Tail(queue) /\ Received(Head(queue))
       ELSE eax' = -11 /\ UNCHANGED << answer, stamp, queue >>
  /\ pc' = AfterRecv /\ round' = 2
  /\ UNCHANGED << ebx, peer, refused, network, world >>

\* read(SOCKET, buffer, 48) waits for a datagram or an error.
Recv ==
  /\ pc = "recv" /\ RecvNumber = read
  /\ \/ /\ ebx < 0
        /\ eax' = EBADF
        /\ UNCHANGED << answer, stamp, queue, refused >>
     \/ /\ ebx >= 0 /\ refused
        /\ eax' = ECONNREFUSED /\ refused' = FALSE
        /\ UNCHANGED << answer, stamp, queue >>
     \/ /\ ebx >= 0 /\ ~refused /\ queue # << >>
        /\ eax' = IF Head(queue).what = "error" THEN 30 ELSE 48
        /\ queue' = Tail(queue)
        /\ Received(Head(queue))
        /\ UNCHANGED refused
  /\ pc' = AfterRecv /\ round' = 2
  /\ UNCHANGED << ebx, peer, network, world >>

Ended(status) ==
  /\ pc' = "done" /\ exit' = status % 256
  /\ UNCHANGED << round, ebx, answer, stamp, socket, network >>

\* movbe eax, [ecx+40]; test eax, eax; jz end2: without a time, exit(SOCKET).
NoTime ==
  /\ pc = "decode" /\ stamp = "none"
  /\ eax' = sys_exit
  /\ Ended(ebx) /\ UNCHANGED << armed, clock >>

\* sub eax, NTP_OFFSET; settimeofday
SetTime ==
  /\ pc = "decode" /\ stamp # "none"
  /\ eax' \in {0, EPERM}
  /\ clock' = IF eax' = 0 THEN stamp ELSE clock
  /\ pc' = "exit"
  /\ UNCHANGED << round, ebx, answer, stamp, socket, network, armed, exit >>

\* Mutant: exit with the descriptor.
ExitWithSocket ==
  /\ pc = "exit"
  /\ eax' = sys_exit
  /\ Ended(ebx) /\ UNCHANGED << armed, clock >>

\* xchg eax, ebx; zero eax; inc eax: exit with the result.  (ebx holds esp since
\* settimeofday, and is not kept.)
Exit ==
  /\ pc = "exit"
  /\ eax' = sys_exit
  /\ Ended(eax) /\ UNCHANGED << armed, clock >>

\* The timer ends the program, wherever it is.
Sigalrm ==
  /\ armed /\ pc # "done"
  /\ pc' = "done" /\ exit' = 142
  /\ UNCHANGED << round, eax, ebx, answer, stamp, socket, network, armed,
                  clock >>

-----------------------------------------------------------------------------
(* The network: it loses, delays and reorders, and may deliver twice.      *)

Remove(s, i) == SubSeq(s, 1, i - 1) \o SubSeq(s, i + 1, Len(s))

\* What servers answer to what they are sent.
Answers(request) ==
  IF request.to = "dns"
    THEN IF request.what = "query" THEN {"address", "error"} ELSE {"error"}
    ELSE IF request.what = "request" THEN {"time", "no time"} ELSE {}

\* A datagram is taken off the network; when it is delivered twice, it is not.
Taken(onTheWay, i) ==
  \/ onTheWay' = Remove(onTheWay, i) /\ UNCHANGED duplicates
  \/ /\ duplicates < MaxDuplicates
     /\ duplicates' = duplicates + 1 /\ UNCHANGED onTheWay

Outside == UNCHANGED << program, peer, world, sent >>

Serve ==
  /\ pc # "done"
  /\ \E i \in 1 .. Len(requests) :
       \E answered \in Answers(requests[i]) :
         /\ Taken(requests, i)
         /\ replies' = Append(replies, [ from |-> requests[i].to,
                                         what |-> answered ])
  /\ UNCHANGED << queue, refused >> /\ Outside

\* Nobody listens there.
Refuse ==
  /\ pc # "done"
  /\ \E i \in 1 .. Len(requests) :
       /\ Taken(requests, i)
       /\ refused' = (refused \/ peer = requests[i].to)
  /\ UNCHANGED << queue, replies >> /\ Outside

\* The socket takes what comes from its peer.
Deliver ==
  /\ pc # "done"
  /\ \E i \in 1 .. Len(replies) :
       /\ Taken(replies, i)
       /\ queue' = IF replies[i].from = peer THEN Append(queue, replies[i])
                                             ELSE queue
  /\ UNCHANGED << refused, requests >> /\ Outside

\* Nothing comes of a datagram.
Lose ==
  /\ pc # "done"
  /\ \/ \E i \in 1 .. Len(requests) :
          requests' = Remove(requests, i) /\ UNCHANGED replies
     \/ \E i \in 1 .. Len(replies) :
          replies' = Remove(replies, i) /\ UNCHANGED requests
  /\ UNCHANGED << queue, refused, duplicates >> /\ Outside

-----------------------------------------------------------------------------

Program ==
  \/ Socket \/ Alarm \/ Connect \/ Send \/ Recv \/ NoTime \/ SetTime \/ Exit

Next == Program \/ Sigalrm \/ Serve \/ Refuse \/ Deliver \/ Lose

\* The processor goes on and time passes; the network owes nothing.
Spec == Init /\ [][Next]_vars /\ WF_vars(Program) /\ WF_vars(Sigalrm)

-----------------------------------------------------------------------------
(* Correctness.                                                            *)

\* As long as the network delivers nothing twice, the clock is never set to
\* anything but the time a time server sent, though no call's result is tested:
\* not from an empty buffer, and not from the DNS answer, whose address lies
\* where the time would.  (A second copy of the answer, received before the
\* second connect, does set the clock.)
ClockFromTimeServer == duplicates = 0 => clock \in {"kept", "ntp", "self"}

\* Each server is only sent what is meant for it, whatever socket() returned,
\* though a failed connect leaves the socket connected to the server before.
NoMisdirected ==
  \A request \in sent : (request.to = "dns") = (request.what = "query")

\* The exit status is 0 only if the clock was set; when it was, no other
\* status but that of a late SIGALRM hides it.  The exception is a descriptor
\* whose last byte is 0, as is that of descriptor 0: without a time it is the
\* status.
ExitTells ==
  pc = "done" =>
    IF clock = "kept" THEN exit = 0 => stamp = "none" /\ ebx % 256 = 0
                      ELSE exit \in {0, 142}

\* The program ends, even if no answer ever comes, unless its socket is
\* descriptor 0: no timer is set, and read may wait for ever.
Terminates == <>(pc = "done") \/ <>[](pc = "recv" /\ ebx = 0)
=============================================================================
