----------------------------- MODULE Receivers -----------------------------
(***************************************************************************)
(* The UDP and the TCP receiver in the rounds of their loops, and the file *)
(* descriptors of the process, which they share with the writer and with   *)
(* the reloads of the configuration.                                       *)
(*                                                                         *)
(* A received message is split in lines, which are handed to the cache one *)
(* by one; what the cache does with them is MetricCache's matter, and what *)
(* the writer stores in a file is WhisperFile's.  Of a reload there is     *)
(* what it opens and closes; reloads come one at a time and after the      *)
(* launch (CarbonThreads has the others), and what they read is            *)
(* RuntimeConf's.                                                          *)
(***************************************************************************)
EXTENDS Integers, FiniteSets, SequencesExt

CONSTANTS
  SockFails,    \* whether the set-up of a socket may fail
  IOFails,      \* whether system calls on whisper files may fail
  ConfFails,    \* whether configuration files may be missing or wrong
  Limit,        \* RLIMIT_NOFILE, less what is open before the sockets
  MaxHup,       \* bound: SIGHUPs
  MaxLines      \* bound: lines sent by clients

Receiver == {"udp", "tcp"}
Line == 1 .. MaxLines

ASSUME ReceiversAssumption ==
  /\ {SockFails, IOFails, ConfFails} \subseteq BOOLEAN
  /\ Limit \in Nat /\ Limit >= 2 /\ MaxHup \in Nat /\ MaxLines \in Nat

VARIABLES
  run,        \* conf->run
  sent,       \* lines sent so far
  arrived,    \* messages in the kernel: datagrams, and connections to accept
  sock,       \* each receiver's socket: "none" before it is made
  recv,       \* each receiver: [pc, buf], buf what is left of its message
  handed,     \* what each receiver handed to the cache: <<line, whole>>, ...
  fds,        \* descriptors in use
  accepted,   \* history: connections accepted
  leaked,     \* history: files left open after an error
  wpc,        \* the writer: "head", "open", "opened", "exited"
  reload,     \* the file conf_reload() is at, and whether it is open
  hups        \* SIGHUPs so far

sockVars == <<sent, arrived, sock, recv, handed, accepted>>
mainVars == <<reload, hups>>
vars == <<run, sockVars, fds, leaked, wpc, mainVars>>

NoReload == [file |-> "none", open |-> FALSE]

Init ==
  /\ run = TRUE /\ sent = 0
  /\ arrived = [r \in Receiver |-> <<>>]
  /\ sock = [r \in Receiver |-> "none"]
  /\ recv = [r \in Receiver |-> [pc |-> "launch", buf |-> <<>>]]
  /\ handed = [r \in Receiver |-> <<>>]
  /\ fds = 0 /\ accepted = 0 /\ leaked = 0
  /\ wpc = "head" /\ reload = NoReload /\ hups = 0

-----------------------------------------------------------------------------
(* The environment: clients and SIGINT                                      *)

(* A client sends n lines, in a datagram or on a connection.                *)
send(r, n) ==
  /\ sock[r] = "bound" /\ ~(r = "tcp" /\ recv[r].pc = "exited")
  /\ sent + n <= MaxLines
  /\ sent' = sent + n
  /\ arrived' = [arrived EXCEPT ![r] =
                   Append(@, [i \in 1 .. n |-> <<sent + i, TRUE>>])]
  /\ UNCHANGED <<run, sock, recv, handed, accepted, fds, leaked, wpc, mainVars>>

sigint ==
  /\ run /\ run' = FALSE
  /\ UNCHANGED <<sockVars, fds, leaked, wpc, mainVars>>

-----------------------------------------------------------------------------
(* The receivers                                                            *)

At(r, pc) == recv[r].pc = pc
Move(r, pc) == recv' = [recv EXCEPT ![r].pc = pc]

(* receiver_..._init_socket(): socket() needs a descriptor; a socket whose  *)
(* options cannot be set is left open.                                      *)
init_socket ==
  {s \in {"made", "unset", "failed"} :
     IF s = "failed" THEN SockFails \/ fds >= Limit
                     ELSE fds < Limit /\ (s = "unset" => SockFails)}

(* receiver_..._bind_socket(), whose result is not looked at                *)
bind_socket(s) ==
  IF s # "made" THEN {s} ELSE {"bound"} \cup IF SockFails THEN {"unbound"} ELSE {}

(* launch_receiver_udp_thread(), then launch_receiver_tcp_thread(), called  *)
(* by main before it launches the writer.  Errors of the socket are logged, *)
(* and the thread is launched all the same.                                 *)
launch_receiver(r) ==
  /\ At(r, "launch")
  /\ r = "tcp" => ~At("udp", "launch")
  /\ \E s \in init_socket :
       /\ \E b \in bind_socket(s) : sock' = [sock EXCEPT ![r] = b]
       /\ fds' = IF s = "failed" THEN fds ELSE fds + 1
  /\ Move(r, "head")
  /\ UNCHANGED <<run, sent, arrived, handed, accepted, leaked, wpc, mainVars>>

(* The loop condition.  The TCP receiver closes its listening socket when   *)
(* it leaves; where the set-up failed it has the descriptor -1.             *)
receiver_head(r) ==
  /\ At(r, "head")
  /\ Move(r, IF run THEN "recv" ELSE "exited")
  /\ IF ~run /\ r = "tcp" /\ sock[r] \in {"bound", "unbound"} THEN fds' = fds - 1
                                                             ELSE UNCHANGED fds
  /\ UNCHANGED <<run, sent, arrived, sock, handed, accepted, leaked, wpc, mainVars>>

(* recvfrom() of the UDP receiver and accept() of the TCP receiver time     *)
(* out, are interrupted, or fail, for a socket that was not set up or for   *)
(* want of a descriptor: on with the loop.                                  *)
nothing_received(r) ==
  /\ At(r, "recv")
  /\ Move(r, "head")
  /\ UNCHANGED <<run, sent, arrived, sock, handed, fds, accepted, leaked, wpc, mainVars>>

(* A datagram is received whole.                                            *)
udp_recvfrom ==
  /\ At("udp", "recv") /\ arrived["udp"] # <<>>
  /\ recv' = [recv EXCEPT !["udp"] = [pc |-> "lines", buf |-> Head(arrived["udp"])]]
  /\ arrived' = [arrived EXCEPT !["udp"] = Tail(@)]
  /\ UNCHANGED <<run, sent, sock, handed, fds, accepted, leaked, wpc, mainVars>>

(* The lines of a connection that one recvfrom() can find: none when it     *)
(* times out first, some of them, or some and the beginning of the next.    *)
ReadOnce(data) ==
  {SubSeq(data, 1, n) : n \in 0 .. Len(data)}
    \cup {SubSeq(data, 1, n - 1) \o <<<<data[n][1], FALSE>>>> : n \in 1 .. Len(data)}

(* accept(), then one recvfrom(); the connection is not read again and not  *)
(* closed.                                                                  *)
tcp_accept ==
  /\ At("tcp", "recv") /\ arrived["tcp"] # <<>> /\ fds < Limit
  /\ \E data \in ReadOnce(Head(arrived["tcp"])) :
       recv' = [recv EXCEPT !["tcp"] = [pc |-> "lines", buf |-> data]]
  /\ arrived' = [arrived EXCEPT !["tcp"] = Tail(@)]
  /\ fds' = fds + 1 /\ accepted' = accepted + 1
  /\ UNCHANGED <<run, sent, sock, handed, leaked, wpc, mainVars>>

(* Mutant: the rest of the message is forgotten after its first line.       *)
protocol_process_first_line(r) ==
  /\ At(r, "lines") /\ recv[r].buf # <<>>
  /\ handed' = [handed EXCEPT ![r] = Append(@, Head(recv[r].buf))]
  /\ recv' = [recv EXCEPT ![r].buf = <<>>]
  /\ UNCHANGED <<run, sent, arrived, sock, fds, accepted, leaked, wpc, mainVars>>

(* Mutant: the last line is taken first.                                    *)
protocol_process_last_line(r) ==
  /\ At(r, "lines") /\ recv[r].buf # <<>>
  /\ handed' = [handed EXCEPT ![r] = Append(@, recv[r].buf[Len(recv[r].buf)])]
  /\ recv' = [recv EXCEPT ![r].buf = SubSeq(@, 1, Len(@) - 1)]
  /\ UNCHANGED <<run, sent, arrived, sock, fds, accepted, leaked, wpc, mainVars>>

(* protocol_process_metrics_multiline(): one line after the other           *)
protocol_process_metric_line(r) ==
  /\ At(r, "lines") /\ recv[r].buf # <<>>
  /\ handed' = [handed EXCEPT ![r] = Append(@, Head(recv[r].buf))]
  /\ recv' = [recv EXCEPT ![r].buf = Tail(@)]
  /\ UNCHANGED <<run, sent, arrived, sock, fds, accepted, leaked, wpc, mainVars>>

message_done(r) ==
  /\ At(r, "lines") /\ recv[r].buf = <<>>
  /\ Move(r, "head")
  /\ UNCHANGED <<run, sent, arrived, sock, handed, fds, accepted, leaked, wpc, mainVars>>

-----------------------------------------------------------------------------
(* The writer: one value after another, in the metric's whisper file        *)

writer_head ==
  /\ wpc = "head" /\ \A r \in Receiver : ~At(r, "launch")
  /\ wpc' = IF run THEN "open" ELSE "exited"
  /\ UNCHANGED <<run, sockVars, fds, leaked, mainVars>>

(* Mutant: open() is expected to find a descriptor.                         *)
whisper_open_anyway ==
  /\ wpc = "open"
  /\ fds' = fds + 1 /\ wpc' = "opened"
  /\ UNCHANGED <<run, sockVars, leaked, mainVars>>

(* whisper_write_value() opens the file, or fails for want of a descriptor. *)
whisper_open ==
  /\ wpc = "open"
  /\ IF fds < Limit THEN fds' = fds + 1 /\ wpc' = "opened"
                    ELSE wpc' = "head" /\ UNCHANGED fds
  /\ UNCHANGED <<run, sockVars, leaked, mainVars>>

(* A read or a write of the headers fails: the value is dropped and the     *)
(* file is left open.                                                       *)
whisper_header_fails ==
  /\ wpc = "opened" /\ IOFails
  /\ leaked' = leaked + 1 /\ wpc' = "head"
  /\ UNCHANGED <<run, sockVars, fds, mainVars>>

(* Mutant: the file is not closed.                                          *)
whisper_close_forgotten ==
  /\ wpc = "opened" /\ wpc' = "head"
  /\ UNCHANGED <<run, sockVars, fds, leaked, mainVars>>

whisper_close ==
  /\ wpc = "opened" /\ wpc' = "head"
  /\ fds' = fds - 1
  /\ UNCHANGED <<run, sockVars, leaked, mainVars>>

-----------------------------------------------------------------------------
(* The main thread: conf_reload() reads three files, one after the other    *)

sighup_handler ==
  /\ \A r \in Receiver : ~At(r, "launch")
  /\ reload = NoReload /\ hups < MaxHup
  /\ reload' = [file |-> "carbon", open |-> FALSE] /\ hups' = hups + 1
  /\ UNCHANGED <<run, sockVars, fds, leaked, wpc>>

(* A file that cannot be opened ends the reload.                            *)
conf_fopen ==
  /\ reload.file # "none" /\ ~reload.open
  /\ \/ fds < Limit /\ fds' = fds + 1 /\ reload' = [reload EXCEPT !.open = TRUE]
     \/ (fds >= Limit \/ ConfFails) /\ reload' = NoReload /\ UNCHANGED fds
  /\ UNCHANGED <<run, sockVars, leaked, wpc, hups>>

(* An unknown key or a wrong port in carbon.conf ends the reload, and the   *)
(* file is left open.                                                       *)
carbon_file_error ==
  /\ reload.file = "carbon" /\ reload.open /\ ConfFails
  /\ leaked' = leaked + 1 /\ reload' = NoReload
  /\ UNCHANGED <<run, sockVars, fds, wpc, hups>>

FileAfter == [carbon |-> "schemas", schemas |-> "aggregation", aggregation |-> "none"]

conf_fclose ==
  /\ reload.file # "none" /\ reload.open
  /\ fds' = fds - 1
  /\ reload' = [file |-> FileAfter[reload.file], open |-> FALSE]
  /\ UNCHANGED <<run, sockVars, leaked, wpc, hups>>

-----------------------------------------------------------------------------
Receive(r) ==
  \/ launch_receiver(r) \/ receiver_head(r) \/ nothing_received(r)
  \/ protocol_process_metric_line(r) \/ message_done(r)
  \/ r = "udp" /\ udp_recvfrom
  \/ r = "tcp" /\ tcp_accept

Write == writer_head \/ whisper_open \/ whisper_header_fails \/ whisper_close

Reload == conf_fopen \/ carbon_file_error \/ conf_fclose

Next ==
  \/ \E r \in Receiver : Receive(r) \/ \E n \in 1 .. 2 : send(r, n)
  \/ Write \/ Reload \/ sigint \/ sighup_handler

Spec == Init /\ [][Next]_vars

(***************************************************************************)
(* Every thread is scheduled.  A message that is there is received in the  *)
(* end: a call returns without one only when it is interrupted or has      *)
(* waited half a second in vain (for accept(), also while there is no      *)
(* descriptor for the connection).                                         *)
(***************************************************************************)
FairSpec ==
  /\ Spec
  /\ \A r \in Receiver : WF_vars(Receive(r))
  /\ WF_vars(Write) /\ WF_vars(Reload)
  /\ SF_vars(udp_recvfrom) /\ SF_vars(tcp_accept)

-----------------------------------------------------------------------------
(* Properties                                                               *)

Piece == Line \X BOOLEAN

(* Types of the variables; the process never has more descriptors than its  *)
(* limit.                                                                   *)
TypeOK ==
  /\ run \in BOOLEAN /\ sent \in 0 .. MaxLines
  /\ arrived \in [Receiver -> Seq(Seq(Piece))]
  /\ sock \in [Receiver -> {"none", "bound", "unbound", "unset", "failed"}]
  /\ recv \in [Receiver -> [pc : {"launch", "head", "recv", "lines", "exited"}, buf : Seq(Piece)]]
  /\ handed \in [Receiver -> Seq(Piece)]
  /\ {fds, accepted, leaked} \subseteq 0 .. Limit
  /\ wpc \in {"head", "open", "opened", "exited"}
  /\ reload \in [file : {"none", "carbon", "schemas", "aggregation"}, open : BOOLEAN]
  /\ reload.open => reload.file # "none"
  /\ hups \in 0 .. MaxHup

(* Whether the socket of receiver r is still open: the UDP socket is never  *)
(* closed, nor is one whose options could not be set.                       *)
Open(r) ==
  \/ sock[r] = "unset"
  \/ sock[r] \in {"bound", "unbound"} /\ ~(r = "tcp" /\ At(r, "exited"))

(* Descriptors that are not given back while the program runs: the open     *)
(* sockets, the connections, and the whisper files and carbon.conf left     *)
(* open after an error.                                                     *)
Held == Cardinality({r \in Receiver : Open(r)}) + accepted + leaked

(* The writer can open a whisper file again and again, unless the program   *)
(* stops or the sockets, the connections and the files left open have come  *)
(* to hold all descriptors: nothing else uses them up, and what a reload    *)
(* takes it gives back (whisper_write_value, receiver_tcp_worker,           *)
(* conf_parse_carbon_file).                                                 *)
WriterGetsFile == wpc = "open" ~> wpc = "opened" \/ ~run \/ Held >= Limit

(* What a receiver has handed to the cache, what is left in its buffer and  *)
(* what waits in the kernel are in the order of arrival, with no line       *)
(* twice: neither the split in lines nor the rounds of the loop reorder or  *)
(* repeat one (protocol_process_metrics_multiline, the receivers' loops).   *)
Pending(r) == <<handed[r], recv[r].buf>> \o arrived[r]
ArrivalOrder ==
  \A r \in Receiver : LET s == Pending(r) IN
    \A k, l \in 1 .. Len(s) : \A i \in 1 .. Len(s[k]), j \in 1 .. Len(s[l]) :
      k < l \/ (k = l /\ i < j) => s[k][i][1] < s[l][j][1]

LinesIn(s) == {p[1] : p \in Range(s)}
Waiting(r, l) == \E k \in 1 .. Len(arrived[r]) : l \in LinesIn(arrived[r][k])

(* Every line that was received is handed to the cache, also when the       *)
(* program is told to stop meanwhile, and every datagram and connection is  *)
(* received, unless the program stops; a connection can also be kept        *)
(* waiting by the connections before it, once they and the files left open, *)
(* by the writer or by failed reloads, hold all descriptors but one, which  *)
(* the writer then takes (receiver_udp_worker, receiver_tcp_worker,         *)
(* protocol_process_metrics_multiline).                                     *)
LinesHanded ==
  /\ \A l \in Line :
       /\ Waiting("udp", l) ~> <<l, TRUE>> \in Range(handed["udp"]) \/ ~run
       /\ Waiting("tcp", l) ~> ~Waiting("tcp", l) \/ ~run \/ Held >= Limit - 1
  /\ \A l \in Line :
       (\E r \in Receiver : l \in LinesIn(recv[r].buf))
         ~> (\E r \in Receiver : l \in LinesIn(handed[r]))
=============================================================================
