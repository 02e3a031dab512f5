---------------------------- MODULE ClientLoop ----------------------------
(***************************************************************************)
(* The client side of the control protocol: main() of tmux.c from          *)
(* client_write_server to the end of its poll loop, and the server's       *)
(* side of the same connection: server_write_client of server-fn.c and     *)
(* the command handling of the server (server.c, not among the sources:   *)
(* modelled from spec 4.5).                                                *)
(*                                                                         *)
(* A message is a header of HdrLen bytes followed by hdr.size payload      *)
(* bytes.  A byte is modelled by where it comes from: [m |-> i, off |-> k] *)
(* is byte k of the i-th message the server wrote.  The socket is a FIFO   *)
(* of bytes (wire) that the client reads in chunks of any length, which    *)
(* is all that read(2) on a stream socket promises.  srvIn is the          *)
(* client's input buffer cctx.srv_in.                                      *)
(*                                                                         *)
(* The client loop is single threaded: cpc = "poll" is the poll() at the   *)
(* top of the loop, cpc = "parse" is the label restart.  The other values  *)
(* of cpc are the ways the loop ends.                                      *)
(***************************************************************************)
EXTENDS Integers, Sequences, SequencesExt

CONSTANTS
  HdrLen,       \* sizeof hdr, in bytes
  PrintLen,     \* sizeof printdata, the payload of MSG_PRINT / MSG_ERROR
  PeerSizes,    \* payload sizes the server writes for MSG_PRINT/MSG_ERROR
  MaxMsgs,      \* bound on the number of messages the server writes
  MaxSize       \* largest hdr.size a misframed header can hold

Types == {"EXIT", "SHUTDOWN", "ERROR", "PRINT", "READY"}
Unexpected == "OTHER"   \* any other msgtype value in a header
Done == {"exit", "ready", "eof", "fatal"}

VARIABLES
  sent,         \* messages the server has written, [type, size]
  wire,         \* bytes in the socket, server to client
  srvIn,        \* cctx.srv_in
  consumed,     \* headers the loop has consumed, in order
  retcode,      \* main()'s retcode
  cpc,          \* where the client loop is
  outQueued,    \* the command message is still in cctx.srv_out
  sstate,       \* server: "wait" for command, "exec", "final", "closed"
  bad           \* the server has flagged the client CLIENT_BAD

vars == <<sent, wire, srvIn, consumed, retcode, cpc, outQueued, sstate, bad>>

(* The bytes of message i. *)
Frame(i, msg) == [k \in 1 .. HdrLen + msg.size |-> [m |-> i, off |-> k]]

(* The header memcpy'd from the front of srv_in: the true header when the
   buffer starts at a message boundary, otherwise whatever header the
   payload bytes there spell. *)
Headers(buf) ==
  IF buf[1].off = 1 THEN {sent[buf[1].m]}
  ELSE [type : Types \cup {Unexpected}, size : 0 .. MaxSize]

Init ==
  /\ sent = <<>>
  /\ wire = <<>>
  /\ srvIn = <<>>
  /\ consumed = <<>>
  /\ retcode = 0
  /\ cpc = "poll"
  /\ outQueued = TRUE        \* client_write_server(&cctx, msg, buf, len)
  /\ sstate = "wait"
  /\ bad = FALSE

(***************************************************************************)
(* Server.                                                                 *)
(***************************************************************************)

(* server_write_client: drop the message for a CLIENT_BAD client, else
   compose it onto the connection. *)
ServerWriteClient(msg) ==
  IF bad THEN UNCHANGED <<sent, wire>>
  ELSE /\ sent' = Append(sent, msg)
       /\ wire' = wire \o Frame(Len(sent) + 1, msg)

(* The command message has arrived: the server starts executing it. *)
ServerRecvCommand ==
  /\ sstate = "wait"
  /\ ~outQueued
  /\ sstate' = "exec"
  /\ UNCHANGED <<sent, wire, srvIn, consumed, retcode, cpc, outQueued, bad>>

(* The command prints output or reports an error (ctx->print / ctx->error
   of a command client end in server_write_client). *)
ServerReply ==
  /\ sstate = "exec"
  /\ Len(sent) < MaxMsgs - 1
  /\ \E t \in {"PRINT", "ERROR"}, s \in PeerSizes :
       ServerWriteClient([type |-> t, size |-> s])
  /\ UNCHANGED <<srvIn, consumed, retcode, cpc, outQueued, sstate, bad>>

(* The command is done: MSG_EXIT for a command client, MSG_READY when the
   command attached the client to a session. *)
ServerFinish ==
  /\ sstate = "exec"
  /\ \E t \in {"EXIT", "READY"} : ServerWriteClient([type |-> t, size |-> 0])
  /\ sstate' = "final"
  /\ UNCHANGED <<srvIn, consumed, retcode, cpc, outQueued, bad>>

(* The server shuts down (kill-server from another client): MSG_SHUTDOWN. *)
ServerShutdown ==
  /\ sstate \in {"wait", "exec"}
  /\ ServerWriteClient([type |-> "SHUTDOWN", size |-> 0])
  /\ sstate' = "final"
  /\ UNCHANGED <<srvIn, consumed, retcode, cpc, outQueued, bad>>

(* A write to the client failed: the client is flagged CLIENT_BAD. *)
ServerMarkBad ==
  /\ ~bad
  /\ sstate # "closed"
  /\ bad' = TRUE
  /\ UNCHANGED <<sent, wire, srvIn, consumed, retcode, cpc, outQueued, sstate>>

(* The server dies (or is killed) with the connection open; bytes already
   in the socket still reach the client, then read() returns 0. *)
ServerCrash ==
  /\ sstate # "closed"
  /\ sstate' = "closed"
  /\ UNCHANGED <<sent, wire, srvIn, consumed, retcode, cpc, outQueued, bad>>

(* The server loop drops a CLIENT_BAD client and closes its socket. *)
ServerLoseClient ==
  /\ bad
  /\ sstate # "closed"
  /\ sstate' = "closed"
  /\ UNCHANGED <<sent, wire, srvIn, consumed, retcode, cpc, outQueued, bad>>

(***************************************************************************)
(* Client: the for (;;) loop of main().                                    *)
(***************************************************************************)

(* poll() returns when the socket is readable (data or EOF) or, with
   srv_out non-empty, writable; buffer_poll then writes srv_out and reads
   one chunk.  A read of 0 bytes (EOF) makes buffer_poll fail: goto out. *)
ClientPoll ==
  /\ cpc = "poll"
  /\ outQueued \/ wire # <<>> \/ sstate = "closed"
  /\ outQueued' = FALSE
  /\ \/ /\ wire # <<>>
        /\ \E k \in 1 .. Len(wire) :
             /\ srvIn' = srvIn \o SubSeq(wire, 1, k)
             /\ wire' = SubSeq(wire, k + 1, Len(wire))
        /\ cpc' = "parse"
     \/ /\ wire = <<>>
        /\ sstate = "closed"
        /\ cpc' = "eof"
        /\ UNCHANGED <<srvIn, wire>>
     \/ /\ wire = <<>>
        /\ sstate # "closed"
        /\ cpc' = "parse"
        /\ UNCHANGED <<srvIn, wire>>
  /\ UNCHANGED <<sent, consumed, retcode, sstate, bad>>

(* restart: fewer than sizeof hdr + hdr.size bytes buffered: continue. *)
ClientWait ==
  /\ cpc = "parse"
  /\ \/ Len(srvIn) < HdrLen
     \/ /\ Len(srvIn) >= HdrLen
        /\ \E hdr \in Headers(srvIn) : Len(srvIn) < HdrLen + hdr.size
  /\ cpc' = "poll"
  /\ UNCHANGED <<sent, wire, srvIn, consumed, retcode, outQueued, sstate, bad>>

(* Mutants of the print case: a payload read one byte short, and leaving
   by continue (back to poll) where the code does goto restart. *)
ConsumePrintShort(hdr, rest) ==
  IF hdr.size < PrintLen THEN /\ cpc' = "fatal" /\ srvIn' = rest
  ELSE /\ srvIn' = SubSeq(rest, PrintLen, Len(rest))
       /\ cpc' = "parse"

ConsumePrintContinue(hdr, rest) ==
  IF hdr.size < PrintLen THEN /\ cpc' = "fatal" /\ srvIn' = rest
  ELSE /\ srvIn' = SubSeq(rest, PrintLen + 1, Len(rest))
       /\ cpc' = "poll"

(* MSG_PRINT / MSG_ERROR: reject a short payload, then buffer_read exactly
   sizeof printdata bytes and goto restart. *)
ConsumePrint(hdr, rest) ==
  IF hdr.size < PrintLen THEN /\ cpc' = "fatal" /\ srvIn' = rest
  ELSE /\ srvIn' = SubSeq(rest, PrintLen + 1, Len(rest))
       /\ cpc' = "parse"

(* Mutant of the switch: MSG_ERROR counts errors (retcode++). *)
MsgDispatchCountErrors(hdr, rest) ==
  CASE hdr.type \in {"EXIT", "SHUTDOWN"} ->
         cpc' = "exit" /\ srvIn' = rest /\ UNCHANGED retcode
    [] hdr.type = "ERROR" ->
         retcode' = retcode + 1 /\ ConsumePrint(hdr, rest)
    [] hdr.type = "PRINT" ->
         ConsumePrint(hdr, rest) /\ UNCHANGED retcode
    [] hdr.type = "READY" ->
         cpc' = "ready" /\ srvIn' = rest /\ retcode' \in {0, 1}
    [] OTHER ->
         cpc' = "fatal" /\ srvIn' = rest /\ UNCHANGED retcode

(* switch (hdr.type), with rest the buffer after buffer_remove of the
   header.  MSG_READY hands over to client_main, whose result is retcode. *)
MsgDispatch(hdr, rest) ==
  CASE hdr.type \in {"EXIT", "SHUTDOWN"} ->
         cpc' = "exit" /\ srvIn' = rest /\ UNCHANGED retcode
    [] hdr.type = "ERROR" ->
         retcode' = 1 /\ ConsumePrint(hdr, rest)
    [] hdr.type = "PRINT" ->
         ConsumePrint(hdr, rest) /\ UNCHANGED retcode
    [] hdr.type = "READY" ->
         cpc' = "ready" /\ srvIn' = rest /\ retcode' \in {0, 1}
    [] OTHER ->
         cpc' = "fatal" /\ srvIn' = rest /\ UNCHANGED retcode

(* restart: a whole message is buffered: buffer_remove the header and act
   on hdr.type. *)
ClientConsume ==
  /\ cpc = "parse"
  /\ Len(srvIn) >= HdrLen
  /\ \E hdr \in Headers(srvIn) :
       /\ Len(srvIn) >= HdrLen + hdr.size
       /\ consumed' = Append(consumed, hdr)
       /\ MsgDispatch(hdr, SubSeq(srvIn, HdrLen + 1, Len(srvIn)))
  /\ UNCHANGED <<sent, wire, outQueued, sstate, bad>>

Next ==
  \/ ServerRecvCommand
  \/ ServerReply
  \/ ServerFinish
  \/ ServerShutdown
  \/ ServerMarkBad
  \/ ServerCrash
  \/ ServerLoseClient
  \/ ClientPoll
  \/ ClientWait
  \/ ClientConsume

(* poll() returns once the socket is ready and the loop then runs without
   blocking; the server finishes the command it is executing (commands run
   to completion) and drops a CLIENT_BAD client.  A server crash or a write
   failure is never forced. *)
Fairness ==
  /\ WF_vars(ServerLoseClient)
  /\ WF_vars(ClientPoll)
  /\ WF_vars(ClientWait)
  /\ WF_vars(ClientConsume)
  /\ WF_vars(ServerRecvCommand)
  /\ WF_vars(ServerFinish)

Spec == Init /\ [][Next]_vars /\ Fairness

(***************************************************************************)
(* Properties.                                                             *)
(***************************************************************************)

Msg == [type : Types, size : 0 .. MaxSize]
Byte == [m : 1 .. MaxMsgs, off : 1 .. HdrLen + MaxSize]

TypeOK ==
  /\ sent \in Seq(Msg) /\ consumed \in Seq(Msg \cup [type : {Unexpected}, size : 0 .. MaxSize])
  /\ wire \in Seq(Byte) /\ srvIn \in Seq(Byte)
  /\ retcode \in {0, 1}
  /\ cpc \in {"poll", "parse"} \cup Done
  /\ outQueued \in BOOLEAN /\ bad \in BOOLEAN
  /\ sstate \in {"wait", "exec", "final", "closed"}

(* Spec 7: the loop acts only on messages the server wrote, each once and
   in order; a header is never read out of a payload. *)
ConsumedIsPrefix == IsPrefix(consumed, sent)

(* The bytes of the messages the loop has not consumed yet, in the order
   the server wrote them. *)
Pending == FlattenSeq([j \in 1 .. Len(sent) - Len(consumed) |->
                         Frame(Len(consumed) + j, sent[Len(consumed) + j])])

(* The buffering of the loop (buffer_poll appending a chunk to srv_in,
   buffer_remove of the header, buffer_read of the print payload, the
   two continue tests at restart) loses, repeats and reorders no byte:
   whatever the server wrote and the loop has not consumed is exactly
   srv_in followed by what is still in the socket, so the next header
   is read at a message boundary, however reads split the stream. *)
SrvInHoldsRest ==
  /\ ConsumedIsPrefix
  /\ srvIn \o wire = Pending

(* The client loop ends: a message already buffered is acted on without
   waiting for more input, and the loop leaves on the server's final
   message, on shutdown, or on the connection closing. *)
ClientTerminates == <>(cpc \in Done)

=============================================================================
