-------------------------------- MODULE Conn --------------------------------
(***************************************************************************)
(* The connection pipeline of nfs4go (src/conn.go): Conn.Serve starts      *)
(* three goroutines joined by two buffered channels and waits for them:    *)
(*   ReceiveRequests: a reader goroutine that calls ReceiveCall and feeds  *)
(*     the channel `intermediate` (capacity 1), and a proxy loop that      *)
(*     forwards it to c.Request unless the context is cancelled;           *)
(*   RunMux: one handler goroutine per request, each sending its Response  *)
(*     to c.Response; closes c.Response when c.Request is closed and every *)
(*     handler has sent;                                                   *)
(*   SendReplies: writes replies through a bufio.Writer, flushing whenever *)
(*     c.Response is empty, and cancels the context on any error.          *)
(* The client sends the requests 1..NumReqs and then closes its side.      *)
(* Request contents and the handlers' effect on the server are abstracted; *)
(* a handler's only outcome here is whether HandleProc returned an error.  *)
(***************************************************************************)
EXTENDS Naturals, Sequences, FiniteSets

CONSTANTS
    NumReqs,        \* requests the client sends before closing
    ReqCap,         \* capacity of c.Request (50 in Server.HandleConn)
    RespCap,        \* capacity of c.Response (50 in Server.HandleConn)
    ReadFails,      \* whether ReceiveCall may fail before EOF
    HandlerFails,   \* whether HandleProc may return an error
    WriteFails      \* whether the connection's write side may break

Reqs == 1..NumReqs

\* Errors c.appendError can record.
ErrKinds == {"eof", "read", "handler", "write"}

VARIABLES
    next,         \* the next request the client's byte stream holds
    rpc, rhold,   \* reader goroutine: program counter, request read
    inter, interClosed,   \* channel intermediate
    ppc, phold,   \* proxy loop of ReceiveRequests
    reqCh, reqClosed,     \* channel c.Request
    mpc,          \* RunMux
    handlers,     \* requests whose handler goroutine has not yet sent
    respCh, respClosed,   \* channel c.Response
    spc,          \* SendReplies
    cancelled,    \* ctx.Err() # nil
    errs,         \* kinds of error in c.err
    broken,       \* the connection's write side has failed
    wbuf,         \* replies in the bufio.Writer's buffer
    werr,         \* the bufio.Writer's sticky error is set
    delivered     \* replies that reached the client

vars == <<next, rpc, rhold, inter, interClosed, ppc, phold, reqCh, reqClosed,
          mpc, handlers, respCh, respClosed, spc, cancelled, errs, broken,
          wbuf, werr, delivered>>

Resp == [id : Reqs, err : BOOLEAN]

TypeOK ==
    /\ next \in 1..(NumReqs + 1)
    /\ rpc \in {"check", "read", "put", "done"} /\ rhold \in Reqs \cup {0}
    /\ inter \in Seq(Reqs) /\ Len(inter) <= 1 /\ interClosed \in BOOLEAN
    /\ ppc \in {"recv", "send", "done"} /\ phold \in Reqs \cup {0}
    /\ reqCh \in Seq(Reqs) /\ Len(reqCh) <= ReqCap /\ reqClosed \in BOOLEAN
    /\ mpc \in {"recv", "done"} /\ handlers \subseteq Reqs
    /\ respCh \in Seq(Resp) /\ Len(respCh) <= RespCap /\ respClosed \in BOOLEAN
    /\ spc \in {"top", "recv", "done"}
    /\ cancelled \in BOOLEAN /\ errs \subseteq ErrKinds
    /\ broken \in BOOLEAN /\ wbuf \subseteq Reqs /\ werr \in BOOLEAN
    /\ delivered \subseteq Reqs

(* Serve after c.wg.Add(3) and the three go statements.                    *)
Init ==
    /\ next = 1
    /\ rpc = "check" /\ rhold = 0
    /\ inter = <<>> /\ interClosed = FALSE
    /\ ppc = "recv" /\ phold = 0
    /\ reqCh = <<>> /\ reqClosed = FALSE
    /\ mpc = "recv" /\ handlers = {}
    /\ respCh = <<>> /\ respClosed = FALSE
    /\ spc = "top"
    /\ cancelled = FALSE /\ errs = {}
    /\ broken = FALSE /\ wbuf = {} /\ werr = FALSE
    /\ delivered = {}

(* c.wg.Wait() returns: the three goroutines Serve waits for are done.     *)
ServeReturned == ppc = "done" /\ mpc = "done" /\ spc = "done"

\* Groups of variables, by the goroutine or channel they belong to.
readerVars == <<next, rpc, rhold>>
interVars == <<inter, interClosed>>
proxyVars == <<ppc, phold>>
reqVars == <<reqCh, reqClosed>>
muxVars == <<mpc, handlers>>
respVars == <<respCh, respClosed>>
writerVars == <<broken, wbuf, werr, delivered>>

-----------------------------------------------------------------------------
(* Reader goroutine (conn.go 137-153).                                     *)

(* `for ctx.Err() == nil`: a cancelled context ends the loop and the       *)
(* deferred close(intermediate) runs.                                      *)
ReaderCheck ==
    /\ rpc = "check"
    /\ IF cancelled
         THEN rpc' = "done" /\ interClosed' = TRUE
         ELSE rpc' = "read" /\ UNCHANGED interClosed
    /\ UNCHANGED <<next, rhold, inter, proxyVars, reqVars, muxVars, respVars,
                   spc, cancelled, errs, writerVars>>

(* ReceiveCall returns the next request, or an error: io.EOF once the      *)
(* client has closed, or a read error at any time when ReadFails; the      *)
(* error is appended to c.err and intermediate is closed.                  *)
ReaderRead ==
    /\ rpc = "read"
    /\ \/ /\ next <= NumReqs
          /\ rpc' = "put" /\ rhold' = next /\ next' = next + 1
          /\ UNCHANGED <<interClosed, errs>>
       \/ \E kind \in {k \in ErrKinds : \/ k = "eof" /\ next > NumReqs
                                        \/ k = "read" /\ ReadFails} :
            /\ errs' = errs \cup {kind}
            /\ rpc' = "done" /\ interClosed' = TRUE
            /\ UNCHANGED <<next, rhold>>
    /\ UNCHANGED <<inter, proxyVars, reqVars, muxVars, respVars, spc,
                   cancelled, writerVars>>

(* `intermediate <- Request{...}`: blocks while the buffer is full.        *)
ReaderPut ==
    /\ rpc = "put" /\ Len(inter) < 1
    /\ inter' = Append(inter, rhold)
    /\ rpc' = "check" /\ rhold' = 0
    /\ UNCHANGED <<next, interClosed, proxyVars, reqVars, muxVars, respVars,
                   spc, cancelled, errs, writerVars>>

-----------------------------------------------------------------------------
(* Proxy loop of ReceiveRequests (conn.go 156-167).  Its return runs the   *)
(* deferred close(c.Request) and c.wg.Done().  The select picks any ready  *)
(* case.                                                                   *)

ProxyCancelled ==
    /\ ppc = "recv" /\ cancelled
    /\ ppc' = "done" /\ reqClosed' = TRUE
    /\ UNCHANGED <<readerVars, interVars, phold, reqCh, muxVars, respVars, spc,
                   cancelled, errs, writerVars>>

ProxyRecv ==
    /\ ppc = "recv"
    /\ \/ /\ inter # <<>>
          /\ phold' = Head(inter) /\ inter' = Tail(inter) /\ ppc' = "send"
          /\ UNCHANGED reqClosed
       \/ /\ inter = <<>> /\ interClosed
          /\ ppc' = "done" /\ reqClosed' = TRUE
          /\ UNCHANGED <<phold, inter>>
    /\ UNCHANGED <<readerVars, interClosed, reqCh, muxVars, respVars, spc,
                   cancelled, errs, writerVars>>

(* Mutant: the send ignores the channel's capacity.                       *)
ProxySendUnbounded ==
    /\ ppc = "send"
    /\ reqCh' = Append(reqCh, phold)
    /\ ppc' = "recv" /\ phold' = 0
    /\ UNCHANGED <<readerVars, interVars, reqClosed, muxVars, respVars, spc,
                   cancelled, errs, writerVars>>

(* `c.Request <- req`, outside the select: blocks while c.Request is full. *)
ProxySend ==
    /\ ppc = "send" /\ Len(reqCh) < ReqCap
    /\ reqCh' = Append(reqCh, phold)
    /\ ppc' = "recv" /\ phold' = 0
    /\ UNCHANGED <<readerVars, interVars, reqClosed, muxVars, respVars, spc,
                   cancelled, errs, writerVars>>

-----------------------------------------------------------------------------
(* RunMux (conn.go 94-124) and the handler goroutines it starts.           *)

(* `for request := range c.Request`: start a handler goroutine.            *)
MuxRecv ==
    /\ mpc = "recv" /\ reqCh # <<>>
    /\ handlers' = handlers \cup {Head(reqCh)}
    /\ reqCh' = Tail(reqCh)
    /\ UNCHANGED <<readerVars, interVars, proxyVars, reqClosed, mpc, respVars,
                   spc, cancelled, errs, writerVars>>

(* The range ends once c.Request is closed and drained; muxwg.Wait()       *)
(* returns when every handler has sent; then close(c.Response) and         *)
(* c.wg.Done().                                                            *)
MuxEnd ==
    /\ mpc = "recv" /\ reqClosed /\ reqCh = <<>> /\ handlers = {}
    /\ mpc' = "done" /\ respClosed' = TRUE
    /\ UNCHANGED <<readerVars, interVars, proxyVars, reqVars, handlers, respCh,
                   spc, cancelled, errs, writerVars>>

(* Muxv4.Handle / MuxMismatch.Handle (part_006 43-58, msg/ops.go 338-346): *)
(* HandleProc's reply, with its error, is sent to c.Response, blocking     *)
(* while c.Response is full.                                               *)
Handle(id) ==
    /\ id \in handlers /\ Len(respCh) < RespCap
    /\ \E err \in IF HandlerFails THEN BOOLEAN ELSE {FALSE} :
         respCh' = Append(respCh, [id |-> id, err |-> err])
    /\ handlers' = handlers \ {id}
    /\ UNCHANGED <<readerVars, interVars, proxyVars, reqVars, mpc, respClosed,
                   spc, cancelled, errs, writerVars>>

-----------------------------------------------------------------------------
(* SendReplies (conn.go 170-203).  The bufio.Writer keeps a sticky error:  *)
(* once a write to the connection fails, every later Write and Flush       *)
(* returns it.  Flush with an empty buffer and no sticky error is a no-op. *)

(* The write side of the connection fails (the client goes away).          *)
Break ==
    /\ WriteFails /\ ~broken
    /\ broken' = TRUE
    /\ UNCHANGED <<readerVars, interVars, proxyVars, reqVars, muxVars,
                   respVars, spc, cancelled, errs, wbuf, werr, delivered>>

(* Mutant: a failing Flush cancels but records nothing.                    *)
SenderTopDropsFlushError ==
    /\ spc = "top"
    /\ spc' = "recv"
    /\ IF respCh = <<>> /\ (werr \/ (wbuf # {} /\ broken))
         THEN /\ werr' = TRUE /\ cancelled' = TRUE
              /\ UNCHANGED <<wbuf, delivered, errs>>
         ELSE /\ IF respCh = <<>>
                   THEN delivered' = delivered \cup wbuf /\ wbuf' = {}
                   ELSE UNCHANGED <<delivered, wbuf>>
              /\ UNCHANGED <<werr, cancelled, errs>>
    /\ UNCHANGED <<readerVars, interVars, proxyVars, reqVars, muxVars,
                   respVars, broken>>

(* Top of the loop: `if len(c.Response) == 0` flush, and on an error       *)
(* cancel() and c.appendError(err).                                        *)
SenderTop ==
    /\ spc = "top"
    /\ spc' = "recv"
    /\ IF respCh = <<>> /\ (werr \/ (wbuf # {} /\ broken))
         THEN /\ werr' = TRUE /\ cancelled' = TRUE
              /\ errs' = errs \cup {"write"}
              /\ UNCHANGED <<wbuf, delivered>>
         ELSE /\ IF respCh = <<>>
                   THEN delivered' = delivered \cup wbuf /\ wbuf' = {}
                   ELSE UNCHANGED <<delivered, wbuf>>
              /\ UNCHANGED <<werr, cancelled, errs>>
    /\ UNCHANGED <<readerVars, interVars, proxyVars, reqVars, muxVars,
                   respVars, broken>>

(* Mutant: a write-through sends the new reply but drops the replies       *)
(* still in the buffer.                                                    *)
SenderRecvLosesBuffer ==
    /\ spc = "recv"
    /\ \/ /\ respCh = <<>> /\ respClosed
          /\ spc' = "done"
          /\ UNCHANGED <<respCh, cancelled, errs, wbuf, werr, delivered>>
       \/ /\ respCh # <<>>
          /\ respCh' = Tail(respCh) /\ spc' = "top"
          /\ LET r == Head(respCh) IN
             IF r.err
               THEN /\ cancelled' = TRUE /\ errs' = errs \cup {"handler"}
                    /\ UNCHANGED <<wbuf, werr, delivered>>
             ELSE IF werr
               THEN cancelled' = TRUE /\ UNCHANGED <<errs, wbuf, werr, delivered>>
             ELSE \/ /\ wbuf' = wbuf \cup {r.id}
                     /\ UNCHANGED <<cancelled, errs, werr, delivered>>
                  \/ /\ ~broken
                     /\ delivered' = delivered \cup {r.id}
                     /\ wbuf' = {}
                     /\ UNCHANGED <<cancelled, errs, werr>>
                  \/ /\ broken
                     /\ werr' = TRUE /\ cancelled' = TRUE
                     /\ UNCHANGED <<errs, wbuf, delivered>>
    /\ UNCHANGED <<readerVars, interVars, proxyVars, reqVars, muxVars,
                   respClosed, broken>>

(* `resp, ok := <-c.Response`: return once it is closed and drained; a     *)
(* Response with an error cancels and records it; otherwise SendReply      *)
(* writes the reply into the buffer, which may write through to the        *)
(* connection (a large reply, or a full buffer).  A failing SendReply      *)
(* cancels and calls c.appendError(resp.Error), and resp.Error is nil      *)
(* there (line 200), so it records nothing.                                *)
SenderRecv ==
    /\ spc = "recv"
    /\ \/ /\ respCh = <<>> /\ respClosed
          /\ spc' = "done"
          /\ UNCHANGED <<respCh, cancelled, errs, wbuf, werr, delivered>>
       \/ /\ respCh # <<>>
          /\ respCh' = Tail(respCh) /\ spc' = "top"
          /\ LET r == Head(respCh) IN
             IF r.err
               THEN /\ cancelled' = TRUE /\ errs' = errs \cup {"handler"}
                    /\ UNCHANGED <<wbuf, werr, delivered>>
             ELSE IF werr
               THEN cancelled' = TRUE /\ UNCHANGED <<errs, wbuf, werr, delivered>>
             ELSE \/ /\ wbuf' = wbuf \cup {r.id}
                     /\ UNCHANGED <<cancelled, errs, werr, delivered>>
                  \/ /\ ~broken
                     /\ delivered' = delivered \cup wbuf \cup {r.id}
                     /\ wbuf' = {}
                     /\ UNCHANGED <<cancelled, errs, werr>>
                  \/ /\ broken
                     /\ werr' = TRUE /\ cancelled' = TRUE
                     /\ UNCHANGED <<errs, wbuf, delivered>>
    /\ UNCHANGED <<readerVars, interVars, proxyVars, reqVars, muxVars,
                   respClosed, broken>>

-----------------------------------------------------------------------------
Next ==
    \/ ReaderCheck \/ ReaderRead \/ ReaderPut
    \/ ProxyCancelled \/ ProxyRecv \/ ProxySend
    \/ MuxRecv \/ MuxEnd \/ \E id \in Reqs : Handle(id)
    \/ SenderTop \/ SenderRecv
    \/ Break

(* Every goroutine is runnable whenever its next statement can proceed and *)
(* the Go scheduler runs runnable goroutines, so each goroutine's steps    *)
(* are weakly fair.  The failure of the connection (Break) is not.         *)
Fairness ==
    /\ WF_vars(ReaderCheck) /\ WF_vars(ReaderRead) /\ WF_vars(ReaderPut)
    /\ WF_vars(ProxyCancelled \/ ProxyRecv) /\ WF_vars(ProxySend)
    /\ WF_vars(MuxRecv) /\ WF_vars(MuxEnd)
    /\ \A id \in Reqs : WF_vars(Handle(id))
    /\ WF_vars(SenderTop) /\ WF_vars(SenderRecv)

Spec == Init /\ [][Next]_vars /\ Fairness

-----------------------------------------------------------------------------
(* A failed write is reported: when Serve returns after a write to the     *)
(* connection failed, c.err holds a write error, although the SendReply    *)
(* failure path (conn.go 197-201) appends the nil resp.Error; the final    *)
(* Flush on the empty channel returns the writer's sticky error.           *)
WriteFailureReported == ServeReturned /\ werr => "write" \in errs

(* Replies are not lost: when Serve returns with no error other than the   *)
(* client's EOF, every request the client sent was answered and its reply *)
(* flushed to the connection, in whatever order the handlers finished.     *)
RepliesDeliveredUnlessFailed ==
    ServeReturned /\ errs \subseteq {"eof"} => delivered = Reqs

(* The requests handed to a handler goroutine by RunMux: read from the     *)
(* stream and no longer held by the reader, the proxy or a channel.        *)
InFlight == {rhold, phold} \cup {inter[i] : i \in DOMAIN inter} \cup {reqCh[i] : i \in DOMAIN reqCh}
Dispatched == {r \in Reqs : r < next} \ InFlight

(* The connection has failed: the context is cancelled, a write failed or  *)
(* an error other than the client's EOF is recorded.                       *)
ConnFailed == cancelled \/ werr \/ errs \ {"eof"} # {}

Service == INSTANCE RpcService WITH
    accepted <- Dispatched, answered <- delivered,
    failed <- ConnFailed, closed <- ServeReturned

(* The pipeline implements the request/reply service of RpcService (spec   *)
(* section 5): RunMux takes requests in stream order; SendReplies delivers *)
(* only replies of dispatched requests, each once; nothing is dispatched   *)
(* or delivered after Serve returns; Serve returns only after a failure or *)
(* with every request dispatched and answered; and, under the goroutines'  *)
(* fairness, Serve returns (the three goroutines it waits for all finish,  *)
(* whichever reads, handlers or writes fail).                              *)
ServiceRefined == Service!Spec
=============================================================================
