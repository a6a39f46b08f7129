--------------------------------- MODULE Server ---------------------------------
(***************************************************************************)
(* The HTTP server of src/server/server.c over an engine: one thread that  *)
(* accepts a connection, receives a request, serves it to its end and only *)
(* then accepts the next one; and a thread that stops it.                  *)
(*                                                                         *)
(* A request is a completion, or Plain: answered at once, with success or  *)
(* an error, without the engine.  Statistics are left out.  Until the      *)
(* server is started the program may use its engine itself.                *)
(***************************************************************************)
EXTENDS Engine

CONSTANTS
  Clients,   \* each connects at most once
  NoClient

ASSUME ServerAssumption == NoClient \notin Clients

VARIABLES
  listen,   \* listen_sock: "none", "open" or "closed"
  running,  \* running
  spc,      \* where the thread in ct_server_start is
  cur,      \* the client it serves
  stop,     \* where the thread in ct_server_stop is: "no", "flagged", "done"
  conn,     \* of each client: "away", "queued", "accepted", "closed"
  inbox,    \* what each client has sent
  sent,     \* chunks of the stream under way: tokens, and how many that say stop
  heard,    \* the stop found the server running
  late      \* connections accepted after such a stop

socketVars == <<listen, running, stop, heard>>
clientVars == <<conn, inbox, sent>>
serverVars == <<socketVars, clientVars, spc, cur, late>>
allVars == <<engineVars, serverVars>>

Completions == [op : {"sync", "stream"}, prompt : Prompts, max : MaxTokens]
Other(kind) == [op |-> kind, prompt |-> <<>>, max |-> 0]
Silent == Other("silent")  \* nothing was sent yet
HungUp == Other("left")    \* recv returns 0 or an error
Plain == Other("plain")
NoChunks == [tokens |-> <<>>, ends |-> 0]

ServerTypeOK ==
  /\ EngineTypeOK
  /\ listen \in {"none", "open", "closed"}
  /\ running \in BOOLEAN
  /\ spc \in {"created", "bound", "testing", "calling", "accepting", "receiving",
              "generating", "returned"}
  /\ cur \in Clients \cup {NoClient}
  /\ stop \in {"no", "flagged", "done"}
  /\ conn \in [Clients -> {"away", "queued", "accepted", "closed"}]
  /\ inbox \in [Clients -> Completions \cup {Silent, HungUp, Plain}]
  /\ sent \in [tokens : Seq(TokenIds), ends : 0 .. 1]
  /\ heard \in BOOLEAN
  /\ late \in Nat
  /\ cur # NoClient <=> spc \in {"receiving", "generating"}

ServerInit ==
  /\ EngineInit
  /\ listen = "none"
  /\ running = FALSE
  /\ spc = "created"
  /\ cur = NoClient
  /\ stop = "no"
  /\ conn = [c \in Clients |-> "away"]
  /\ inbox = [c \in Clients |-> Silent]
  /\ sent = NoChunks
  /\ heard = FALSE
  /\ late = 0
-----------------------------------------------------------------------------
(* Before the server is started.                                           *)

OwnerUsesEngine ==
  /\ spc = "created"
  /\ EngineNext
  /\ UNCHANGED serverVars

\* ct_server_start: the socket listens, or the call fails.
Bind ==
  /\ spc = "created" /\ Idle
  /\ \/ spc' = "bound" /\ listen' = "open"
     \/ spc' = "returned" /\ UNCHANGED listen
  /\ UNCHANGED <<engineVars, running, stop, heard, clientVars, cur, late>>

SetRunning ==
  /\ spc = "bound"
  /\ running' = TRUE
  /\ spc' = "testing"
  /\ UNCHANGED <<engineVars, listen, stop, heard, clientVars, cur, late>>
-----------------------------------------------------------------------------
(* The loop.                                                               *)

KeepsServingAlways == TRUE
KeepsServing == running

TestRunning ==
  /\ spc = "testing"
  /\ spc' = IF KeepsServing THEN "calling" ELSE "returned"
  /\ UNCHANGED <<engineVars, socketVars, clientVars, cur, late>>

\* accept is called; on a socket that was closed it fails at once.
CallAccept ==
  /\ spc = "calling"
  /\ spc' = IF listen = "open" THEN "accepting" ELSE "returned"
  /\ UNCHANGED <<engineVars, socketVars, clientVars, cur, late>>

\* It returns a connection; it may, and on some systems it may not, notice that
\* its socket is closed meanwhile.
Accept(c) ==
  /\ spc = "accepting" /\ conn[c] = "queued"
  /\ conn' = [conn EXCEPT ![c] = "accepted"]
  /\ cur' = c
  /\ spc' = "receiving"
  /\ late' = IF heard THEN late + 1 ELSE late
  /\ UNCHANGED <<engineVars, socketVars, inbox, sent>>

\* Any error of accept ends the server.
AcceptFails ==
  /\ spc = "accepting"
  /\ spc' = "returned"
  /\ UNCHANGED <<engineVars, socketVars, clientVars, cur, late>>

CloseForgotten ==
  /\ inbox' = [inbox EXCEPT ![cur] = Silent]
  /\ sent' = NoChunks
  /\ cur' = NoClient
  /\ spc' = "testing"
  /\ UNCHANGED conn

\* The client's socket is closed, and the loop goes on.
Close ==
  /\ conn' = [conn EXCEPT ![cur] = "closed"]
  /\ inbox' = [inbox EXCEPT ![cur] = Silent]
  /\ sent' = NoChunks
  /\ cur' = NoClient
  /\ spc' = "testing"

\* recv returns a request that needs no engine, or fails; or the engine has no
\* model.
ReceiveAndAnswer ==
  /\ spc = "receiving" /\ inbox[cur] # Silent
  /\ inbox[cur] \in {Plain, HungUp} \/ ~ loaded
  /\ Close
  /\ UNCHANGED <<engineVars, socketVars, late>>

ReceiveCompletion ==
  /\ spc = "receiving" /\ inbox[cur] \in Completions /\ loaded
  /\ Begin(inbox[cur].op, inbox[cur].prompt, inbox[cur].max)
  /\ spc' = "generating"
  /\ UNCHANGED <<socketVars, clientVars, cur, late>>

\* stream_callback: the callback that says done sends a chunk that says stop, and
\* no token.
Chunk(tok, done) ==
  IF done THEN [sent EXCEPT !.ends = @ + 1] ELSE [sent EXCEPT !.tokens = Append(@, tok)]

\* The engine generates; stream_callback never ends a generation.
Generate ==
  /\ spc = "generating"
  /\ \/ /\ Prefill \/ PrefillOverruns \/ Announce \/ \E t \in TokenIds : SyncToken(t)
        /\ UNCHANGED sent
     \/ \E t \in TokenIds : StreamToken(t) /\ sent' = Chunk(t, IsLast)
  /\ UNCHANGED <<socketVars, conn, inbox, spc, cur, late>>

\* The generation has ended; without a stream all of it is sent now.
Respond ==
  /\ spc = "generating"
  /\ Return
  /\ Close
  /\ UNCHANGED <<socketVars, late>>
-----------------------------------------------------------------------------
(* ct_server_stop, in another thread.                                      *)

StopFlag ==
  /\ stop = "no"
  /\ running' = FALSE
  /\ stop' = "flagged"
  /\ heard' = running
  /\ UNCHANGED <<engineVars, listen, clientVars, spc, cur, late>>

StopClose ==
  /\ stop = "flagged"
  /\ listen' = IF listen = "open" THEN "closed" ELSE listen
  /\ stop' = "done"
  /\ UNCHANGED <<engineVars, running, heard, clientVars, spc, cur, late>>
-----------------------------------------------------------------------------
(* Clients.                                                                *)

Connect(c) ==
  /\ listen = "open" /\ conn[c] = "away"
  /\ conn' = [conn EXCEPT ![c] = "queued"]
  /\ UNCHANGED <<engineVars, socketVars, inbox, sent, spc, cur, late>>

\* What it sends earlier waits in the socket, and is received no sooner.
SendOrLeave(c) ==
  /\ conn[c] = "accepted" /\ inbox[c] = Silent
  /\ \E r \in Completions \cup {Plain, HungUp} : inbox' = [inbox EXCEPT ![c] = r]
  /\ UNCHANGED <<engineVars, socketVars, conn, sent, spc, cur, late>>

AcceptReturns == AcceptFails \/ \E c \in Clients : Accept(c)

ServerStep ==
  \/ SetRunning
  \/ TestRunning
  \/ CallAccept
  \/ ReceiveAndAnswer \/ ReceiveCompletion
  \/ Generate \/ Respond

ServerNext ==
  \/ OwnerUsesEngine
  \/ Bind
  \/ ServerStep
  \/ AcceptReturns
  \/ StopFlag \/ StopClose
  \/ \E c \in Clients : Connect(c) \/ SendOrLeave(c)

\* The server's thread runs, but accept and recv may wait for ever: no client
\* has to connect, to send anything or to leave, and no call has to be made.
ServerSpec ==
  /\ ServerInit
  /\ [][ServerNext]_allVars
  /\ WF_allVars(ServerStep)
-----------------------------------------------------------------------------
(* Properties.                                                             *)

\* After a ct_server_stop that found the server running, it serves at most one
\* connection more, even where closing the socket does not end its accept.
StopIsHeard == late <= 1

\* A stream sends what is generated for its own request, in order, short of the
\* last token at most; and it says stop once, after the last one.
StreamIsOwn ==
  spc = "generating" /\ call.op = "stream" /\ call.stage = "tokens" =>
    /\ call.prompt = inbox[cur].prompt
    /\ sent.tokens = SubSeq(out, 1, Len(out) - sent.ends)
    /\ sent.ends = IF out # <<>> /\ Len(out) = call.gen THEN 1 ELSE 0

\* Once an accepted client has sent something or left, its connection is closed
\* in the end, whatever it asks for, however its generation ends and whoever
\* stops the server.
ReceivedIsClosed ==
  \A c \in Clients :
    conn[c] = "accepted" /\ inbox[c] # Silent ~> conn[c] = "closed" \/ call.stage = "gone"

\* A connection that was accepted is closed in the end also when its client never
\* sends anything: recv has a timeout (server.h 42).  The server does not keep
\* this, and accepts nobody else meanwhile.
AcceptedIsClosed ==
  \A c \in Clients : conn[c] = "accepted" ~> conn[c] = "closed" \/ call.stage = "gone"

\* What ct_engine_generate_stream generates is what its client is sent: the
\* callback with done set carries a token too.  The server does not keep this.
StreamedTokens ==
  spc = "generating" /\ call.op = "stream" /\ call.stage = "tokens"
  => sent.tokens = out
=============================================================================
