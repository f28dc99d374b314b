----------------------------- MODULE KotakStream -----------------------------
(***************************************************************************)
(* The live feed of the Kotak Neo adapter, data/adapters/kotak_neo.py: one *)
(* client thread subscribes, waits for the feed and disconnects; a worker  *)
(* thread connects a web socket, hands ticks to the callbacks, backs off   *)
(* and reconnects.  disconnect waits three seconds for the worker and gives*)
(* it up, and a callback may disconnect from inside the worker, so that an *)
(* older worker can outlive its stream and find the stop event cleared by  *)
(* the next subscription.  Each start of the thread is a worker of its own,*)
(* and they share one `_ws_client` and one `_stream_loop`.                 *)
(*                                                                         *)
(* The steps of a worker end where it awaits the network, sleeps or calls  *)
(* out.  Sockets and the SDK's errors are choices of the environment.      *)
(***************************************************************************)
EXTENDS Naturals, FiniteSets

CONSTANTS
  Workers,      \* starts of the thread: strings, a bound on their number
  Good, Bad,    \* symbols that resolve to a token, and that do not
  Lists,        \* the lists of symbols a client subscribes in one call
  MaxAttempts,  \* max_reconnect_attempts
  MaxCalls      \* bound: calls of the client

Symbols == Good \cup Bad

ASSUME StreamAssumption ==
  /\ Workers \cap {"none", "client"} = {}
  /\ Good \cap Bad = {} /\ Lists \subseteq SUBSET Symbols /\ MaxAttempts \in Nat /\ MaxCalls \in Nat

None == "none"
Actors == Workers \cup {"client"}

VARIABLES
  status,      \* _feed_status
  authed,      \* _is_authenticated
  subs,        \* _subscriptions
  listening,   \* there are _tick_callbacks
  ws,          \* whose socket _ws_client is
  loop,        \* whose loop _stream_loop is
  thread,      \* _stream_thread
  stop, ready, \* _stop_event and _ready_event
  lock,        \* who holds _thread_lock while it joins, or None
  pc,          \* of each worker
  failures,    \* consecutive_failures
  last,        \* the finally clause ends the worker's loop
  open,        \* the worker's own socket is open
  served,      \* symbols asked for on that socket
  requests,    \* lists to subscribe, scheduled on a worker's loop
  client,      \* of the client thread
  calls,       \* calls of the client so far
  (* History. *)
  heard,       \* a tick has come through the worker's present socket
  spoiled,     \* symbols last asked for beside one that does not resolve
  orphans      \* workers a disconnect left running

Shared == <<status, authed, subs, listening, ws, loop, thread, stop, ready, lock>>
OfWorkers == <<pc, failures, last, open, served, requests, heard, spoiled, orphans>>
vars == <<Shared, OfWorkers, client, calls>>

PC == {"new", "born", "check", "connect", "stream", "callback", "wanting", "joining",
       "leaving", "backoff", "finally", "ending", "exiting", "dead"}
Alive(w) == w # None /\ pc[w] \notin {"new", "dead"}

Init ==
  /\ status = "LIVE_CONNECTING" /\ authed = FALSE
  /\ subs = {} /\ listening = FALSE
  /\ ws = None /\ loop = None /\ thread = None
  /\ stop = FALSE /\ ready = FALSE /\ lock = None
  /\ pc = [w \in Workers |-> "new"]
  /\ failures = [w \in Workers |-> 0] /\ last = [w \in Workers |-> FALSE]
  /\ open = [w \in Workers |-> FALSE] /\ served = [w \in Workers |-> {}]
  /\ heard = [w \in Workers |-> FALSE]
  /\ requests = {} /\ spoiled = {} /\ orphans = {} /\ client = <<"idle", None>> /\ calls = 0

-----------------------------------------------------------------------------
(* The client's calls.                                                     *)

Call == client[1] = "idle" /\ calls < MaxCalls /\ calls' = calls + 1

Authenticate ==
  /\ Call
  /\ \/ authed' = TRUE /\ status' = "LIVE_CONNECTING"
     \/ authed' = authed /\ status' = "LIVE_FAILED"
  /\ UNCHANGED <<subs, listening, ws, loop, thread, stop, ready, lock, OfWorkers, client>>

(* subscribe_ticks adds the symbols before it takes the lock ... *)
Subscribe(list) ==
  /\ Call
  /\ authed
  /\ subs' = subs \cup list /\ listening' = TRUE
  /\ client' = <<"subscribing", list>>
  /\ UNCHANGED <<status, authed, ws, loop, thread, stop, ready, lock, OfWorkers>>

(* Mutant: only a thread that has not begun yet is left to do it. *)
MutNeedsThread == thread \notin {w \in Workers : pc[w] = "born"}

NeedsThread == ~Alive(thread)

(* ... and then starts the stream, or asks the running one for the list.   *)
StartStream(w) ==
  /\ client[1] = "subscribing" /\ lock = None
  /\ NeedsThread
  /\ pc[w] = "new"
  /\ stop' = FALSE /\ ready' = FALSE /\ status' = "LIVE_CONNECTING"
  /\ thread' = w /\ pc' = [pc EXCEPT ![w] = "born"]
  /\ client' = <<"idle", None>>
  /\ UNCHANGED <<authed, subs, listening, ws, loop, lock, failures, last, open, served,
                 requests, heard, spoiled, orphans, calls>>

AskRunning ==
  /\ client[1] = "subscribing" /\ lock = None
  /\ ~NeedsThread
  /\ requests' = IF loop = None THEN requests ELSE requests \cup {<<loop, client[2]>>}
  /\ client' = <<"idle", None>>
  /\ UNCHANGED <<Shared, pc, failures, last, open, served, heard, spoiled, orphans, calls>>

Unsubscribe(s) ==
  /\ Call
  /\ s \in subs
  /\ subs' = subs \ {s}
  /\ UNCHANGED <<status, authed, listening, ws, loop, thread, stop, ready, lock,
                 OfWorkers, client>>

WaitUntilReady ==
  /\ Call
  /\ client' = <<"waiting", None>>
  /\ UNCHANGED <<Shared, OfWorkers>>

(* True, or ConnectionError, by the status it then reads ... *)
Awake ==
  /\ client[1] = "waiting" /\ ready
  /\ client' = <<"idle", None>>
  /\ UNCHANGED <<Shared, OfWorkers, calls>>

(* ... or TimeoutError; the worker goes on. *)
TimeOut ==
  /\ client[1] = "waiting" /\ ~ready
  /\ client' = <<"idle", None>>
  /\ status' = "LIVE_FAILED"
  /\ UNCHANGED <<authed, subs, listening, ws, loop, thread, stop, ready, lock,
                 OfWorkers, calls>>

-----------------------------------------------------------------------------
(* disconnect(), by the client or by a callback.                           *)

Disconnected ==
  /\ thread' = IF Alive(thread) THEN None ELSE thread
  /\ orphans' = IF Alive(thread) THEN orphans \cup {thread} ELSE orphans
  /\ authed' = FALSE /\ subs' = {} /\ listening' = FALSE
  /\ status' = "LIVE_FAILED"
  /\ lock' = None

Caller(a, here, next) ==
  IF a = "client"
  THEN /\ client[1] = here
       /\ client' = <<next, None>>
       /\ UNCHANGED pc
  ELSE /\ pc[a] = IF here = "idle" THEN "wanting" ELSE here
       /\ pc' = [pc EXCEPT ![a] = IF next = "idle" THEN "leaving" ELSE next]
       /\ UNCHANGED client

(* Both events are set and the present socket closed; then the worker is   *)
(* joined, unless it is the caller.                                        *)
Disconnect(a) ==
  /\ lock = None
  /\ IF a = "client" THEN Call ELSE UNCHANGED calls
  /\ stop' = TRUE /\ ready' = TRUE
  /\ open' = IF loop # None /\ ws # None THEN [open EXCEPT ![ws] = FALSE] ELSE open
  /\ IF Alive(thread) /\ a # thread
     THEN /\ Caller(a, "idle", "joining")
          /\ lock' = a
          /\ UNCHANGED <<status, authed, subs, listening, thread, orphans>>
     ELSE Caller(a, "idle", "idle") /\ Disconnected
  /\ UNCHANGED <<ws, loop, failures, last, served, requests, heard, spoiled>>

(* Where a worker may stay for longer than join(timeout=3.0): connecting,  *)
(* asleep, in a callback, closing, or on a stream nobody closed.           *)
(* Mutant: join without a timeout. *)
MutOutlasts(w) == FALSE

Outlasts(w) ==
  \/ pc[w] \in {"connect", "backoff", "callback", "wanting", "joining", "leaving",
               "finally"}
  \/ pc[w] = "stream" /\ open[w]

Joined(a) ==
  /\ lock = a
  /\ ~Alive(thread) \/ Outlasts(thread)
  /\ Caller(a, "joining", "idle")
  /\ Disconnected
  /\ UNCHANGED <<ws, loop, stop, ready, failures, last, open, served, requests, heard,
                 spoiled, calls>>

-----------------------------------------------------------------------------
(* The worker: _run_stream_loop and _stream_worker.                        *)

Begin(w) ==
  /\ pc[w] = "born"
  /\ loop' = w /\ pc' = [pc EXCEPT ![w] = "check"]
  /\ UNCHANGED <<status, authed, subs, listening, ws, thread, stop, ready, lock, failures,
                 last, open, served, requests, heard, spoiled, orphans, client, calls>>

(* except Exception: give up, or sleep. *)
(* Mutants: each failure is the first one; one attempt too many. *)
MutFailuresNow(w) == 1
MutGivesUp(w) == stop \/ failures[w] > MaxAttempts

FailuresNow(w) == failures[w] + 1
GivesUp(w) == stop \/ FailuresNow(w) > MaxAttempts

Fail(w) ==
  /\ failures' = [failures EXCEPT ![w] = FailuresNow(w)]
  /\ IF GivesUp(w)
     THEN /\ status' = "LIVE_FAILED" /\ ready' = TRUE
          /\ pc' = [pc EXCEPT ![w] = "finally"] /\ last' = [last EXCEPT ![w] = TRUE]
     ELSE /\ status' = "LIVE_CONNECTING"
          /\ pc' = [pc EXCEPT ![w] = "backoff"]
          /\ UNCHANGED <<ready, last>>

Finish(w) == /\ pc' = [pc EXCEPT ![w] = "finally"]
             /\ last' = [last EXCEPT ![w] = stop]

(* while not stop: create the socket, unless disconnect came between.      *)
Check(w) ==
  /\ pc[w] = "check"
  /\ \/ /\ stop
        /\ pc' = [pc EXCEPT ![w] = "ending"]
        /\ UNCHANGED <<status, ws, ready, failures, last, heard>>
     \/ /\ ~stop /\ ~authed
        /\ Fail(w)
        /\ UNCHANGED <<ws, heard>>
     \/ /\ ~stop /\ authed
        /\ status' = "LIVE_CONNECTING"
        /\ ws' = w /\ heard' = [heard EXCEPT ![w] = FALSE]
        /\ pc' = [pc EXCEPT ![w] = "connect"]
        /\ UNCHANGED <<ready, failures, last>>
  /\ UNCHANGED <<authed, subs, listening, loop, thread, stop, lock, open, served,
                 requests, spoiled, orphans, client, calls>>

(* Mutant: a socket is a connection. *)
MutStatusOnConnect == "LIVE_CONNECTED"

StatusOnConnect == status

(* A symbol without a token raises, whoever subscribed it. *)
Resolves(list) == list \cap Bad = {}

Connected(w) ==
  /\ pc[w] = "connect"
  /\ Resolves(subs)
  /\ failures' = [failures EXCEPT ![w] = 0]
  /\ open' = [open EXCEPT ![w] = TRUE] /\ served' = [served EXCEPT ![w] = subs]
  /\ spoiled' = {}
  /\ status' = StatusOnConnect
  /\ pc' = [pc EXCEPT ![w] = "stream"]
  /\ UNCHANGED <<authed, subs, listening, ws, loop, thread, stop, ready, lock, last,
                 requests, heard, orphans, client, calls>>

Breaks(w) ==
  /\ pc[w] \in {"connect", "stream"}
  /\ Fail(w)
  /\ open' = [open EXCEPT ![w] = FALSE]
  /\ UNCHANGED <<authed, subs, listening, ws, loop, thread, stop, lock, served,
                 requests, heard, spoiled, orphans, client, calls>>

(* The stream ends without an exception: no backoff. *)
StreamEnds(w) ==
  /\ pc[w] = "stream"
  /\ open' = [open EXCEPT ![w] = FALSE]
  /\ Finish(w)
  /\ UNCHANGED <<Shared, failures, served, requests, heard, spoiled, orphans, client,
                 calls>>

(* _handle_sfeed_message, of a message that is a tick *)
Message(w) ==
  /\ pc[w] = "stream" /\ open[w]
  /\ IF stop
     THEN Finish(w) /\ UNCHANGED <<status, ready, heard>>
     ELSE /\ status' = "LIVE_CONNECTED"
          /\ ready' = (ready \/ status # "LIVE_CONNECTED")
          /\ heard' = [heard EXCEPT ![w] = TRUE]
          /\ pc' = [pc EXCEPT ![w] = IF listening THEN "callback" ELSE "stream"]
          /\ UNCHANGED last
  /\ UNCHANGED <<authed, subs, listening, ws, loop, thread, stop, lock, failures, open,
                 served, requests, spoiled, orphans, client, calls>>

CallbackReturns(w) ==
  /\ pc[w] \in {"callback", "leaving"}
  /\ IF stop THEN Finish(w) ELSE pc' = [pc EXCEPT ![w] = "stream"] /\ UNCHANGED last
  /\ UNCHANGED <<Shared, failures, open, served, requests, heard, spoiled, orphans,
                 client, calls>>

CallbackDisconnects(w) ==
  /\ pc[w] = "callback"
  /\ pc' = [pc EXCEPT ![w] = "wanting"]
  /\ UNCHANGED <<Shared, failures, last, open, served, requests, heard, spoiled, orphans,
                 client, calls>>

Wake(w) ==
  /\ pc[w] = "backoff"
  /\ pc' = [pc EXCEPT ![w] = "finally"] /\ last' = [last EXCEPT ![w] = FALSE]
  /\ UNCHANGED <<Shared, failures, open, served, requests, heard, spoiled, orphans,
                 client, calls>>

(* finally: the shared socket is closed, whoever's it is. *)
Finally(w) ==
  /\ pc[w] = "finally"
  /\ open' = [v \in Workers |-> open[v] /\ v # ws]
  /\ ws' = None
  /\ pc' = [pc EXCEPT ![w] = IF last[w] THEN "ending" ELSE "check"]
  /\ UNCHANGED <<status, authed, subs, listening, loop, thread, stop, ready, lock, failures,
                 last, served, requests, heard, spoiled, orphans, client, calls>>

(* The loop is closed and its tasks are cancelled; then the thread is over. *)
Ends(w) ==
  /\ pc[w] = "ending"
  /\ loop' = None
  /\ requests' = {r \in requests : r[1] # w}
  /\ pc' = [pc EXCEPT ![w] = "exiting"]
  /\ UNCHANGED <<status, authed, subs, listening, ws, thread, stop, ready, lock, failures,
                 last, open, served, heard, spoiled, orphans, client, calls>>

Exits(w) ==
  /\ pc[w] = "exiting"
  /\ pc' = [pc EXCEPT ![w] = "dead"]
  /\ UNCHANGED <<Shared, failures, last, open, served, requests, heard, spoiled, orphans,
                 client, calls>>

(* _async_subscribe_symbols runs when the worker awaits.  It resolves the  *)
(* whole list before it asks for any: one symbol without a token raises,   *)
(* the exception is lost and so are the others of that call.               *)
RunRequest(w, list) ==
  /\ <<w, list>> \in requests
  /\ pc[w] \in {"connect", "stream", "backoff", "finally"}
  /\ requests' = requests \ {<<w, list>>}
  /\ IF ws # None /\ Resolves(list)
     THEN /\ served' = [served EXCEPT ![ws] = IF open[ws] THEN @ \cup list ELSE @]
          /\ spoiled' = spoiled \ list
     ELSE /\ spoiled' = IF ws = None THEN spoiled ELSE spoiled \cup list
          /\ UNCHANGED served
  /\ UNCHANGED <<Shared, pc, failures, last, open, heard, orphans, client, calls>>

-----------------------------------------------------------------------------
Client ==
  \/ Authenticate \/ WaitUntilReady \/ Awake \/ TimeOut \/ AskRunning
  \/ \E list \in Lists : Subscribe(list)
  \/ \E s \in Symbols : Unsubscribe(s)
  \/ \E w \in Workers : StartStream(w)

(* What a worker does sooner or later: connecting and closing end one way  *)
(* or another, callbacks return, sleeps end, a closed socket ends a stream.*)
Progress(w) ==
  \/ Begin(w) \/ Check(w) \/ Connected(w) \/ (pc[w] = "connect" /\ Breaks(w))
  \/ (~open[w] /\ StreamEnds(w)) \/ CallbackReturns(w) \/ Wake(w) \/ Finally(w)
  \/ Ends(w) \/ Exits(w) \/ Disconnect(w)

(* What the network and the callbacks may do at any time, or never. *)
Worker(w) ==
  \/ Progress(w) \/ Breaks(w) \/ StreamEnds(w) \/ Message(w) \/ CallbackDisconnects(w)
  \/ \E list \in Lists : RunRequest(w, list)

Next ==
  \/ Client
  \/ \E a \in Actors : Joined(a)
  \/ Disconnect("client")
  \/ \E w \in Workers : Worker(w)

Fairness ==
  /\ \A w \in Workers : WF_vars(Progress(w))
  /\ \A a \in Actors : WF_vars(Joined(a))

Spec == Init /\ [][Next]_vars /\ Fairness
-----------------------------------------------------------------------------
TypeOK ==
  /\ status \in {"LIVE_CONNECTING", "LIVE_CONNECTED", "LIVE_FAILED"}
  /\ authed \in BOOLEAN /\ listening \in BOOLEAN /\ stop \in BOOLEAN /\ ready \in BOOLEAN
  /\ subs \subseteq Symbols
  /\ {ws, loop, thread} \subseteq Workers \cup {None} /\ lock \in Actors \cup {None}
  /\ pc \in [Workers -> PC] /\ failures \in [Workers -> 0 .. MaxAttempts + 1]
  /\ last \in [Workers -> BOOLEAN] /\ open \in [Workers -> BOOLEAN]
  /\ heard \in [Workers -> BOOLEAN] /\ served \in [Workers -> SUBSET Symbols]
  /\ requests \subseteq Workers \X Lists /\ spoiled \subseteq Symbols
  /\ orphans \subseteq Workers
  /\ client \in ({"idle", "waiting", "joining"} \X {None}) \cup ({"subscribing"} \X Lists)
  /\ calls \in 0 .. MaxCalls

(* Unless a disconnect left a worker running, one stream at most is alive, *)
(* and while it streams a symbol the client holds was asked for on its     *)
(* socket, or the request is still to run, unless that request had another *)
(* symbol in its list that does not resolve: reconnects and subscriptions  *)
(* in the middle of a stream lose no other, and a connect gets those back. *)
OneStreamServesAll ==
  /\ \A v, w \in Workers \ orphans : Alive(v) /\ Alive(w) => v = w
  /\ orphans = {} =>
       \A w \in Workers : pc[w] = "stream" /\ open[w] =>
         \A s \in (subs \cap Good) \ (served[w] \cup spoiled) :
           \E list \in Lists :
             s \in list /\ (<<w, list>> \in requests \/ client = <<"subscribing", list>>)

(* "Expose truthful feed connection state" (kotak_neo.py:144): connected   *)
(* means that a worker has had a tick through its present socket, or has   *)
(* just lost it and not said so yet; and when the worker has ended nobody  *)
(* is left waiting, nor told of a connection that no older worker has.     *)
TruthfulStatus ==
  /\ status = "LIVE_CONNECTED" /\ lock = None =>
       \E w \in Workers : Alive(w) /\ heard[w]
  /\ thread # None /\ pc[thread] = "dead" /\ lock = None =>
       ready /\ (orphans = {} => status # "LIVE_CONNECTED")

(* A worker that has begun to connect comes to stream or gives up. *)
RetriesEnd ==
  \A w \in Workers : (pc[w] = "connect") ~> (pc[w] \in {"stream", "dead"})

(* disconnect returns, whatever the worker is doing, even when the worker  *)
(* itself is waiting to disconnect; and a worker it gave up ends by itself,*)
(* unless a new stream clears the stop event first, or the worker had been *)
(* connecting and now waits on a socket that nobody closes.                *)
DisconnectConcludes ==
  /\ (lock # None) ~> (lock = None)
  /\ \A w \in Workers :
       (w \in orphans /\ stop) ~> (pc[w] = "dead" \/ ~stop \/ (pc[w] = "stream" /\ open[w]))
=============================================================================
