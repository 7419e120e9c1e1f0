----------------------------- MODULE MyBeLoader -----------------------------
(***************************************************************************)
(* MyBeLoader and its Impl: download sessions of an application thread,    *)
(* and the loader thread that is meant to serve them.  A session is the    *)
(* address of its Session object, so a new one may get the address of one  *)
(* that was deleted; the curl easy handle goes with it.  The application   *)
(* uses a session from createSession to abortSession, as the comments of   *)
(* MyBeLoader.hpp allow, and then deletes the loader.                      *)
(*                                                                         *)
(* Of libcurl only two things matter: adding a handle twice changes        *)
(* nothing, and cleaning a handle up takes it out of its multi handle.  No *)
(* transfer makes progress unless somebody drives the multi handle.  Time  *)
(* is left out: m_timeout and m_start_time are written and never read.     *)
(***************************************************************************)
EXTENDS Naturals, Sequences

CONSTANTS
  Addresses,           \* where a Session object may be
  MaxCreated           \* bound: calls to createSession()

ASSUME LoaderAssumption == MaxCreated \in Nat

VARIABLES
  session,             \* what is at each address
  members,             \* m_sessions
  attached,            \* handles in m_curl_multi
  multi,               \* m_curl_multi: "open" or "cleaned"
  shutdown,            \* m_shutdown
  answered,            \* addresses whose session got a callback, either one
  app,                 \* where the application thread is
  thread               \* where the loader thread is

sessionVars == <<session, members, attached, answered>>
vars == <<session, members, attached, multi, shutdown, answered, app, thread>>

Init ==
  /\ session = [s \in Addresses |-> "free"]
  /\ members = <<>>
  /\ attached = {}
  /\ multi = "open"
  /\ shutdown = FALSE
  /\ answered = {}
  /\ app = "using"
  /\ thread = "check"

-----------------------------------------------------------------------------
(* The application thread *)

Exists(s) == session[s] \in {"created", "started"}

\* Session::start(): cannot fail.
Start(s) ==
  /\ session' = [session EXCEPT ![s] = "started"]
  /\ attached' = attached \cup {s}

\* ~Session(): the handle is cleaned up.  A bug of that kind: it is not.
DestroyButHandle(s) ==
  /\ session' = [session EXCEPT ![s] = "free"]
  /\ UNCHANGED attached
Destroy(s) ==
  /\ session' = [session EXCEPT ![s] = "free"]
  /\ attached' = attached \ {s}

CreateSession(s) ==
  /\ app = "using" /\ Len(members) < MaxCreated
  /\ session[s] = "free"
  /\ session' = [session EXCEPT ![s] = "created"]
  /\ members' = Append(members, s)
  /\ answered' = answered \ {s}
  /\ UNCHANGED <<attached, multi, shutdown, app, thread>>

\* The session is never deleted here and the answer is true, for a session that
\* was started before too.
CommitSession(s) ==
  /\ app = "using"
  /\ Exists(s)
  /\ Start(s)
  /\ UNCHANGED <<members, multi, shutdown, answered, app, thread>>

\* The address of the session stays in m_sessions, and the callback hears
\* nothing.
AbortSession(s) ==
  /\ app = "using"
  /\ Exists(s)
  /\ Destroy(s)
  /\ UNCHANGED <<members, multi, shutdown, answered, app, thread>>

\* forceSessionEarly(), -Better() and -Best() are assert(0).
ForceSession(s) ==
  /\ app = "using"
  /\ Exists(s)
  /\ app' = "killed" /\ thread' = "killed"
  /\ UNCHANGED <<sessionVars, multi, shutdown>>

\* ~Impl().  A bug of that kind: the thread is not told.
DeleteUntold ==
  /\ app = "using"
  /\ app' = "joining"
  /\ UNCHANGED <<sessionVars, multi, shutdown, thread>>
DeleteLoader ==
  /\ app = "using"
  /\ shutdown' = TRUE
  /\ app' = "joining"
  /\ UNCHANGED <<sessionVars, multi, thread>>

\* pthread_join() returned; sessions left are neither aborted nor deleted.
\* A bug of that kind: nobody waits for the thread.
CleanAtOnce ==
  /\ app = "joining"
  /\ multi' = "cleaned" /\ attached' = {}
  /\ app' = "gone"
  /\ UNCHANGED <<session, members, shutdown, answered, thread>>
Joined ==
  /\ app = "joining" /\ thread = "done"
  /\ multi' = "cleaned" /\ attached' = {}
  /\ app' = "gone"
  /\ UNCHANGED <<session, members, shutdown, answered, thread>>

-----------------------------------------------------------------------------
(* The loader thread.  m_shutdown is a plain bool, but sleep() is a call   *)
(* the compiler cannot see through: the flag is read again behind it.      *)

\* A bug of that kind: the loop runs while it was told to end.
ThreadLooksWrong ==
  /\ thread = "check"
  /\ thread' = IF shutdown THEN "sleep" ELSE "done"
  /\ UNCHANGED <<sessionVars, multi, shutdown, app>>
ThreadLooks ==
  /\ thread = "check"
  /\ thread' = IF shutdown THEN "done" ELSE "sleep"
  /\ UNCHANGED <<sessionVars, multi, shutdown, app>>

ThreadSleeps ==
  /\ thread = "sleep"
  /\ thread' = "check"
  /\ UNCHANGED <<sessionVars, multi, shutdown, app>>

Loader == ThreadLooks \/ ThreadSleeps

Next ==
  \/ \E s \in Addresses : \/ CreateSession(s) \/ CommitSession(s)
                          \/ AbortSession(s) \/ ForceSession(s)
  \/ DeleteLoader \/ Joined
  \/ Loader

\* The loader thread runs, sleep() returns, and so does pthread_join() once the
\* thread has ended.  What the application calls, and whether, is up to it.
Spec == Init /\ [][Next]_vars /\ WF_vars(Loader) /\ WF_vars(Joined)

-----------------------------------------------------------------------------
(* Properties *)

\* Types, with what the two threads know of each other: the loader thread only
\* ends because it was told to, and it is told when the application is done.
TypeOK ==
  /\ session \in [Addresses -> {"free", "created", "started"}]
  /\ members \in Seq(Addresses)
  /\ attached \subseteq Addresses
  /\ multi \in {"open", "cleaned"}
  /\ shutdown \in BOOLEAN
  /\ answered \subseteq Addresses
  /\ app \in {"using", "joining", "gone", "killed"}
  /\ thread \in {"check", "sleep", "done", "killed"}
  /\ thread = "done" => shutdown
  /\ shutdown => app \in {"joining", "gone"}

\* curl works on the handles of the sessions that were started and on no
\* other: through commits made twice, aborts of started sessions and addresses
\* used again, no handle of a deleted session is left with it (lines 48-61).
HandlesLive ==
  multi = "open" => attached = {s \in Addresses : session[s] = "started"}

\* The multi handle and the Impl the loader thread runs in are not freed under
\* it: they go when it has ended (lines 94-101, 117-123).
FreedBehindThread == multi = "cleaned" => app = "gone" /\ thread = "done"

\* The destructor returns, wherever the loader thread is when it is called.
DestructorReturns == (app = "joining") ~> (app = "gone")

\* "Callback invoked when a download session completes" or "encounters an
\* error" (MyBeLoader.hpp:15, :20), and when it is aborted (:57): a session
\* that was started is answered, unless the process dies.
Answered ==
  \A s \in Addresses :
    (session[s] = "started") ~> (s \in answered \/ app = "killed")
=============================================================================
