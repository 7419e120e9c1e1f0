-------------------------- MODULE MyBeLoaderProofs --------------------------
(***************************************************************************)
(* Theorems about MyBeLoader, for any number of addresses and sessions.    *)
(***************************************************************************)
EXTENDS MyBeLoader, TLAPS

\* The three invariants together: which handles curl has depends on where the
\* application thread is, and that on the loader thread.
LoaderInv == TypeOK /\ HandlesLive /\ FreedBehindThread

LEMMA LoaderInvInit == Init => LoaderInv
<1> SUFFICES ASSUME Init PROVE LoaderInv  OBVIOUS
<1>1. TypeOK
  <2>1. session \in [Addresses -> {"free", "created", "started"}]
    BY DEF Init
  <2>2. members \in Seq(Addresses)
    BY DEF Init
  <2>3. ~shutdown /\ shutdown \in BOOLEAN
    BY DEF Init
  <2>4. attached = {} /\ answered = {} /\ multi = "open"
    BY DEF Init
  <2>5. app = "using" /\ thread = "check"
    BY DEF Init
  <2> QED  BY <2>1, <2>2, <2>3, <2>4, <2>5 DEF TypeOK
<1>2. HandlesLive  BY DEF Init, HandlesLive
<1>3. FreedBehindThread  BY DEF Init, FreedBehindThread
<1> QED  BY <1>1, <1>2, <1>3 DEF LoaderInv

LEMMA LoaderInvNext == LoaderInv /\ [Next]_vars => LoaderInv'
<1> SUFFICES ASSUME LoaderInv, [Next]_vars PROVE LoaderInv'  OBVIOUS
<1> USE DEF LoaderInv, TypeOK, HandlesLive, FreedBehindThread
<1>1. ASSUME NEW s \in Addresses, CreateSession(s) PROVE LoaderInv'
  BY <1>1 DEF CreateSession
<1>2. ASSUME NEW s \in Addresses, CommitSession(s) PROVE LoaderInv'
  BY <1>2 DEF CommitSession, Exists, Start
<1>3. ASSUME NEW s \in Addresses, AbortSession(s) PROVE LoaderInv'
  BY <1>3 DEF AbortSession, Exists, Destroy
<1>4. ASSUME NEW s \in Addresses, ForceSession(s) PROVE LoaderInv'
  BY <1>4 DEF ForceSession, sessionVars
<1>5. CASE DeleteLoader
  BY <1>5 DEF DeleteLoader, sessionVars
<1>6. CASE Joined
  BY <1>6 DEF Joined
<1>7. CASE ThreadLooks
  BY <1>7 DEF ThreadLooks, sessionVars
<1>8. CASE ThreadSleeps
  BY <1>8 DEF ThreadSleeps, sessionVars
<1>9. CASE UNCHANGED vars
  BY <1>9 DEF vars
<1> QED
  BY <1>1, <1>2, <1>3, <1>4, <1>5, <1>6, <1>7, <1>8, <1>9 DEF Next, Loader

LEMMA LoaderInvAlways == Spec => []LoaderInv
BY LoaderInvInit, LoaderInvNext, PTL DEF Spec

\* The types hold, and the loader thread only ends when the loader is deleted.
THEOREM TypeCorrect == Spec => []TypeOK
<1>1. LoaderInv => TypeOK  BY DEF LoaderInv
<1> QED  BY LoaderInvAlways, <1>1, PTL

\* curl never has a handle of a session that was deleted, and has that of every
\* session that was started, however addresses are used again.
THEOREM HandlesAreLive == Spec => []HandlesLive
<1>1. LoaderInv => HandlesLive  BY DEF LoaderInv
<1> QED  BY LoaderInvAlways, <1>1, PTL

\* What the loader thread uses is freed behind it.
THEOREM NothingFreedUnderThread == Spec => []FreedBehindThread
<1>1. LoaderInv => FreedBehindThread  BY DEF LoaderInv
<1> QED  BY LoaderInvAlways, <1>1, PTL
=============================================================================
