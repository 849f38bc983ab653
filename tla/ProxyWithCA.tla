----------------------------- MODULE ProxyWithCA -----------------------------
(***************************************************************************)
(* The proxy's life cycle together with its certificate authority: start   *)
(* and regenerate_ca initialize the CA under the write lock of `ca', file   *)
(* by file, and start makes the authority its listener signs with in a      *)
(* later step, under the read lock (src-tauri/src/mitm_proxy.rs,            *)
(* ca_manager.rs).                                                         *)
(*                                                                         *)
(* A step is one of ProxyLifecycle and one of CAManager at once, or one of  *)
(* the latter alone; ProxyLifecycle's `ca' is whether the manager holds a    *)
(* certificate.                                                            *)
(***************************************************************************)
EXTENDS ProxyLifecycle, CAManager

CONSTANTS
    Free,           \* nobody holds the write lock of ca
    Regenerating    \* regenerate_ca holds it

ASSUME CompositionAssumption ==
    /\ Free \notin Callers
    /\ Regenerating \notin Callers
    /\ Free # Regenerating

VARIABLES
    holder,     \* who holds the write lock of ca across the steps of generate()
    taken,      \* the pair of the authority a start has made
    signs       \* the pair each listener signs with

compositionVars == <<holder, taken, signs>>
allVars == <<vars, caVars, compositionVars>>

CompositionInit ==
    /\ Init
    /\ CaInit
    /\ holder = Free
    /\ taken = [c \in Callers |-> EmptyPem]
    /\ signs = <<>>

HasCert == pem.cert # NoPem
-----------------------------------------------------------------------------
\* What the holder h of the lock returns to once the CA is initialized or has
\* failed to be.
Return(h) ==
    /\ ca' = HasCert'
    /\ IF h = Regenerating THEN RegenerateCa ELSE Certify(h)

\* For the mutant of Proceed: start does not await the initialization.
ProceedUnawaited(h) ==
    /\ IF writing' = "no" THEN holder' = Free ELSE holder' = h
    /\ IF writing' # "no" /\ h # Regenerating
         THEN /\ Goto(h, "certifying", "authorizing")
              /\ UNCHANGED <<spawned, listeners, task, port, ca, stopping, browser>>
         ELSE UNCHANGED vars
    /\ UNCHANGED <<taken, signs>>

\* The lock is kept while generate() writes.
Proceed(h) ==
    /\ IF writing' = "no"
         THEN holder' = Free /\ Return(h)
         ELSE /\ holder' = h
              /\ ca' = HasCert'
              /\ UNCHANGED <<start, listeners, task, port, stopping, browser>>
    /\ UNCHANGED <<taken, signs>>

\* has_cert(): nothing to initialize.
CertifyHeld(c) ==
    /\ holder = Free
    /\ ca
    /\ Certify(c)
    /\ UNCHANGED <<caVars, compositionVars>>

CertifyFirst(c) ==
    /\ holder = Free
    /\ caller[c] = "certifying"
    /\ CaStart
    /\ Proceed(c)

Regenerate ==
    /\ holder = Free
    /\ CaRegenerate
    /\ Proceed(Regenerating)

Write ==
    /\ holder # Free
    /\ Generate
    /\ Proceed(holder)
-----------------------------------------------------------------------------
\* ca.read().await.authority().
TakeAuthority(c) ==
    /\ holder = Free
    /\ Authorize(c)
    /\ taken' = [taken EXCEPT ![c] = pem]
    /\ UNCHANGED <<caVars, holder, signs>>

SpawnSigning(c) ==
    /\ Spawn(c)
    /\ signs' = Append(signs, taken[c])
    /\ UNCHANGED <<caVars, holder, taken>>

\* set_config replaces the address and the CAConfig at once.
Configure(p, c) ==
    /\ SetConfig(p)
    /\ CaSetConfig(c)
    /\ UNCHANGED compositionVars

DeleteFile(p) ==
    /\ Delete(p)
    /\ UNCHANGED <<vars, compositionVars>>

CrashBoth ==
    /\ Crash
    /\ CaRestart
    /\ holder' = Free
    /\ taken' = [c \in Callers |-> EmptyPem]
    /\ signs' = <<>>

\* The steps of the life cycle that leave the CA alone.
Elsewhere ==
    /\ \/ \E c \in Callers : Check(c) \/ BuildFails(c) \/ Store(c)
       \/ \E l \in DOMAIN listeners : Bind(l) \/ Ended(l)
       \/ Stop \/ StopBrowser \/ KillChromium
       \/ Launch \/ StoreBrowser
    /\ UNCHANGED <<caVars, compositionVars>>

CompositionNext ==
    \/ Elsewhere
    \/ \E c \in Callers :
          CertifyHeld(c) \/ CertifyFirst(c) \/ TakeAuthority(c) \/ SpawnSigning(c)
    \/ Regenerate \/ Write
    \/ \E p \in Ports, c \in Configs : Configure(p, c)
    \/ \E p \in Paths : DeleteFile(p)
    \/ CrashBoth

CompositionSpec == CompositionInit /\ [][CompositionNext]_allVars
-----------------------------------------------------------------------------
\* The types of the variables; who holds the lock is where it takes it.
CompositionTypeOK ==
    /\ holder \in {Free, Regenerating} \union {c \in Callers : caller[c] = "certifying"}
    /\ taken \in [Callers -> [cert : Nat \union {NoPem}, key : Nat \union {NoPem}]]
    /\ signs \in Seq([cert : Nat \union {NoPem}, key : Nat \union {NoPem}])
    /\ Len(signs) = Len(listeners)

\* As long as nobody deletes files or configures other paths: every listener
\* that runs signs with the one pair that lies whole in the default files, the
\* pair a trust store was given, whatever starts, regenerations, failed writes
\* and crashes came before it.
SignsWithStoredPair ==
    ~tampered =>
        \A l \in DOMAIN signs \intersect Live :
            /\ signs[l].cert = signs[l].key
            /\ signs[l].cert = file[DefaultCert]
            /\ signs[l].key = file[DefaultKey]

\* Every step of the composition is a step of the life cycle, or none: start is
\* as if the CA were initialized at once.
LifecycleIsKept == Spec
=============================================================================
