------------------------------ MODULE CAManager ------------------------------
(***************************************************************************)
(* The proxy's certificate authority (src-tauri/src/ca_manager.rs) and the  *)
(* calls that load, generate or replace it (start and regenerate_ca in      *)
(* mitm_proxy.rs), with crashes of the process between any two writes and   *)
(* writes that fail.                                                        *)
(*                                                                         *)
(* A generated pair is a number, written into the certificate file and then *)
(* into the key file.  A file being written is torn; a torn file does not   *)
(* parse.  External: rcgen's Issuer::from_ca_cert_pem parses the            *)
(* certificate and takes the key as it is given, and the user, who may      *)
(* delete a file.                                                           *)
(***************************************************************************)
EXTENDS Naturals

CONSTANTS
    CertPaths,      \* certificate files a configuration may name
    KeyPaths,       \* key files it may name
    DefaultCert,    \* ca_dir/ca.pem
    DefaultKey,     \* ca_dir/ca.key.pem
    MaxPairs,       \* bound: pairs generated
    Absent,         \* no such file
    Torn,           \* a file cut short
    NoPem           \* nothing in memory

ASSUME CAAssumption ==
    /\ DefaultCert \in CertPaths
    /\ DefaultKey \in KeyPaths
    /\ CertPaths \intersect KeyPaths = {}
    /\ MaxPairs \in Nat
    /\ Absent \notin Nat /\ Torn \notin Nat /\ NoPem \notin Nat
    /\ Absent # Torn

VARIABLES
    file,       \* what each file holds
    pem,        \* the manager's ca_cert_pem and ca_key_pem
    config,     \* the manager's CAConfig
    wanted,     \* the CAConfig of the proxy's configuration
    writing,    \* where generate() is
    pairs,      \* pairs generated so far
    tampered    \* a file was deleted, or other paths were configured

caVars == <<file, pem, config, wanted, writing, pairs, tampered>>

Paths == CertPaths \union KeyPaths
Configs == [cert : CertPaths, key : KeyPaths, generate : BOOLEAN]
DefaultConfig == [cert |-> DefaultCert, key |-> DefaultKey, generate |-> TRUE]
EmptyPem == [cert |-> NoPem, key |-> NoPem]

CaInit ==
    /\ file = [p \in Paths |-> Absent]
    /\ pem = EmptyPem
    /\ config = DefaultConfig
    /\ wanted = DefaultConfig
    /\ writing = "no"
    /\ pairs = 0
    /\ tampered = FALSE
-----------------------------------------------------------------------------
(* initialize(). *)

\* For the mutant of Loadable: the files exist, but are not parsed.
LoadableIfPresent(c) == file[c.cert] # Absent /\ file[c.key] # Absent

\* try_load: both files exist and parse.
Loadable(c) == file[c.cert] \in Nat /\ file[c.key] \in Nat

Loaded(c) == [cert |-> file[c.cert], key |-> file[c.key]]

\* For the mutant of Initialize: files that are there are not looked at.
InitializeAfresh(c) ==
    /\ config' = c
    /\ pem' = EmptyPem
    /\ writing' = IF c.generate /\ pairs < MaxPairs THEN "cert" ELSE "no"

\* The files are loaded, or generate() begins, or (generation disabled)
\* initialize fails and leaves the manager empty.
Initialize(c) ==
    /\ config' = c
    /\ IF Loadable(c)
         THEN pem' = Loaded(c) /\ writing' = "no"
         ELSE /\ pem' = EmptyPem
              /\ writing' = IF c.generate /\ pairs < MaxPairs THEN "cert" ELSE "no"

\* start(): only if there is no certificate in memory.
CaStart ==
    /\ writing = "no"
    /\ pem.cert = NoPem
    /\ Initialize(config)
    /\ UNCHANGED <<file, wanted, pairs, tampered>>

\* regenerate_ca: a new manager for the proxy's configuration.
CaRegenerate ==
    /\ writing = "no"
    /\ Initialize(wanted)
    /\ UNCHANGED <<file, wanted, pairs, tampered>>
-----------------------------------------------------------------------------
(* generate(): fs::write truncates the file, then fills it. *)

Truncate(p, from, to) ==
    /\ writing = from
    /\ file' = [file EXCEPT ![p] = Torn]
    /\ writing' = to
    /\ UNCHANGED <<pem, config, wanted, pairs, tampered>>

TruncateCert == Truncate(config.cert, "cert", "certfill")

\* The pair gets its number with its first file.
FillCert ==
    /\ writing = "certfill"
    /\ file' = [file EXCEPT ![config.cert] = pairs + 1]
    /\ pairs' = pairs + 1
    /\ writing' = "key"
    /\ UNCHANGED <<pem, config, wanted, tampered>>

TruncateKey == Truncate(config.key, "key", "keyfill")

\* The pair is kept in memory once both files are written.
FillKey ==
    /\ writing = "keyfill"
    /\ file' = [file EXCEPT ![config.key] = pairs]
    /\ pem' = [cert |-> pairs, key |-> pairs]
    /\ writing' = "no"
    /\ UNCHANGED <<config, wanted, pairs, tampered>>

\* A write fails: initialize returns the error, the files stay as they are.
WriteFails ==
    /\ writing # "no"
    /\ writing' = "no"
    /\ UNCHANGED <<file, pem, config, wanted, pairs, tampered>>
-----------------------------------------------------------------------------
\* The process ends and starts again, with the configuration built from the
\* settings, which name no paths (state.rs).
CaRestart ==
    /\ pem' = EmptyPem
    /\ config' = DefaultConfig
    /\ wanted' = DefaultConfig
    /\ writing' = "no"
    /\ UNCHANGED <<file, pairs, tampered>>

\* set_config; the manager keeps its own copy until regenerate_ca.
CaSetConfig(c) ==
    /\ wanted' = c
    /\ tampered' = (tampered \/ c.cert # DefaultCert \/ c.key # DefaultKey)
    /\ UNCHANGED <<file, pem, config, writing, pairs>>

\* External: the user deletes a file.
Delete(p) ==
    /\ file' = [file EXCEPT ![p] = Absent]
    /\ tampered' = TRUE
    /\ UNCHANGED <<pem, config, wanted, writing, pairs>>

Generate == TruncateCert \/ FillCert \/ TruncateKey \/ FillKey \/ WriteFails

CaNext ==
    \/ CaStart \/ CaRegenerate \/ Generate
    \/ CaRestart
    \/ \E c \in Configs : CaSetConfig(c)
    \/ \E p \in Paths : Delete(p)

CaSpec == CaInit /\ [][CaNext]_caVars
-----------------------------------------------------------------------------
\* The types of the variables.
CaTypeOK ==
    /\ file \in [Paths -> Nat \union {Absent, Torn}]
    /\ pem \in [cert : Nat \union {NoPem}, key : Nat \union {NoPem}]
    /\ config \in Configs
    /\ wanted \in Configs
    /\ writing \in {"no", "cert", "certfill", "key", "keyfill"}
    /\ pairs \in 0..MaxPairs
    /\ tampered \in BOOLEAN

\* As long as nobody deletes files or configures other paths, a crash or a
\* failed write at any point leaves no certificate with another pair's key
\* behind: the next initialize loads one whole pair or generates one.
CrashLeavesNoMixedPair ==
    ~tampered => pem.cert = pem.key

\* And the pair that was once written whole stays: neither a restart nor
\* regenerate_ca replaces it, so what is installed in trust stores keeps its
\* meaning (and generate_ca, once there is a pair, generates none).
WholePairStays ==
    [][~tampered' /\ file[DefaultCert] \in Nat /\ file[DefaultKey] \in Nat
         => UNCHANGED <<file[DefaultCert], file[DefaultKey]>>]_caVars
=============================================================================
