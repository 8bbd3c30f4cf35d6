----------------------------- MODULE TlsAssets -----------------------------
(***************************************************************************)
(* deploy/tls/conf_gen.sh: the TLS certificates of the services, and their *)
(* private keys as encrypted credentials.  A run makes everything anew, so *)
(* a key works only with the certificates of its own run.  The script may  *)
(* fail or be interrupted at any command, in the middle of a file as well, *)
(* and be started again, with or without --force; the services (see        *)
(* deploy/services) read the files whenever they start.                    *)
(*                                                                         *)
(*   step    where the script is; "idle" when it does not run, "done"      *)
(*           after a run that succeeded                                    *)
(*   at      the file that comes next, in the order of Files               *)
(*   run     how many runs were started, the number of the last one        *)
(*   force   the last run was given --force                                *)
(*   crt     the run that each installed certificate is from               *)
(*   cred    the run that each credential's key is from                    *)
(*                                                                         *)
(* One run at a time; file systems do not reorder the commands.            *)
(***************************************************************************)
EXTENDS Naturals

CONSTANTS Last,      (* ca, mosquitto_server, catalog_server, client: 1..4 *)
          Absent,    (* in the place of a file that is not there           *)
          Damaged,   (* a file that was not written to its end             *)
          MaxRuns    (* bound: runs of the script                          *)

Files == 1..Last
Runs == 1..MaxRuns
Contents == Runs \cup {Absent, Damaged}

ASSUME TlsAssumption ==
  /\ Last \in Nat \ {0} /\ MaxRuns \in Nat
  /\ Absent \notin Runs /\ Damaged \notin Runs

VARIABLES step, at, run, force, crt, cred

diskVars == <<crt, cred>>
vars == <<step, at, run, force, diskVars>>

Init ==
  /\ step = "idle" /\ at = 1 /\ run = 0 /\ force = FALSE
  /\ crt = [f \in Files |-> Absent]
  /\ cred = [f \in Files |-> Absent]

Start ==
  /\ step \in {"idle", "done"} /\ run < MaxRuns
  /\ step' = "checking" /\ at' = 1 /\ run' = run + 1
  /\ force' \in BOOLEAN
  /\ UNCHANGED diskVars

\* A loop over the files in the step `here`, which `there` follows.
Advance(here, there) ==
  /\ step = here
  /\ IF at = Last THEN step' = there /\ at' = 1 ELSE at' = at + 1 /\ UNCHANGED step
  /\ UNCHANGED <<run, force>>

\* Mutant: a credential is replaced when its successor is written.
KeepsUntilReplaced ==
  /\ Advance("checking", "generating")
  /\ force \/ cred[at] = Absent
  /\ UNCHANGED diskVars

\* Mutant: only the key of the authority is asked about.
AsksAboutFirst ==
  /\ Advance("checking", "generating")
  /\ force \/ at # 1 \/ cred[at] = Absent
  /\ cred' = [cred EXCEPT ![at] = Absent] /\ UNCHANGED crt

\* The loop over the credentials: with --force they are removed.
RemoveCredential ==
  /\ Advance("checking", "generating")
  /\ force \/ cred[at] = Absent
  /\ cred' = [cred EXCEPT ![at] = Absent] /\ UNCHANGED crt

\* Without it the first that exists, whatever is in it, ends the script.
Refuse ==
  /\ step = "checking" /\ ~force /\ cred[at] # Absent
  /\ step' = "idle"
  /\ UNCHANGED <<at, run, force, diskVars>>

\* Keys and certificates, in a working directory of the run's own.
Generate ==
  /\ step = "generating" /\ step' = "verifying"
  /\ UNCHANGED <<at, run, force, diskVars>>

\* verify_tls.sh: every certificate is the authority's and has its key.
Verify ==
  /\ step = "verifying" /\ step' = "installing"
  /\ UNCHANGED <<at, run, force, diskVars>>

InstallCertificate ==
  /\ Advance("installing", "encrypting")
  /\ crt' = [crt EXCEPT ![at] = run] /\ UNCHANGED cred

EncryptKey ==
  /\ Advance("encrypting", "done")
  /\ cred' = [cred EXCEPT ![at] = run] /\ UNCHANGED crt

\* A command fails (set -e), or the script is interrupted: the file at hand
\* may be gone or incomplete.  Nothing is undone.
Stop ==
  /\ step \notin {"idle", "done"} /\ step' = "idle"
  /\ crt' \in IF step = "installing"
                THEN {[crt EXCEPT ![at] = c] : c \in {crt[at], Absent, Damaged, run}} ELSE {crt}
  /\ cred' \in IF step = "encrypting"
                 THEN {[cred EXCEPT ![at] = k] : k \in {cred[at], Damaged, run}} ELSE {cred}
  /\ UNCHANGED <<at, run, force>>

Next ==
  \/ Start \/ RemoveCredential \/ Refuse \/ Generate \/ Verify
  \/ InstallCertificate \/ EncryptKey \/ Stop

Spec == Init /\ [][Next]_vars

-----------------------------------------------------------------------------
TypeOK ==
  /\ step \in {"idle", "checking", "generating", "verifying", "installing",
               "encrypting", "done"}
  /\ at \in Files /\ run \in Nat /\ force \in BOOLEAN
  /\ crt \in [Files -> Contents]
  /\ cred \in [Files -> Contents]

IsKey(content) == content \in Runs

\* Whatever runs failed or were interrupted, and wherever: a key that can be
\* loaded finds all the certificates of its own run, its own and those of its
\* peers, so that a service starts with a set that works or does not start at
\* all.  A run that succeeds leaves the whole set.
KeysMatchCertificates ==
  /\ \A f \in Files : IsKey(cred[f]) => \A g \in Files : crt[g] = cred[f]
  /\ step = "done" => \A f \in Files : cred[f] = run

\* README: "Use `--force` to replace existing encrypted credentials": a run
\* without it takes away no key, and while there is one no certificate, also
\* not on its way to the refusal.
OnlyForceReplaces ==
  [][~force => \A f \in Files : IsKey(cred[f]) => cred'[f] = cred[f] /\ crt' = crt]_vars
=============================================================================
