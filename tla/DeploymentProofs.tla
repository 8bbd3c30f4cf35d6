-------------------------- MODULE DeploymentProofs --------------------------
(***************************************************************************)
(* Proofs about the files that a deployment is made of.                    *)
(*                                                                         *)
(* The keys and certificates that conf_gen.sh leaves behind (TlsAssets),   *)
(* for any number of files and of runs, wherever they fail.  What a run has *)
(* done up to its step (ProgressInv) is what makes the two properties      *)
(* inductive: no certificate is touched before every key is gone, and no   *)
(* key is written before every certificate is there.                       *)
(*                                                                         *)
(* The settings that the programs make of the environment (Config), for    *)
(* every environment and every configuration file.                         *)
(***************************************************************************)
EXTENDS TlsAssets, Config, TLAPS

\* All files of the sequence up to the one at hand, and from it on.
Before == {f \in Files : f < at}
From == Files \ Before

ProgressInv ==
  /\ step = "checking" => \A f \in Before : cred[f] = Absent
  /\ step \in {"generating", "verifying", "installing"} =>
       \A f \in Files : cred[f] = Absent
  /\ step \in {"generating", "verifying"} => at = 1
  /\ step = "installing" => \A f \in Before : crt[f] = run
  /\ step = "encrypting" =>
       /\ \A f \in Files : crt[f] = run
       /\ \A f \in Before : cred[f] = run
       /\ \A f \in From : cred[f] = Absent
  /\ step = "done" => \A f \in Files : crt[f] = run /\ cred[f] = run

KeyInv == \A f \in Files : IsKey(cred[f]) => \A g \in Files : crt[g] = cred[f]

RunInv ==
  /\ run \in 0..MaxRuns
  /\ step \notin {"idle", "done"} => run \in Runs

IInv == TypeOK /\ RunInv /\ ProgressInv /\ KeyInv

-----------------------------------------------------------------------------
\* The next file: the first is before no other, and after the last one all
\* files are done.
LEMMA NextFile ==
  ASSUME TypeOK
  PROVE  /\ at = 1 => Before = {}
         /\ at # Last => at + 1 \in Files /\ {f \in Files : f < at + 1} = Before \cup {at}
         /\ at = Last => Files = Before \cup {at}
         /\ 1 \in Files
  BY TlsAssumption DEF TypeOK, Files, Before

\* The initial files, none of which exists.
LEMMA InitInv == Init => IInv
<1> SUFFICES ASSUME Init PROVE IInv
  OBVIOUS
<1> USE TlsAssumption DEF Init
<1>1. TypeOK
  <2>1. 1 \in Files
    BY DEF Files
  <2> QED
    BY <2>1 DEF TypeOK, Contents
<1>2. RunInv
  BY DEF RunInv
<1>3. ProgressInv
  BY DEF ProgressInv
<1>4. KeyInv
  BY DEF KeyInv, IsKey
<1> QED
  BY <1>1, <1>2, <1>3, <1>4 DEF IInv

LEMMA TypeNext == TypeOK /\ RunInv /\ [Next]_vars => TypeOK' /\ RunInv'
<1> SUFFICES ASSUME TypeOK, RunInv, [Next]_vars PROVE TypeOK' /\ RunInv'
  OBVIOUS
<1> USE NextFile, TlsAssumption DEF TypeOK, RunInv, Runs, Contents
<1>1. CASE Start
  BY <1>1 DEF Start, diskVars
<1>2. CASE RemoveCredential
  BY <1>2 DEF RemoveCredential, Advance
<1>3. CASE Refuse
  BY <1>3 DEF Refuse, diskVars
<1>4. CASE Generate \/ Verify
  BY <1>4 DEF Generate, Verify, diskVars
<1>5. CASE InstallCertificate
  BY <1>5 DEF InstallCertificate, Advance
<1>6. CASE EncryptKey
  BY <1>6 DEF EncryptKey, Advance
<1>7. CASE Stop
  BY <1>7 DEF Stop
<1>8. CASE UNCHANGED vars
  BY <1>8 DEF vars, diskVars
<1> QED
  BY <1>1, <1>2, <1>3, <1>4, <1>5, <1>6, <1>7, <1>8 DEF Next

LEMMA InvNext == IInv /\ [Next]_vars => IInv'
<1> SUFFICES ASSUME IInv, [Next]_vars PROVE ProgressInv' /\ KeyInv'
  BY TypeNext DEF IInv
<1> USE NextFile, TlsAssumption DEF IInv, ProgressInv, KeyInv
<1>0. TypeOK /\ RunInv
  OBVIOUS
<1>1. CASE Start
  BY <1>0, <1>1 DEF Start, diskVars, TypeOK, Files, Before, IsKey
<1>2. CASE RemoveCredential
  <2> USE <1>2 DEF RemoveCredential, Advance
  <2>1. /\ cred' = [cred EXCEPT ![at] = Absent] /\ crt' = crt /\ run' = run
        /\ \A f \in Before \cup {at} : cred'[f] = Absent
    BY <1>0 DEF TypeOK, Before
  <2>2. KeyInv'
    BY <1>0, <2>1 DEF TypeOK, IsKey
  <2>3. ProgressInv'
    BY <1>0, <2>1 DEF TypeOK, Before
  <2> QED
    BY <2>2, <2>3
<1>3. CASE Refuse
  BY <1>3 DEF Refuse, diskVars
<1>4. CASE Generate \/ Verify
  BY <1>4 DEF Generate, Verify, diskVars, Before, IsKey
<1>5. CASE InstallCertificate
  <2> USE <1>5 DEF InstallCertificate, Advance
  <2>1. /\ cred' = cred /\ run' = run
        /\ \A f \in Before \cup {at} : crt'[f] = run
    BY <1>0 DEF TypeOK, Before
  <2>2. KeyInv'
    BY <1>0, <2>1 DEF TypeOK, IsKey
  <2>3. ProgressInv'
    BY <1>0, <2>1 DEF TypeOK, Before, From, Files
  <2> QED
    BY <2>2, <2>3
<1>6. CASE EncryptKey
  <2> USE <1>6 DEF EncryptKey, Advance
  <2>1. /\ crt' = crt /\ run' = run
        /\ \A f \in Before \cup {at} : cred'[f] = run
        /\ \A f \in Files \ (Before \cup {at}) : cred'[f] = Absent
    BY <1>0 DEF TypeOK, Before, From
  <2>2. KeyInv'
    BY <1>0, <2>1 DEF TypeOK, IsKey
  <2>3. ProgressInv'
    BY <1>0, <2>1 DEF TypeOK, Before, From
  <2> QED
    BY <2>2, <2>3
<1>7. CASE Stop
  <2> USE <1>7 DEF Stop
  <2>1. ProgressInv'
    OBVIOUS
  <2>2. CASE step = "encrypting"
    <3>1. crt' = crt /\ \A f \in Files : cred'[f] \in {Absent, Damaged, run}
      BY <1>0, <2>2 DEF TypeOK, Before, From
    <3> QED
      BY <2>1, <2>2, <3>1 DEF IsKey
  <2>3. CASE step # "encrypting"
    <3>1. cred' = cred
      BY <2>3
    <3>2. CASE step = "installing"
      BY <2>1, <3>1, <3>2 DEF IsKey
    <3>3. CASE step # "installing"
      BY <2>1, <3>1, <3>3, <2>3 DEF IsKey
    <3> QED
      BY <3>2, <3>3
  <2> QED
    BY <2>2, <2>3
<1>8. CASE UNCHANGED vars
  BY <1>8 DEF vars, diskVars, IsKey, Before, From
<1> QED
  BY <1>1, <1>2, <1>3, <1>4, <1>5, <1>6, <1>7, <1>8 DEF Next

LEMMA Inductive == Spec => []IInv
  BY InitInv, InvNext, PTL DEF Spec

-----------------------------------------------------------------------------
\* The script's variables have their types, and every file is one of a run's,
\* damaged or absent.
THEOREM TypeCorrect == Spec => []TypeOK
<1>1. IInv => TypeOK
  BY DEF IInv
<1> QED
  BY <1>1, Inductive, PTL

\* Whatever conf_gen.sh is interrupted at: a key that can be loaded finds the
\* certificates of its own run, and a success leaves all of them.
THEOREM KeysMatch == Spec => []KeysMatchCertificates
<1>1. IInv => KeysMatchCertificates
  BY DEF IInv, KeyInv, ProgressInv, KeysMatchCertificates
<1> QED
  BY <1>1, Inductive, PTL

\* No step of a run without --force takes a key, nor a certificate while
\* there is a key.
THEOREM ForceIsNeeded == Spec => OnlyForceReplaces
<1>1. IInv /\ [Next]_vars =>
        [~force => \A f \in Files : IsKey(cred[f]) => cred'[f] = cred[f] /\ crt' = crt]_vars
  <2> SUFFICES ASSUME IInv, Next, ~force, NEW f \in Files, IsKey(cred[f])
               PROVE  cred'[f] = cred[f] /\ crt' = crt
    OBVIOUS
  <2> USE NextFile, TlsAssumption DEF IInv, ProgressInv
  <2>1. cred[f] # Absent
    BY DEF IsKey
  <2>2. CASE RemoveCredential
    BY <2>1, <2>2 DEF RemoveCredential, Advance, TypeOK
  <2>3. CASE InstallCertificate
    BY <2>1, <2>3 DEF InstallCertificate, Advance
  <2>4. CASE EncryptKey
    BY <2>1, <2>4 DEF EncryptKey, Advance, TypeOK, From, Before
  <2>5. CASE Stop
    <3>1. CASE step = "encrypting"
      BY <2>1, <2>5, <3>1 DEF Stop, TypeOK, From, Before, IsKey, Files
    <3>2. CASE step = "installing"
      BY <2>1, <3>2
    <3>3. CASE step \notin {"encrypting", "installing"}
      BY <2>5, <3>3 DEF Stop
    <3> QED
      BY <3>1, <3>2, <3>3
  <2>6. CASE Start \/ Refuse \/ Generate \/ Verify
    BY <2>6 DEF Start, Refuse, Generate, Verify, diskVars
  <2> QED
    BY <2>2, <2>3, <2>4, <2>5, <2>6 DEF Next
<1> QED
  BY <1>1, Inductive, PTL DEF Spec, OnlyForceReplaces

-----------------------------------------------------------------------------
(* The configuration.  What the lines read so far have made of the          *)
(* environment (LinesInv) is LastLineWins with the file cut off at the      *)
(* next line.                                                               *)

\* The lines before n that set k.
SettingBefore(k, n) == {i \in 1..(n - 1) : file[i].kind = "pair" /\ file[i].key = k}

LinesInv ==
  /\ file \in Seq(Lines) /\ next \in 1..(Len(file) + 1)
  /\ \A i \in 1..(next - 1) : ~Bad(file[i])
  /\ \A k \in DOMAIN env :
       LET lines == SettingBefore(k, next)
       IN IF lines = {} THEN env[k] = base[k]
          ELSE \E i \in lines : (\A j \in lines : j <= i) /\ env[k] = file[i].value

RunningInv == phase = "running" => next = Len(file) + 1 /\ MobctlAccepts(env)

ConfigInv == LinesInv /\ RunningInv

LEMMA SettingsInit == ConfigInit => ConfigInv
<1> SUFFICES ASSUME ConfigInit PROVE ConfigInv
  OBVIOUS
<1>1. file \in Seq(Lines) /\ next = 1 /\ env = base /\ phase = "loading"
  BY ConfigAssumption DEF ConfigAssumption, ConfigInit
<1>2. next \in 1..(Len(file) + 1) /\ 1..(next - 1) = {}
  <2>1. Len(file) \in Nat
    BY <1>1
  <2> QED
    BY <1>1, <2>1
<1>3. \A k : SettingBefore(k, next) = {}
  BY <1>2 DEF SettingBefore
<1> QED
  BY <1>1, <1>2, <1>3 DEF ConfigInv, LinesInv, RunningInv

\* The lines before the next one.
LEMMA NextLine ==
  ASSUME LinesInv, next <= Len(file), next' = next + 1, file' = file
  PROVE  1..(next' - 1) = 1..(next - 1) \cup {next} /\ next' \in 1..(Len(file') + 1)
<1>1. next \in Nat \ {0} /\ Len(file) \in Nat
  BY DEF LinesInv
<1>2. next' - 1 = next
  BY <1>1
<1>3. 1..next = 1..(next - 1) \cup {next}
  BY <1>1
<1> QED
  BY <1>1, <1>2, <1>3

LEMMA NothingRead ==
  ASSUME LinesInv, UNCHANGED <<base, file, next, env>>
  PROVE  LinesInv'
<1>1. base' = base /\ file' = file /\ next' = next /\ env' = env
  OBVIOUS
<1>2. \A k : SettingBefore(k, next)' = SettingBefore(k, next)
  BY <1>1 DEF SettingBefore
<1>3. \A i \in 1..(next - 1) : ~Bad(file[i])'
  BY <1>1 DEF LinesInv, Bad
<1> QED
  BY <1>1, <1>2, <1>3 DEF LinesInv, Bad

LEMMA SettingsNext == ConfigInv /\ [ConfigNext]_configVars => ConfigInv'
<1> SUFFICES ASSUME ConfigInv, [ConfigNext]_configVars PROVE ConfigInv'
  OBVIOUS
<1>0. file \in Seq(Lines) /\ next \in 1..(Len(file) + 1) /\ Len(file) \in Nat
  BY DEF ConfigInv, LinesInv
<1>1. CASE SkipComment
  <2>1. /\ phase = "loading" /\ next <= Len(file) /\ file[next].kind = "comment"
        /\ next' = next + 1 /\ UNCHANGED <<base, file, env, phase>>
    BY <1>1 DEF SkipComment, More
  <2>2. 1..(next' - 1) = 1..(next - 1) \cup {next} /\ next' \in 1..(Len(file') + 1)
    BY <2>1, NextLine DEF ConfigInv
  <2>3. \A k : SettingBefore(k, next)' = SettingBefore(k, next)
    BY <2>1, <2>2 DEF SettingBefore
  <2>4. ~Bad(file[next])
    BY <2>1 DEF Bad
  <2>5. LinesInv'
    BY <2>1, <2>2, <2>3, <2>4 DEF ConfigInv, LinesInv, Bad
  <2> QED
    BY <2>1, <2>5 DEF ConfigInv, RunningInv
<1>2. CASE Setenv
  <2> DEFINE key == file[next].key
  <2>1. /\ phase = "loading" /\ next <= Len(file) /\ file[next].kind = "pair" /\ key # ""
        /\ env' = [env EXCEPT ![key] = file[next].value]
        /\ next' = next + 1 /\ UNCHANGED <<base, file, phase>>
    BY <1>2 DEF Setenv, More
  <2>2. 1..(next' - 1) = 1..(next - 1) \cup {next} /\ next' \in 1..(Len(file') + 1)
    BY <2>1, NextLine DEF ConfigInv
  <2>3. ~Bad(file[next])
    BY <2>1 DEF Bad
  <2>4. ASSUME NEW k \in DOMAIN env'
        PROVE  LET lines == SettingBefore(k, next)'
               IN IF lines = {} THEN env'[k] = base'[k]
                  ELSE \E i \in lines : (\A j \in lines : j <= i) /\ env'[k] = file'[i].value
    <3>1. k \in DOMAIN env
      BY <2>1
    <3>2. CASE k = key
      <4>1. SettingBefore(k, next)' = SettingBefore(k, next) \cup {next}
        BY <2>1, <2>2, <3>2 DEF SettingBefore
      <4>2. \A j \in SettingBefore(k, next) : j <= next
        BY <1>0 DEF SettingBefore
      <4>3. env'[k] = file'[next].value
        BY <2>1, <3>1, <3>2
      <4> QED
        BY <1>0, <4>1, <4>2, <4>3
    <3>3. CASE k # key
      <4>1. SettingBefore(k, next)' = SettingBefore(k, next)
        BY <2>1, <2>2, <3>3 DEF SettingBefore
      <4>2. env'[k] = env[k]
        BY <2>1, <3>1, <3>3
      <4> QED
        BY <2>1, <3>1, <4>1, <4>2 DEF ConfigInv, LinesInv
    <3> QED
      BY <3>2, <3>3
  <2>5. LinesInv'
    BY <2>1, <2>2, <2>3, <2>4 DEF ConfigInv, LinesInv, Bad
  <2> QED
    BY <2>1, <2>5 DEF ConfigInv, RunningInv
<1>3. CASE RefuseLine
  <2>1. phase' = "failed" /\ UNCHANGED <<base, file, next, env>>
    BY <1>3 DEF RefuseLine
  <2> QED
    BY <2>1, NothingRead DEF ConfigInv, RunningInv
<1>4. CASE Load
  <2>1. /\ next > Len(file) /\ UNCHANGED <<base, file, next, env>>
        /\ phase' = IF MobctlAccepts(env) THEN "running" ELSE "failed"
    BY <1>4 DEF Load
  <2>2. LinesInv'
    BY <2>1, NothingRead DEF ConfigInv
  <2>3. phase' = "running" => MobctlAccepts(env)
    BY <2>1
  <2>4. MobctlAccepts(env) => MobctlAccepts(env)'
    BY <2>1 DEF MobctlAccepts, Present, Parses
  <2>5. next' = Len(file') + 1
    BY <1>0, <2>1
  <2> QED
    BY <2>2, <2>3, <2>4, <2>5 DEF ConfigInv, RunningInv
<1>5. CASE UNCHANGED configVars
  <2>1. UNCHANGED <<base, file, next, env>> /\ phase' = phase
    BY <1>5 DEF configVars
  <2>2. MobctlAccepts(env) => MobctlAccepts(env)'
    BY <2>1 DEF MobctlAccepts, Present, Parses
  <2> QED
    BY <2>1, <2>2, NothingRead DEF ConfigInv, RunningInv
<1> QED
  BY <1>1, <1>2, <1>3, <1>4, <1>5 DEF ConfigNext

LEMMA ConfigInductive == ConfigSpec => []ConfigInv
<1>1. ConfigInit => ConfigInv
  BY SettingsInit
<1> QED
  BY <1>1, SettingsNext, PTL DEF ConfigSpec

\* Whatever is in the file, and whatever mobctl is started with: it runs only
\* with a file without a bad line, whose last word on a variable is its value.
THEOREM FileWins == ConfigSpec => []LastLineWins
<1>1. ConfigInv => LastLineWins
  <2> SUFFICES ASSUME ConfigInv, phase = "running"
               PROVE  /\ \A i \in DOMAIN file : ~Bad(file[i])
                      /\ \A k \in DOMAIN env :
                           IF Setting(k) = {} THEN env[k] = base[k]
                           ELSE \E i \in Setting(k) :
                                  (\A j \in Setting(k) : j <= i) /\ env[k] = file[i].value
    BY DEF LastLineWins
  <2>1. DOMAIN file = 1..(next - 1)
    BY DEF ConfigInv, LinesInv, RunningInv
  <2>2. \A k : Setting(k) = SettingBefore(k, next)
    BY <2>1 DEF Setting, SettingBefore
  <2> QED
    BY <2>1, <2>2 DEF ConfigInv, LinesInv
<1> QED
  BY <1>1, ConfigInductive, PTL

\* For every environment that mobctl accepts: the service and qrproxy, given the
\* same one, listen and connect where mobctl looks for them, with the exceptions
\* that ProgramsAgree names.
THEOREM SettingsAgree == ConfigSpec => []ProgramsAgree
<1>1. ConfigInv => ProgramsAgree
  <2> SUFFICES ASSUME phase = "running", MobctlAccepts(env), env["MQTT_HOST"] # "::1"
               PROVE  ProgramsAgree
    BY DEF ConfigInv, RunningInv, ProgramsAgree
  <2> DEFINE own == \E k \in {"MOBCTL_SERVER_URL", "MOBCTL_MQTT_BROKER_URL"} : Present(env, k)
  <2>1. ASSUME ServiceAccepts(env)
        PROVE  /\ Mobctl(env).timeout = Service(env).timeout
               /\ env["CATALOG_IMPORT_ENDPOINT"] # "//catalog" =>
                    Mobctl(env).endpoint = Service(env).endpoint
    BY <2>1 DEF Mobctl, ServiceAccepts, Service, Optional, Trimmed
  <2>2. ASSUME ServiceAccepts(env), ~own
        PROVE  Mobctl(env).http = Service(env).http
    BY <2>2 DEF Mobctl, MobctlAccepts, Service, Optional, Present,
                JoinHostPort, Concatenated
  <2>3. ASSUME ServiceAccepts(env), ~own
        PROVE  Mobctl(env).broker = Service(env).broker
    BY <2>3 DEF Mobctl, ServiceAccepts, Service, Optional, Present,
                JoinHostPort, Concatenated
  <2>4. ASSUME ProxyAccepts(env), ~own
        PROVE  Mobctl(env).broker = Proxy(env).broker
    <3>1. env["MQTT_PORT"] # "" /\ env["MQTT_HOST"] # "" /\ env["MQTT_PROTOCOL"] # ""
      <4>1. Number(env, "MQTT_PORT", 0) > 0
        BY <2>4 DEF ProxyAccepts
      <4>2. env["MQTT_PORT"] # ""
        <5>1. env["MQTT_PORT"] = "" => Number(env, "MQTT_PORT", 0) = 0
          BY DEF Number
        <5>2. \A n : n > 0 => n # 0
          OBVIOUS
        <5> QED
          BY <4>1, <5>1, <5>2, Zenon
      <4> QED
        BY <2>4, <4>2 DEF ProxyAccepts, Present
    <3> QED
      BY <2>4, <3>1 DEF Mobctl, Proxy, Optional, Present, Concatenated
  <2> QED
    BY <2>1, <2>2, <2>3, <2>4 DEF ProgramsAgree
<1> QED
  BY <1>1, ConfigInductive, PTL
=============================================================================
