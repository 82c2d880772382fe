---------------------------- MODULE ServerProofs ----------------------------
(***************************************************************************)
(* Proofs about Loading and PublicAddr, and about the parts that MCServer has  *)
(* side by side: for any files, flags, environments and edits, what the       *)
(* install page wrote is what is in service once it is done; for any echo      *)
(* services and interfaces and any listener without a name, the address that   *)
(* `init` chooses is one that the server answers on.                         *)
(***************************************************************************)
EXTENDS MCServer, ServiceProofs, SequenceTheorems

\* The page writes the file that the start has looked for.
TargetIsOpened == process # "down" => target = Opened(flag, shell)

\* While nobody edits, the environment is what the start made of it.
EnvironIsStarted == process # "down" /\ ~edited => environ = readEnvFile(shell)

\* While nobody edits, what the page wrote stays in its file.
WrittenStays ==
    /\ process = "installing" => written # Absent
    /\ process # "down" /\ ~edited /\ written # Absent => files[target] = written

LoadingInv ==
    /\ LoadingTypeOK
    /\ TargetIsOpened
    /\ EnvironIsStarted
    /\ WrittenStays
    /\ InstalledIsServed

-----------------------------------------------------------------------------
(* What is found and what is loaded has its type.                            *)
LEMMA LoadTypes ==
    ASSUME LoadingTypeOK, NEW f \in Paths \cup {Absent}, NEW env \in Environment
    PROVE  /\ readEnvFile(env) \in Environment
           /\ Opened(f, env) \in Paths /\ configPath(f, env) \in Paths
           /\ configPath(f, env) = Opened(f, env)
           /\ ~LoadFails(f, env) =>
                 \A before \in Texts \cup {Absent} : Read(f, env, before) \in Texts \cup {Absent}
<1>1. readEnvFile(env) \in Environment
  BY DEF LoadingTypeOK, readEnvFile, Environment
<1>2. env.config \in Paths \cup {Absent}
  BY DEF Environment
<1>3. Opened(f, env) \in Paths
  BY <1>2, LoadingAssumption DEF Opened, FileName
<1>4. configPath(f, env) = Opened(f, env)
  BY <1>3, LoadingAssumption DEF configPath, ConfigFileUsed, Opened
<1>5. ~LoadFails(f, env) =>
         \A before \in Texts \cup {Absent} : Read(f, env, before) \in Texts \cup {Absent}
  BY <1>3 DEF LoadFails, Read, LoadingTypeOK
<1> QED
  BY <1>1, <1>3, <1>4, <1>5

LEMMA LoadingTypeStep ==
    ASSUME LoadingTypeOK, [LoadingNext]_loadingVars
    PROVE  LoadingTypeOK'
<1> USE LoadingAssumption
<1>1. ASSUME NEW f \in Flags, NEW env \in Shells, Start(f, env)
      PROVE  LoadingTypeOK'
  <2>1. /\ f \in Paths \cup {Absent} /\ env \in Environment
        /\ readEnvFile(env) \in Environment /\ configPath(f, env) \in Paths
        /\ Read(f, env, Absent) \in Texts \cup {Absent}
    BY <1>1, LoadTypes DEF Start
  <2>2. Started(f, env) \in [text : Texts \cup {Absent}, setting : Settings \cup {Absent},
                             installed : BOOLEAN]
    BY <2>1 DEF Started, Environment, Installed
  <2> QED
    BY <1>1, <2>1, <2>2 DEF LoadingTypeOK, Start
<1>2. ASSUME NEW f \in Flags, NEW env \in Shells, NEW text \in Texts, InitCommand(f, env, text)
      PROVE  LoadingTypeOK'
  BY <1>2 DEF LoadingTypeOK, InitCommand, processVars, operatorVars
<1>3. ASSUME NEW text \in Texts, InstallPage(text)
      PROVE  LoadingTypeOK'
  BY <1>3 DEF LoadingTypeOK, InstallPage, operatorVars
<1>4. CASE ReloadConfig
  <2>1. readEnvFile(environ) \in Environment
    BY LoadTypes DEF LoadingTypeOK
  <2>2. CASE LoadFails(flag, environ)
    BY <1>4, <2>1, <2>2 DEF LoadingTypeOK, ReloadConfig, operatorVars
  <2>3. CASE ~LoadFails(flag, environ)
    <3>1. Read(flag, environ, held) \in Texts \cup {Absent}
      BY <2>3, LoadTypes DEF LoadingTypeOK
    <3>2. /\ environ' = readEnvFile(environ) /\ held' = Read(flag, environ, held)
          /\ serves' = [text |-> held', setting |-> environ'.setting, installed |-> TRUE]
          /\ process' = "up"
          /\ UNCHANGED <<files, dotEnv, flag, shell, target, written, edits, edited>>
      BY <1>4, <2>3 DEF ReloadConfig, operatorVars
    <3>3. environ'.setting \in Settings \cup {Absent}
      BY <2>1, <3>2 DEF Environment
    <3> QED
      BY <2>1, <3>1, <3>2, <3>3 DEF LoadingTypeOK
  <2> QED
    BY <2>2, <2>3
<1>5. CASE Stop
  BY <1>5 DEF LoadingTypeOK, Stop, NoService, operatorVars
<1>6. ASSUME NEW p \in Paths, NEW content \in Texts \cup {Absent, Unreadable},
             EditFile(p, content)
      PROVE  LoadingTypeOK'
  BY <1>6 DEF LoadingTypeOK, EditFile, Edits, processVars
<1>7. ASSUME NEW lines \in DotEnvs, EditDotEnv(lines)
      PROVE  LoadingTypeOK'
  BY <1>7 DEF LoadingTypeOK, EditDotEnv, Edits, processVars
<1>8. CASE UNCHANGED loadingVars
  BY <1>8 DEF LoadingTypeOK, loadingVars, processVars, operatorVars
<1> QED
  BY <1>1, <1>2, <1>3, <1>4, <1>5, <1>6, <1>7, <1>8 DEF LoadingNext

-----------------------------------------------------------------------------
\* Reading .env once more changes nothing.
LEMMA ReadTwice ==
    ASSUME LoadingTypeOK, NEW env \in Environment
    PROVE  readEnvFile(readEnvFile(env)) = readEnvFile(env)
  BY DEF readEnvFile

(* Unless .env names another file, the environment that the start has left    *)
(* names the file that the start has opened.                                 *)
LEMMA SameFile ==
    ASSUME LoadingTypeOK, ~DotEnvNamesAnother
    PROVE  /\ FileName(flag, readEnvFile(shell)) = FileName(flag, shell)
           /\ Opened(flag, readEnvFile(shell)) = Opened(flag, shell)
<1>1. flag = Absent => readEnvFile(shell).config = shell.config
  BY DEF DotEnvNamesAnother, readEnvFile
<1> QED
  BY <1>1 DEF FileName, Opened

(* A start would put in service what is in the file the server's start opened. *)
LEMMA StartFinds ==
    ASSUME LoadingTypeOK, TargetIsOpened, process # "down", files[target] \in Texts
    PROVE  Started(flag, shell) = [text |-> files[target],
                                   setting |-> readEnvFile(shell).setting,
                                   installed |-> TRUE]
<1>1. files[target] # Absent /\ target = Opened(flag, shell)
  BY LoadingAssumption DEF TargetIsOpened
<1>2. Read(flag, shell, Absent) = files[target]
  BY <1>1 DEF Read
<1>3. Opened(flag, shell) \in Paths
  BY <1>1 DEF LoadingTypeOK
<1>4. Installed(flag, shell)
  BY <1>1, <1>3, LoadingAssumption DEF Installed, ConfigFileUsed, Opened
<1> QED
  BY <1>2, <1>4 DEF Started

LEMMA LoadingInvStep ==
    ASSUME LoadingInv, [LoadingNext]_loadingVars
    PROVE  LoadingInv'
<1> USE LoadingAssumption DEF LoadingInv
<1>0. LoadingTypeOK'
  BY LoadingTypeStep
<1>1. ASSUME NEW f \in Flags, NEW env \in Shells, Start(f, env)
      PROVE  LoadingInv'
  <2>1. f \in Paths \cup {Absent} /\ env \in Environment
    OBVIOUS
  <2>2. configPath(f, env) = Opened(f, env)
    BY <2>1, LoadTypes
  <2>3. TargetIsOpened'
    BY <1>1, <2>2 DEF TargetIsOpened, Start, Opened, FileName
  <2>4. EnvironIsStarted' /\ WrittenStays' /\ InstalledIsServed'
    BY <1>1 DEF EnvironIsStarted, WrittenStays, InstalledIsServed, Start, readEnvFile
  <2> QED
    BY <1>0, <2>3, <2>4
<1>2. ASSUME NEW f \in Flags, NEW env \in Shells, NEW text \in Texts, InitCommand(f, env, text)
      PROVE  LoadingInv'
  <2>1. /\ files' = [files EXCEPT ![configPath(f, env)] = text]
        /\ files[configPath(f, env)] = Absent
        /\ UNCHANGED <<dotEnv, process, flag, shell, environ, held, target, serves, written,
                       edits, edited>>
    BY <1>2 DEF InitCommand, processVars, operatorVars
  <2>2. TargetIsOpened' /\ EnvironIsStarted'
    BY <2>1 DEF TargetIsOpened, EnvironIsStarted, Opened, FileName, readEnvFile
  <2>3. files[target] # Absent => files'[target] = files[target]
    BY <2>1 DEF LoadingTypeOK
  <2>4. WrittenStays'
    BY <2>1, <2>3 DEF WrittenStays
  <2>5. InstalledIsServed'
    <3> SUFFICES ASSUME process = "up", written # Absent, ~edited, ~DotEnvNamesAnother
                 PROVE  serves.text = written /\ serves = Started(flag, shell)'
      BY <2>1 DEF InstalledIsServed, DotEnvNamesAnother
    <3>1. files[target] = written /\ written \in Texts
      BY DEF WrittenStays, LoadingTypeOK
    <3>2. serves.text = written /\ serves = Started(flag, shell)
      BY DEF InstalledIsServed
    <3>3. Started(flag, shell) = [text |-> files[target],
                                  setting |-> readEnvFile(shell).setting, installed |-> TRUE]
      BY <3>1, StartFinds
    <3>4. (process # "down")' /\ (files[target] \in Texts)'
      BY <2>1, <2>3, <3>1
    <3>5. (Started(flag, shell) = [text |-> files[target],
                                   setting |-> readEnvFile(shell).setting,
                                   installed |-> TRUE])'
      BY <1>0, <2>2, <3>4, StartFinds, PTL
    <3> QED
      BY <2>1, <2>3, <3>1, <3>2, <3>3, <3>5 DEF readEnvFile
  <2> QED
    BY <1>0, <2>2, <2>4, <2>5
<1>3. ASSUME NEW text \in Texts, InstallPage(text)
      PROVE  LoadingInv'
  <2>1. /\ files' = [files EXCEPT ![target] = text] /\ written' = text
        /\ process = "up" /\ process' = "installing" /\ target \in Paths
        /\ UNCHANGED <<dotEnv, flag, shell, environ, held, target, serves, edits, edited>>
    BY <1>3 DEF InstallPage, operatorVars, LoadingTypeOK
  <2>2. TargetIsOpened' /\ EnvironIsStarted'
    BY <2>1 DEF TargetIsOpened, EnvironIsStarted, Opened, FileName, readEnvFile
  <2>3. WrittenStays' /\ InstalledIsServed'
    BY <2>1 DEF WrittenStays, InstalledIsServed, LoadingTypeOK
  <2> QED
    BY <1>0, <2>2, <2>3
<1>4. CASE ReloadConfig
  <2>1. /\ process = "installing" /\ process' = "up" /\ environ' = readEnvFile(environ)
        /\ UNCHANGED <<files, dotEnv, flag, shell, target, written, edits, edited>>
    BY <1>4 DEF ReloadConfig, operatorVars
  <2>2. TargetIsOpened'
    BY <2>1 DEF TargetIsOpened, Opened, FileName
  <2>3. EnvironIsStarted'
    <3>1. ~edited => readEnvFile(environ) = readEnvFile(shell)
      BY <2>1, ReadTwice DEF EnvironIsStarted, LoadingTypeOK
    <3> QED
      BY <2>1, <3>1 DEF EnvironIsStarted, readEnvFile
  <2>4. WrittenStays'
    BY <2>1 DEF WrittenStays
  <2>5. InstalledIsServed'
    <3> SUFFICES ASSUME ~edited, ~DotEnvNamesAnother
                 PROVE  serves'.text = written /\ serves' = Started(flag, shell)'
      BY <2>1 DEF InstalledIsServed, DotEnvNamesAnother
    <3>1. files[target] = written /\ written \in Texts /\ environ = readEnvFile(shell)
      BY <2>1 DEF WrittenStays, EnvironIsStarted, LoadingTypeOK
    <3>2. Opened(flag, environ) = target
      BY <2>1, <3>1, SameFile DEF TargetIsOpened
    <3>3. ~LoadFails(flag, environ) /\ Read(flag, environ, held) = written
      BY <3>1, <3>2 DEF LoadFails, Read
    <3>4. serves' = [text |-> written, setting |-> readEnvFile(environ).setting,
                     installed |-> TRUE]
      BY <1>4, <3>3 DEF ReloadConfig
    <3>5. readEnvFile(environ) = readEnvFile(shell)
      BY <3>1, ReadTwice DEF LoadingTypeOK
    <3>6. (process # "down")' /\ (files[target] \in Texts)'
      BY <2>1, <3>1
    <3>7. (Started(flag, shell) = [text |-> files[target],
                                   setting |-> readEnvFile(shell).setting,
                                   installed |-> TRUE])'
      BY <1>0, <2>2, <3>6, StartFinds, PTL
    <3> QED
      BY <2>1, <3>1, <3>4, <3>5, <3>7 DEF readEnvFile
  <2> QED
    BY <1>0, <2>2, <2>3, <2>4, <2>5
<1>5. CASE Stop
  BY <1>0, <1>5 DEF Stop, TargetIsOpened, EnvironIsStarted, WrittenStays, InstalledIsServed
<1>6. ASSUME NEW p \in Paths, NEW content \in Texts \cup {Absent, Unreadable},
             EditFile(p, content)
      PROVE  LoadingInv'
  BY <1>0, <1>6 DEF EditFile, Edits, processVars, TargetIsOpened, EnvironIsStarted,
                    WrittenStays, InstalledIsServed, Opened, FileName
<1>7. ASSUME NEW lines \in DotEnvs, EditDotEnv(lines)
      PROVE  LoadingInv'
  BY <1>0, <1>7 DEF EditDotEnv, Edits, processVars, TargetIsOpened, EnvironIsStarted,
                    WrittenStays, InstalledIsServed, Opened, FileName
<1>8. CASE UNCHANGED loadingVars
  <2>1. UNCHANGED <<files, dotEnv, process, flag, shell, environ, held, target, serves,
                    written, edits, edited>>
    BY <1>8 DEF loadingVars, processVars, operatorVars
  <2>2. TargetIsOpened' /\ EnvironIsStarted' /\ WrittenStays'
    BY <2>1 DEF TargetIsOpened, EnvironIsStarted, WrittenStays, Opened, FileName, readEnvFile
  <2>3. InstalledIsServed'
    BY <2>1 DEF InstalledIsServed, DotEnvNamesAnother, Started, Read, Installed,
                ConfigFileUsed, Opened, FileName, readEnvFile
  <2> QED
    BY <1>0, <2>2, <2>3
<1> QED
  BY <1>1, <1>2, <1>3, <1>4, <1>5, <1>6, <1>7, <1>8 DEF LoadingNext

-----------------------------------------------------------------------------
(* Whatever is installed, reloaded, stopped and edited, the page's target is   *)
(* the file that the start opened, and holds what the page wrote.             *)
THEOREM LoadingInvariant == LoadingSpec => []LoadingInv
<1>1. LoadingInit => LoadingInv
  <2> SUFFICES ASSUME LoadingInit
               PROVE  LoadingInv
    OBVIOUS
  <2>1. dotEnv \in Environment /\ shell \in Environment /\ environ \in Environment
    BY DEF LoadingInit, Environment
  <2>2. files \in [Paths -> Texts \cup {Absent, Unreadable}]
    BY DEF LoadingInit
  <2>3. serves \in [text : Texts \cup {Absent}, setting : Settings \cup {Absent},
                    installed : BOOLEAN]
    BY DEF LoadingInit, NoService
  <2>4. LoadingTypeOK
    <3>1. /\ process \in {"down", "up", "installing"}
          /\ flag \in Paths \cup {Absent}
          /\ held \in Texts \cup {Absent}
          /\ written \in Texts \cup {Absent}
          /\ target \in Paths
      BY LoadingAssumption DEF LoadingInit
    <3>2. edits \in 0..MaxEdits
      <4>1. edits = 0
        BY DEF LoadingInit
      <4> QED
        BY <4>1, LoadingAssumption
    <3>3. edited \in BOOLEAN
      BY Zenon DEF LoadingInit
    <3> QED
      BY <2>1, <2>2, <2>3, <3>1, <3>2, <3>3, Zenon DEF LoadingTypeOK
  <2>5. TargetIsOpened /\ EnvironIsStarted /\ WrittenStays /\ InstalledIsServed
    BY DEF LoadingInit, TargetIsOpened, EnvironIsStarted, WrittenStays, InstalledIsServed
  <2> QED
    BY <2>4, <2>5 DEF LoadingInv
<1>2. LoadingInv /\ [LoadingNext]_loadingVars => LoadingInv'
  BY LoadingInvStep
<1> QED
  BY <1>1, <1>2, PTL DEF LoadingSpec

(* What the install page wrote is in service once it is done, and is what a   *)
(* restart would put in service (serve.go, Reload), unless .env names another *)
(* config file than the server was started with, or somebody edits.          *)
THEOREM InstalledServed == LoadingSpec => []InstalledIsServed
<1>1. LoadingInv => InstalledIsServed
  BY DEF LoadingInv
<1> QED
  BY <1>1, LoadingInvariant, PTL

-----------------------------------------------------------------------------
(* PublicAddr: what Choose makes of the probe. *)

\* The least of some places.
LEMMA LeastPlace ==
    ASSUME NEW places \in SUBSET Nat, places # {}
    PROVE  Min(places) \in places
<1> DEFINE less == OpToRel(<, Nat)
<1>1. IsWellFoundedOn(less, Nat)
  BY NatLessThanWellFounded
<1>2. \A p, q \in Nat : q < p => <<q, p>> \in less
  BY DEF OpToRel
<1> HIDE DEF less
<1>3. PICK i \in places : \A j \in places : ~(<<j, i>> \in less)
  BY <1>1, WFMin
<1>4. \A j \in places : i <= j
  <2>1. \A j \in places : ~(j < i)
    BY <1>2, <1>3
  <2> QED
    BY <2>1
<1> QED
  BY <1>4 DEF Min

\* First finds an address of the kind, if the list has one.
LEMMA FirstFinds ==
    ASSUME NEW addrs, DOMAIN addrs \subseteq Nat, NEW kind, NoAddr \notin kind
    PROVE  /\ First(addrs, kind) # NoAddr => First(addrs, kind) \in kind \cap Range(addrs)
           /\ First(addrs, kind) = NoAddr => Range(addrs) \cap kind = {}
<1> DEFINE places == {i \in DOMAIN addrs : addrs[i] \in kind}
<1>1. CASE places = {}
  <2>1. First(addrs, kind) = NoAddr
    BY <1>1 DEF First
  <2>2. Range(addrs) \cap kind = {}
    BY <1>1 DEF Range
  <2> QED
    BY <2>1, <2>2
<1>2. CASE places # {}
  <2>1. First(addrs, kind) = addrs[Min(places)]
    BY <1>2 DEF First
  <2>2. Min(places) \in places
    <3>1. places \in SUBSET Nat
      OBVIOUS
    <3> HIDE DEF places
    <3> QED
      BY <1>2, <3>1, LeastPlace
  <2>3. addrs[Min(places)] \in kind \cap Range(addrs)
    BY <2>2 DEF Range
  <2> QED
    BY <2>1, <2>3
<1> QED
  BY <1>1, <1>2

\* The addresses that Choose weighs.
LEMMA CandidatesAre ==
    ASSUME NEW addrs \in Seq(Addresses), NEW at \in Listen
    PROVE  LET c == Candidates(Local(addrs), at) IN
           /\ DOMAIN c \subseteq Nat /\ Range(c) \subseteq Addresses
           /\ BoundToOne(at) => Range(c) = {at.bound} /\ at.bound \in Addresses
           /\ ~BoundToOne(at) => Range(c) = Range(addrs) \cap (Public4 \cup Private)
<1>1. DOMAIN addrs \subseteq Nat /\ \A i \in DOMAIN addrs : addrs[i] \in Addresses
  BY LenProperties, ElementOfSeq
<1>2. CASE BoundToOne(at)
  <2>1. Candidates(Local(addrs), at) = <<at.bound>>
    BY <1>2 DEF Candidates
  <2>2. DOMAIN <<at.bound>> = {1} /\ Range(<<at.bound>>) = {at.bound}
    BY DEF Range
  <2>3. at.bound \in Addresses
    BY <1>2 DEF Listen, BoundToOne
  <2> QED
    BY <1>2, <2>1, <2>2, <2>3
<1>3. CASE ~BoundToOne(at)
  <2>1. Candidates(Local(addrs), at) = Local(addrs)
    BY <1>3 DEF Candidates
  <2>2. /\ DOMAIN Local(addrs) = {i \in DOMAIN addrs : addrs[i] \in Public4 \cup Private}
        /\ \A i \in DOMAIN Local(addrs) : Local(addrs)[i] = addrs[i]
    BY DEF Local, Restrict
  <2>3. Range(Local(addrs)) = Range(addrs) \cap (Public4 \cup Private)
    BY <2>2 DEF Range
  <2>4. Range(addrs) \subseteq Addresses
    BY <1>1 DEF Range
  <2> QED
    BY <1>1, <1>3, <2>1, <2>2, <2>3, <2>4
<1> QED
  BY <1>2, <1>3

\* What Choose says of an address, in terms of what it takes the listener to
\* answer on.
Sound(c, reply, addrs, at) ==
    LET answersOn(a) == IF BoundToOne(at) THEN a = at.bound ELSE a \in Range(addrs) IN
    /\ c.kind \in Kinds
    /\ c.kind \in {"Verified", "Unverified", "LANOnly"} =>
          /\ c.proxied \/ (answersOn(c.host) /\ c.port = at.port)
          /\ c.kind = "LANOnly" <=> c.host \notin Public
    /\ c.kind = "BehindNAT" => ~answersOn(c.host)
    /\ c.kind \in {"None", "Unverified", "LANOnly"} => reply = NoAddr
    /\ c.kind = "LANOnly" => \A a \in Public4 : ~answersOn(a)
    /\ c.kind = "None" => \A a \in Public4 \cup Private : ~answersOn(a)

LEMMA ChooseIsSound ==
    ASSUME NEW reply \in Public4 \cup {NoAddr}, NEW addrs \in Seq(Addresses), NEW at \in Listen
    PROVE  Sound(Choose(reply, Local(addrs), at), reply, addrs, at)
<1> DEFINE c == Candidates(Local(addrs), at)
           public == First(c, Public)
           lan == First(c, Addresses \ Public)
           found == reply \in Range(c)
           proxied == at.bound \in Loopback
           port == IF proxied THEN 0 ELSE at.port
           result == Choose(reply, Local(addrs), at)
<1>1. /\ DOMAIN c \subseteq Nat /\ Range(c) \subseteq Addresses
      /\ BoundToOne(at) => Range(c) = {at.bound} /\ at.bound \in Addresses
      /\ ~BoundToOne(at) => Range(c) = Range(addrs) \cap (Public4 \cup Private)
  BY CandidatesAre
<1>2. NoAddr \notin Addresses /\ Public \subseteq Addresses /\ Public4 \subseteq Public
      /\ Private \subseteq Addresses
  BY PublicAddrAssumption DEF Addresses, Public
<1>3. result = CASE reply # NoAddr /\ found ->
                      [kind |-> "Verified", host |-> reply, lan |-> NoAddr, proxied |-> proxied, port |-> port]
                 [] reply # NoAddr /\ ~found ->
                      [kind |-> "BehindNAT", host |-> reply, lan |-> lan, proxied |-> proxied, port |-> port]
                 [] reply = NoAddr /\ public # NoAddr ->
                      [kind |-> "Unverified", host |-> public, lan |-> NoAddr, proxied |-> proxied, port |-> port]
                 [] reply = NoAddr /\ public = NoAddr /\ lan # NoAddr ->
                      [kind |-> "LANOnly", host |-> lan, lan |-> NoAddr, proxied |-> proxied, port |-> port]
                 [] OTHER -> NoChoice
  BY DEF Choose
<1> HIDE DEF c
<1>4. /\ public # NoAddr => public \in Public \cap Range(c)
      /\ public = NoAddr => Range(c) \cap Public = {}
  BY <1>1, <1>2, FirstFinds
<1>5. /\ lan # NoAddr => lan \in (Addresses \ Public) \cap Range(c)
      /\ lan = NoAddr => Range(c) \cap (Addresses \ Public) = {}
  BY <1>1, <1>2, FirstFinds
<1> HIDE DEF public, lan, result
<1> DEFINE answersOn(a) == IF BoundToOne(at) THEN a = at.bound ELSE a \in Range(addrs)
<1>6. /\ \A a \in Range(c) : answersOn(a)
      /\ \A a \in Public4 \cup Private : answersOn(a) => a \in Range(c)
  BY <1>1
<1>7. PICK p \in BOOLEAN : p = proxied
  <2>1. CASE proxied
    <3>1. proxied = TRUE
      BY <2>1
    <3> QED
      BY <3>1, Zenon
  <2>2. CASE ~proxied
    <3>1. proxied = FALSE
      BY <2>2
    <3> QED
      BY <3>1, Zenon
  <2> QED
    BY <2>1, <2>2
<1>8. ~proxied => port = at.port
  OBVIOUS
<1>9. CASE reply # NoAddr /\ found
  <2>1. result = [kind |-> "Verified", host |-> reply, lan |-> NoAddr, proxied |-> p, port |-> port]
    BY <1>3, <1>7, <1>9
  <2> HIDE DEF proxied, port
  <2>2. result.kind = "Verified" /\ result.host = reply /\ result.proxied = p /\ result.port = port
    BY <2>1
  <2>3. reply \in Public /\ answersOn(reply)
    BY <1>2, <1>6, <1>9
  <2> QED
    BY <1>7, <1>8, <2>2, <2>3 DEF Sound, Kinds, result
<1>10. CASE reply # NoAddr /\ ~found
  <2>1. result = [kind |-> "BehindNAT", host |-> reply, lan |-> lan, proxied |-> p, port |-> port]
    BY <1>3, <1>7, <1>10
  <2> HIDE DEF proxied, port
  <2>2. result.kind = "BehindNAT" /\ result.host = reply
    BY <2>1
  <2>3. ~answersOn(reply)
    BY <1>6, <1>10
  <2> QED
    BY <2>2, <2>3 DEF Sound, Kinds, result
<1>11. CASE reply = NoAddr /\ public # NoAddr
  <2>1. result = [kind |-> "Unverified", host |-> public, lan |-> NoAddr, proxied |-> p, port |-> port]
    BY <1>3, <1>7, <1>11
  <2> HIDE DEF proxied, port
  <2>2. result.kind = "Unverified" /\ result.host = public /\ result.proxied = p /\ result.port = port
    BY <2>1
  <2>3. public \in Public /\ answersOn(public)
    BY <1>4, <1>6, <1>11
  <2> QED
    BY <1>7, <1>8, <1>11, <2>2, <2>3 DEF Sound, Kinds, result
<1>12. CASE reply = NoAddr /\ public = NoAddr /\ lan # NoAddr
  <2>1. result = [kind |-> "LANOnly", host |-> lan, lan |-> NoAddr, proxied |-> p, port |-> port]
    BY <1>3, <1>7, <1>12
  <2> HIDE DEF proxied, port
  <2>2. result.kind = "LANOnly" /\ result.host = lan /\ result.proxied = p /\ result.port = port
    BY <2>1
  <2>3. lan \notin Public /\ answersOn(lan) /\ \A a \in Public4 : ~answersOn(a)
    BY <1>2, <1>4, <1>5, <1>6, <1>12
  <2> QED
    BY <1>7, <1>8, <1>12, <2>2, <2>3 DEF Sound, Kinds, result
<1>13. CASE reply = NoAddr /\ public = NoAddr /\ lan = NoAddr
  <2>1. result = NoChoice
    BY <1>3, <1>13
  <2>2. \A a \in Public4 \cup Private : ~answersOn(a)
    BY <1>1, <1>2, <1>4, <1>5, <1>6, <1>13
  <2> QED
    BY <1>13, <2>1, <2>2 DEF Sound, Kinds, NoChoice, result
<1> QED
  BY <1>9, <1>10, <1>11, <1>12, <1>13

-----------------------------------------------------------------------------
(* PublicAddr: the probe. *)

\* An answer is sent once, and what it says is settled before.
AnswersAreSent ==
    /\ \A i \in DOMAIN answers : fetcher[answers[i]] = "ended"
    /\ \A t \in heard : fetcher[t] = "ended"

\* Nothing has been asked.
Untouched == heard = {} /\ answers = <<>> /\ \A t \in Targets : fetcher[t] = "idle" /\ said[t] = NoAddr

\* Probe goes on as long as no good answer was received, and until one was or all were.
ProbeSays ==
    /\ caller = "idle" => Untouched
    /\ caller \in {"idle", "probing"} => probed = NoAddr /\ \A t \in heard : said[t] = NoAddr
    /\ caller \in {"choosing", "done"} =>
          IF probed = NoAddr THEN heard = Targets /\ \A t \in Targets : said[t] = NoAddr
          ELSE by \in heard /\ said[by] = probed

ChoiceIsMade == caller = "done" => choice = Choose(probed, Local(host), listen)

SetupInv == SetupTypeOK /\ AnswersAreSent /\ ProbeSays /\ ChoiceIsMade

LEMMA SetupTypeStep ==
    ASSUME SetupTypeOK, [SetupNext]_setupVars
    PROVE  SetupTypeOK'
<1> USE PublicAddrAssumption DEF SetupTypeOK
<1>1. CASE DetectAddress
  <2>1. host' \in Seq(Addresses) /\ listen' \in Listen
    BY <1>1 DEF DetectAddress
  <2>2. /\ caller' = "probing" /\ fetcher' = [t \in Targets |-> "asking"]
        /\ UNCHANGED <<said, answers, heard, ended, probed, by, choice>>
    BY <1>1 DEF DetectAddress
  <2> QED
    BY <2>1, <2>2
<1>2. CASE Receives
  <2> DEFINE t == Head(answers)
  <2>1. answers # <<>> /\ answers' = Tail(answers) /\ heard' = heard \cup {t} /\ probed' = said[t] /\ by' = t
        /\ UNCHANGED <<fetcher, said, host, listen, choice>>
    BY <1>2 DEF Receives
  <2>2. t \in Targets /\ answers' \in Seq(Targets)
    BY <2>1, HeadTailProperties
  <2>3. caller' \in {"probing", "choosing"} /\ ended' \in BOOLEAN
    BY <1>2 DEF Receives
  <2> HIDE DEF t
  <2> QED
    BY <2>1, <2>2, <2>3
<1>3. CASE Expires
  BY <1>3 DEF Expires
<1>4. CASE Chooses
  <2>1. probed \in Public4 \cup {NoAddr} /\ host \in Seq(Addresses) /\ listen \in Listen
    OBVIOUS
  <2>2. Choose(probed, Local(host), listen).kind \in Kinds
    BY <2>1, ChooseIsSound DEF Sound
  <2>3. /\ caller' = "done" /\ choice' = Choose(probed, Local(host), listen)
        /\ UNCHANGED <<fetcher, said, answers, heard, ended, probed, by, host, listen>>
    BY <1>4 DEF Chooses, probeVars
  <2> QED
    BY <2>2, <2>3
<1>5. ASSUME NEW t \in Targets, Fetches(t) PROVE SetupTypeOK'
  <2>1. PICK a \in Says[t] : said' = [said EXCEPT ![t] = IF a \in Public4 THEN a ELSE NoAddr]
    BY <1>5 DEF Fetches
  <2> QED
    BY <1>5, <2>1 DEF Fetches
<1>6. ASSUME NEW t \in Targets, FetchFails(t) PROVE SetupTypeOK'
  BY <1>6 DEF FetchFails
<1>7. ASSUME NEW t \in Targets, Sends(t) PROVE SetupTypeOK'
  <2>1. answers' \in Seq(Targets)
    BY <1>7, AppendProperties DEF Sends
  <2> QED
    BY <1>7, <2>1 DEF Sends
<1>8. CASE UNCHANGED setupVars
  BY <1>8 DEF setupVars, probeVars
<1> QED
  BY <1>1, <1>2, <1>3, <1>4, <1>5, <1>6, <1>7, <1>8 DEF SetupNext

LEMMA SetupInvStep ==
    ASSUME SetupInv, [SetupNext]_setupVars
    PROVE  SetupInv'
<1> USE DEF SetupInv
<1>0. SetupTypeOK'
  BY SetupTypeStep
<1>1. CASE DetectAddress
  <2>1. /\ caller = "idle" /\ caller' = "probing" /\ fetcher' = [t \in Targets |-> "asking"]
        /\ UNCHANGED <<said, answers, heard, ended, probed, by, choice>>
    BY <1>1 DEF DetectAddress
  <2>2. Untouched /\ probed = NoAddr
    BY <2>1 DEF ProbeSays
  <2>3. AnswersAreSent' /\ ProbeSays' /\ ChoiceIsMade'
    BY <2>1, <2>2 DEF AnswersAreSent, ProbeSays, ChoiceIsMade, Untouched
  <2> QED
    BY <1>0, <2>3
<1>2. CASE Receives
  <2> DEFINE t == Head(answers)
  <2>1. /\ caller = "probing" /\ answers # <<>> /\ answers' = Tail(answers)
        /\ heard' = heard \cup {t} /\ probed' = said[t] /\ by' = t
        /\ UNCHANGED <<fetcher, said, host, listen, choice>>
        /\ IF Settles(t) THEN caller' = "choosing" ELSE caller' = caller
    BY <1>2 DEF Receives
  <2>2. /\ t \in Targets /\ t = answers[1] /\ 1 \in DOMAIN answers
        /\ \A i \in DOMAIN Tail(answers) : i + 1 \in DOMAIN answers /\ Tail(answers)[i] = answers[i + 1]
    <3>1. answers \in Seq(Targets)
      BY DEF SetupTypeOK
    <3>2. Len(answers) \in Nat /\ Len(answers) > 0 /\ DOMAIN answers = 1..Len(answers)
      BY <2>1, <3>1, LenProperties, EmptySeq
    <3>3. /\ Head(answers) = answers[1] /\ Tail(answers) \in Seq(Targets)
          /\ Len(Tail(answers)) = Len(answers) - 1
          /\ \A i \in 1..Len(Tail(answers)) : Tail(answers)[i] = answers[i + 1]
      BY <2>1, <3>1, HeadTailProperties
    <3>4. DOMAIN Tail(answers) = 1..Len(Tail(answers)) /\ t \in Targets
      BY <2>1, <3>1, <3>3, LenProperties, HeadTailProperties
    <3>5. \A i \in 1..(Len(answers) - 1) : i + 1 \in 1..Len(answers)
      BY <3>2
    <3> QED
      BY <3>2, <3>3, <3>4, <3>5
  <2> HIDE DEF t
  <2>3. AnswersAreSent'
    <3>1. fetcher[t] = "ended"
      BY <2>2 DEF AnswersAreSent
    <3> QED
      BY <2>1, <2>2, <3>1 DEF AnswersAreSent
  <2>4. \A u \in heard : said[u] = NoAddr
    BY <2>1 DEF ProbeSays
  <2>5. ProbeSays'
    <3>1. CASE Settles(t)
      <4>1. caller' = "choosing"
        BY <2>1, <3>1
      <4>2. probed' = NoAddr => heard' = Targets /\ \A u \in Targets : said'[u] = NoAddr
        BY <2>1, <2>4, <3>1 DEF Settles
      <4>3. by' \in heard' /\ said'[by'] = probed'
        BY <2>1
      <4> QED
        BY <4>1, <4>2, <4>3 DEF ProbeSays
    <3>2. CASE ~Settles(t)
      <4>1. caller' = "probing" /\ probed' = NoAddr
        BY <2>1, <3>2 DEF Settles
      <4>2. \A u \in heard' : said'[u] = NoAddr
        BY <2>1, <2>4, <3>2 DEF Settles
      <4> QED
        BY <4>1, <4>2 DEF ProbeSays
    <3> QED
      BY <3>1, <3>2
  <2>6. ChoiceIsMade'
    BY <2>1 DEF ChoiceIsMade
  <2> QED
    BY <1>0, <2>3, <2>5, <2>6
<1>3. CASE Expires
  BY <1>0, <1>3 DEF Expires, AnswersAreSent, ProbeSays, ChoiceIsMade, Untouched
<1>4. CASE Chooses
  <2>1. /\ caller = "choosing" /\ caller' = "done" /\ choice' = Choose(probed, Local(host), listen)
        /\ UNCHANGED <<fetcher, said, answers, heard, ended, probed, by, host, listen>>
    BY <1>4 DEF Chooses, probeVars
  <2>2. AnswersAreSent' /\ ProbeSays'
    BY <2>1 DEF AnswersAreSent, ProbeSays
  <2>3. ChoiceIsMade'
    BY <2>1 DEF ChoiceIsMade
  <2> QED
    BY <1>0, <2>2, <2>3
<1>5. ASSUME NEW t \in Targets, Fetches(t) \/ FetchFails(t) PROVE SetupInv'
  <2>1. /\ fetcher[t] = "asking" /\ fetcher' = [fetcher EXCEPT ![t] = "sending"]
        /\ \A u \in Targets : u # t => said'[u] = said[u]
        /\ UNCHANGED <<caller, answers, heard, ended, probed, by, host, listen, choice>>
    BY <1>5 DEF Fetches, FetchFails, SetupTypeOK
  <2>2. /\ t \notin heard /\ caller # "idle"
        /\ \A i \in DOMAIN answers : answers[i] # t
        /\ \A u \in Targets : u # t => fetcher'[u] = fetcher[u]
    BY <2>1 DEF AnswersAreSent, ProbeSays, Untouched, SetupTypeOK
  <2>3. heard \subseteq Targets /\ \A i \in DOMAIN answers : answers[i] \in Targets
    BY LenProperties, ElementOfSeq DEF SetupTypeOK
  <2>4. AnswersAreSent'
    BY <2>1, <2>2, <2>3 DEF AnswersAreSent
  <2>5. ProbeSays'
    BY <2>1, <2>2, <2>3 DEF ProbeSays
  <2>6. ChoiceIsMade'
    BY <2>1 DEF ChoiceIsMade
  <2> QED
    BY <1>0, <2>4, <2>5, <2>6
<1>6. ASSUME NEW t \in Targets, Sends(t) PROVE SetupInv'
  <2>1. /\ fetcher[t] = "sending" /\ fetcher' = [fetcher EXCEPT ![t] = "ended"]
        /\ answers' = Append(answers, t)
        /\ UNCHANGED <<caller, said, heard, ended, probed, by, host, listen, choice>>
    BY <1>6 DEF Sends
  <2>2. caller # "idle" /\ fetcher'[t] = "ended" /\ \A u \in Targets : fetcher[u] = "ended" => fetcher'[u] = "ended"
    BY <2>1 DEF ProbeSays, Untouched, SetupTypeOK
  <2>3. heard \subseteq Targets /\ \A i \in DOMAIN answers : answers[i] \in Targets
    BY LenProperties, ElementOfSeq DEF SetupTypeOK
  <2>4. \A i \in DOMAIN answers' : answers'[i] = t \/ (i \in DOMAIN answers /\ answers'[i] = answers[i])
    <3>1. answers \in Seq(Targets) /\ Len(answers) \in Nat /\ DOMAIN answers = 1..Len(answers)
      BY LenProperties DEF SetupTypeOK
    <3>2. /\ DOMAIN answers' = 1..(Len(answers) + 1) /\ answers'[Len(answers) + 1] = t
          /\ \A i \in 1..Len(answers) : answers'[i] = answers[i]
      BY <2>1, <3>1, AppendProperties, LenProperties
    <3>3. \A i \in 1..(Len(answers) + 1) : i = Len(answers) + 1 \/ i \in 1..Len(answers)
      BY <3>1
    <3> QED
      BY <3>1, <3>2, <3>3
  <2>5. AnswersAreSent'
    BY <2>1, <2>2, <2>3, <2>4 DEF AnswersAreSent
  <2>6. ProbeSays' /\ ChoiceIsMade'
    BY <2>1, <2>2 DEF ProbeSays, ChoiceIsMade
  <2> QED
    BY <1>0, <2>5, <2>6
<1>7. CASE UNCHANGED setupVars
  BY <1>0, <1>7 DEF setupVars, probeVars, AnswersAreSent, ProbeSays, ChoiceIsMade, Untouched
<1> QED
  BY <1>1, <1>2, <1>3, <1>4, <1>5, <1>6, <1>7 DEF SetupNext

(* However the goroutines of the probe are scheduled and cut off, what came    *)
(* through the channel is what a service said, and Choose had it in hand.     *)
THEOREM SetupInvariant == SetupSpec => []SetupInv
<1>1. SetupInit => SetupInv
  <2> SUFFICES ASSUME SetupInit PROVE SetupInv
    OBVIOUS
  <2>1. SetupTypeOK
    <3>1. <<>> \in Seq(Targets) /\ <<>> \in Seq(Addresses)
      BY EmptySeq
    <3>2. ended \in BOOLEAN
      BY Zenon DEF SetupInit
    <3>3. listen \in Listen
      BY DEF SetupInit, Listen
    <3> QED
      BY <3>1, <3>2, <3>3 DEF SetupInit, SetupTypeOK, NoChoice, Kinds
  <2>2. AnswersAreSent /\ ProbeSays /\ ChoiceIsMade
    BY DEF SetupInit, AnswersAreSent, ProbeSays, ChoiceIsMade, Untouched
  <2> QED
    BY <2>1, <2>2 DEF SetupInv
<1>2. SetupInv /\ [SetupNext]_setupVars => SetupInv'
  BY SetupInvStep
<1> QED
  BY <1>1, <1>2, PTL DEF SetupSpec

(* The address in the link that `init` prints is one that the server answers   *)
(* on (Choose), if the host of server.addr is no name other than localhost;    *)
(* and there is none but a private one, or none at all, only if every echo     *)
(* service failed (Probe).                                                   *)
THEOREM AddressAnswersAlways == SetupSpec => []AddressAnswers
<1>1. SetupInv => AddressAnswers
  <2> SUFFICES ASSUME SetupInv, caller = "done"
               PROVE  AddressAnswers
    BY DEF AddressAnswers
  <2>1. probed \in Public4 \cup {NoAddr} /\ host \in Seq(Addresses) /\ listen \in Listen
    BY DEF SetupInv, SetupTypeOK
  <2>2. Sound(choice, probed, host, listen)
    BY <2>1, ChooseIsSound DEF SetupInv, ChoiceIsMade
  <2>3. IF probed = NoAddr THEN heard = Targets /\ \A t \in Targets : said[t] = NoAddr
        ELSE by \in heard /\ said[by] = probed
    BY DEF SetupInv, ProbeSays
  <2>4. CASE listen.named = NoAddr
    <3>1. \A a : AnswersOn(a) <=> IF BoundToOne(listen) THEN a = listen.bound ELSE a \in Range(host)
      BY <2>4 DEF AnswersOn, Bound
    <3> QED
      BY <2>2, <2>3, <2>4, <3>1 DEF Sound, AddressAnswers
  <2>5. CASE listen.named # NoAddr
    <3>1. ~BoundToOne(listen)
      BY <2>1, <2>5 DEF Listen, BoundToOne
    <3> QED
      BY <2>2, <2>3, <2>5, <3>1 DEF Sound, AddressAnswers
  <2> QED
    BY <2>4, <2>5
<1> QED
  BY <1>1, SetupInvariant, PTL

-----------------------------------------------------------------------------
(* The parts side by side. *)

LEMMA EachPartSteps ==
    ASSUME [Next]_vars
    PROVE  /\ [ServiceNext]_serviceVars /\ [LoadingNext]_loadingVars /\ [SetupNext]_setupVars
           /\ [LinksNext]_linkVars /\ [FormsNext]_formVars
<1>1. CASE Next
  BY <1>1, Zenon DEF Next
<1>2. CASE UNCHANGED vars
  BY <1>2 DEF vars
<1> QED
  BY <1>1, <1>2

(* A behaviour of the parts side by side is one of every part, so that what    *)
(* is proved of a part holds where all of them are.                          *)
THEOREM EachPart ==
    Spec => ServiceSpec /\ LoadingSpec /\ SetupSpec /\ LinksSpec /\ FormsSpec
<1>1. Init => ServiceInit /\ LoadingInit /\ SetupInit /\ LinksInit /\ FormsInit
  BY DEF Init
<1>2. [Next]_vars => /\ [ServiceNext]_serviceVars /\ [LoadingNext]_loadingVars
                     /\ [SetupNext]_setupVars /\ [LinksNext]_linkVars /\ [FormsNext]_formVars
  BY EachPartSteps
<1> QED
  BY <1>1, <1>2, PTL DEF Spec, ServiceSpec, LoadingSpec, SetupSpec, LinksSpec, FormsSpec

(* The types of the parts: what a request, a config file, a goroutine of the   *)
(* probe and the channel between them may come to.                            *)
THEOREM PartsTyped == Spec => []TypeOK
<1>1. LoadingInv => LoadingTypeOK
  BY DEF LoadingInv
<1>2. SetupInv => SetupTypeOK
  BY DEF SetupInv
<1>3. ServiceTypeOK /\ LoadingTypeOK /\ SetupTypeOK => TypeOK
  BY DEF TypeOK
<1> QED
  BY <1>1, <1>2, <1>3, EachPart, ServiceTypeCorrect, LoadingInvariant, SetupInvariant, PTL
=============================================================================
