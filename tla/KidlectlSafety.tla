--------------------------- MODULE KidlectlSafety ---------------------------
(***************************************************************************)
(* What kidlectl guarantees for any number of commands and other writers:  *)
(* the truth of exit code 0, that a command touches only the flag, that    *)
(* the later phase wins, and that commands are atomic.                     *)
(***************************************************************************)
EXTENDS KidlectlAtomic, TLAPS

-----------------------------------------------------------------------------
(* The inductive invariant.                                                *)

(* The copy a command holds is of a version at or before the one stored,   *)
(* and the version number identifies it.                                   *)
CopyInv ==
    \A c \in Commands : cmd[c].at = "update" =>
        LET copy == cmd[c].copy IN copy.rv <= ir.rv /\ (copy.rv = ir.rv => copy = ir)

(* A command under way has seen the value the flag has now.                *)
SeenInv ==
    \A c \in Commands : cmd[c].at \in Running => ir.idle \in seen[c]

(* The flag is what its last writer wants; who was over is over.           *)
FlagInv == flagBy # Nobody => ir.idle = Wants[flagBy]
OverInv == \A d \in Commands : \A c \in over[d] : Over(c)

(* Only commands that create get to the call Create.                       *)
KindInv == \A c \in Commands : /\ cmd[c].at = "create" => c \in Creates /\ ValidRef(c)
                               /\ cmd[c].at = "update" => c \notin Creates

IInv == TypeOK /\ CopyInv /\ SeenInv /\ FlagInv /\ OverInv /\ KindInv
        /\ SuccessIsTrue /\ LaterPhaseWins

-----------------------------------------------------------------------------
(* Lemmas.                                                                 *)

(* A new version of the IdlingResource has its type and a number that is   *)
(* larger unless nothing changed.                                          *)
LEMMA NextVersionFacts ==
  ASSUME TypeOK, NEW obj \in Object
  PROVE  /\ NextVersion(ir, obj) \in Object
         /\ NextVersion(ir, obj).idle = obj.idle
         /\ NextVersion(ir, obj).live = obj.live
         /\ NextVersion(ir, obj).other = obj.other
         /\ \/ NextVersion(ir, obj) = ir
            \/ NextVersion(ir, obj).rv = ir.rv + 1
  BY DEF NextVersion, Object, TypeOK

(* Fields that are no commands' and fields that are.                       *)
LEMMA Pieces ==
  ASSUME TypeOK, NEW c \in Commands
  PROVE  /\ Nothing \in Object
         /\ cmd[c] \in Command /\ cmd[c].copy \in Object /\ cmd[c].at \in States
         /\ Sent(c) \in Object /\ Sent(c).idle = Wants[c]
         /\ Sent(c).other = cmd[c].copy.other /\ Sent(c).live = cmd[c].copy.live
         /\ c \in Creates => New(c) \in Object /\ New(c).idle = Wants[c]
<1>1. Nothing \in Object
  BY WritesAssumption DEF Nothing, Object
<1>2. cmd[c] \in Command /\ cmd[c].copy \in Object /\ cmd[c].at \in States
  BY DEF TypeOK, Command
<1>3. /\ Sent(c) \in Object /\ Sent(c).idle = Wants[c]
      /\ Sent(c).other = cmd[c].copy.other /\ Sent(c).live = cmd[c].copy.live
  BY <1>2, WantsAssumption DEF Sent, Object
<1>4. c \in Creates => New(c) \in Object /\ New(c).idle = Wants[c]
  BY WantsAssumption, CreatesAssumption DEF New, Object
<1> QED BY <1>1, <1>2, <1>3, <1>4

(* What the invariant says of one command.                                 *)
CommandInv(c) ==
    /\ cmd[c].at = "update" => /\ c \notin Creates
                               /\ cmd[c].copy.rv <= ir.rv
                               /\ cmd[c].copy.rv = ir.rv => cmd[c].copy = ir
    /\ cmd[c].at = "create" => c \in Creates /\ ValidRef(c)
    /\ cmd[c].at \in Running => ir.idle \in seen[c]
    /\ cmd[c].at = "exit0" => /\ Wants[c] \in seen[c]
                              /\ \A d \in over[c] : Wants[d] # Wants[c] => flagBy # d
    /\ \A d \in over[c] : Over(d)

(* The invariant, command by command.                                      *)
LEMMA ByCommand ==
  IInv <=> TypeOK /\ FlagInv /\ \A c \in Commands : CommandInv(c)
  BY DEF IInv, CommandInv, CopyInv, SeenInv, FlagInv, OverInv, KindInv, SuccessIsTrue,
         LaterPhaseWins

LEMMA ByCommandAfter ==
  ASSUME TypeOK', FlagInv', \A c \in Commands : CommandInv(c)'
  PROVE  IInv'
  BY DEF IInv, CommandInv, CopyInv, SeenInv, FlagInv, OverInv, KindInv, SuccessIsTrue,
         LaterPhaseWins

(* The invariant holds before any command starts.                          *)
LEMMA IInvInit == Init => IInv
<1> SUFFICES ASSUME Init PROVE IInv
  OBVIOUS
<1>1. ir \in Object /\ Nothing \in Object
  BY WritesAssumption DEF Init, Object, Nothing
<1>2. \A c \in Commands : cmd[c].at = "new" /\ over[c] = {}
  BY DEF Init
<1>3. cmd \in [Commands -> Command]
  BY <1>1 DEF Init, Command, States
<1>4. TypeOK
  <2>1. /\ seen \in [Commands -> SUBSET BOOLEAN] /\ over \in [Commands -> SUBSET Commands]
        /\ flagBy \in Commands \cup {Nobody}
    BY DEF Init
  <2>2. writes \in 0 .. MaxWrites
    BY WritesAssumption DEF Init
  <2> QED BY <1>1, <1>3, <2>1, <2>2 DEF TypeOK
<1>5. FlagInv
  BY DEF Init, FlagInv
<1> QED BY <1>2, <1>4, <1>5, ByCommand DEF CommandInv, Running

-----------------------------------------------------------------------------
(* Steps.                                                                  *)

(* A command that moves was not over, so whoever was over still is.        *)
LEMMA OverStays ==
  ASSUME TypeOK, NEW m \in Commands, ~Over(m), NEW x, cmd' = [cmd EXCEPT ![m] = x]
  PROVE  /\ \A c \in Commands \ {m} : cmd'[c] = cmd[c]
         /\ cmd'[m] = x
         /\ \A c \in Commands : Over(c) => Over(c)'
<1>1. cmd \in [Commands -> Command]
  BY DEF TypeOK
<1>2. (\A c \in Commands \ {m} : cmd'[c] = cmd[c]) /\ cmd'[m] = x
  BY <1>1
<1> QED BY <1>2 DEF Over

(* Who may write what: a new value of the flag is what its writer wants.   *)
Signed(obj, by) ==
    /\ obj \in Object /\ by \in Commands \cup {Nobody}
    /\ by # Nobody => obj.idle = Wants[by] /\ (by = flagBy \/ ~Over(by))

(* A write keeps the types and the signature of the flag.                  *)
LEMMA WriteKeeps ==
  ASSUME TypeOK, NEW obj, NEW by, Signed(obj, by), Write(obj, by)
  PROVE  /\ ir' \in Object /\ seen' \in [Commands -> SUBSET BOOLEAN]
         /\ over' \in [Commands -> SUBSET Commands] /\ flagBy' \in Commands \cup {Nobody}
         /\ FlagInv'
<1>1. obj \in Object /\ obj.idle \in BOOLEAN
  BY DEF Signed, Object
<1>2. NextVersion(ir, obj) \in Object /\ NextVersion(ir, obj).idle = obj.idle
  BY <1>1, NextVersionFacts
<1>3. ir' \in Object /\ ir'.idle = obj.idle
  BY <1>2 DEF Write
<1>4. seen' \in [Commands -> SUBSET BOOLEAN]
  <2>1. seen \in [Commands -> SUBSET BOOLEAN]
    BY DEF TypeOK
  <2> QED BY <1>1, <2>1 DEF Write
<1> QED BY <1>3, <1>4 DEF Write, Signed, FlagInv, TypeOK

(* A write by a client that is not over leaves the invariant true of every *)
(* command that does not move.                                             *)
LEMMA Bystander ==
  ASSUME IInv, NEW obj, NEW by, Signed(obj, by), Write(obj, by),
         NEW c \in Commands, cmd'[c] = cmd[c],
         \A d \in Commands : Over(d) => Over(d)'
  PROVE  CommandInv(c)'
<1>1. TypeOK /\ CommandInv(c)
  BY ByCommand
<1>2. obj \in Object
  BY DEF Signed
<1>3. ir' = ir \/ ir'.rv = ir.rv + 1
  BY <1>1, <1>2, NextVersionFacts DEF Write
<1>4. ir'.idle = obj.idle
  BY <1>1, <1>2, NextVersionFacts DEF Write
<1>5. over'[c] = over[c] /\ over[c] \in SUBSET Commands
  BY <1>1 DEF Write, TypeOK
<1>6. seen[c] \subseteq seen'[c] /\ (cmd[c].at \in Running => obj.idle \in seen'[c])
  BY DEF Write
<1>7. cmd[c].at = "update" => cmd[c].copy.rv \in Nat /\ ir.rv \in Nat
  BY <1>1, Pieces DEF TypeOK, Object
<1>8. (cmd[c].at = "update" => /\ c \notin Creates
                               /\ cmd[c].copy.rv <= ir.rv
                               /\ cmd[c].copy.rv = ir.rv => cmd[c].copy = ir)'
  BY <1>1, <1>3, <1>7 DEF CommandInv
<1>9. (cmd[c].at = "create" => c \in Creates /\ ValidRef(c))'
  BY <1>1 DEF CommandInv, ValidRef, GetAllowedResources
<1>10. (cmd[c].at = "exit0" => Wants[c] \in seen[c])'
  BY <1>1, <1>6 DEF CommandInv
<1>11. ASSUME cmd[c].at = "exit0", NEW d \in over[c], Wants[d] # Wants[c]
       PROVE  flagBy' # d
  <2>1. d \in Commands /\ Over(d) /\ flagBy # d /\ d # Nobody
    BY <1>1, <1>5, <1>11, CreatesAssumption DEF CommandInv
  <2> QED BY <2>1 DEF Signed, Write
<1>12. \A d \in over'[c] : Over(d)'
  BY <1>1, <1>5 DEF CommandInv
<1> QED BY <1>4, <1>5, <1>6, <1>8, <1>9, <1>10, <1>11, <1>12 DEF CommandInv

(* A step that writes nothing does too.                                    *)
LEMMA QuietBystander ==
  ASSUME IInv, UNCHANGED <<ir, flagBy>>, NEW c \in Commands, cmd'[c] = cmd[c],
         over'[c] = over[c], seen'[c] = seen[c],
         \A d \in Commands : Over(d) => Over(d)'
  PROVE  CommandInv(c)'
<1>1. CommandInv(c) /\ over[c] \in SUBSET Commands
  BY ByCommand DEF TypeOK
<1> QED BY <1>1 DEF CommandInv, ValidRef, GetAllowedResources

(* The type of the commands after one has moved.                           *)
LEMMA MovedType ==
  ASSUME TypeOK, NEW m \in Commands, NEW at \in States, NEW copy \in Object,
         Moved(m, at, copy)
  PROVE  cmd' \in [Commands -> Command] /\ cmd'[m].at = at /\ cmd'[m].copy = copy
<1>1. [at |-> at, copy |-> copy] \in Command
  BY DEF Command
<1> QED BY <1>1 DEF TypeOK, Moved

(* A command starts.                                                       *)
LEMMA StartStep ==
  ASSUME IInv, NEW m \in Commands, Start(m)
  PROVE  IInv'
<1>1. TypeOK /\ FlagInv /\ ~Over(m) /\ Goes(m, "get") /\ Starts(m)
  BY ByCommand DEF Start, Starts, Over
<1>2. \A c \in Commands \ {m} : cmd'[c] = cmd[c]
  BY <1>1, OverStays DEF Goes, Moved
<1>3. \A c \in Commands : Over(c) => Over(c)'
  BY <1>1, OverStays DEF Goes, Moved
<1>4. cmd' \in [Commands -> Command] /\ cmd'[m].at = "get"
  BY <1>1, Pieces, MovedType DEF Goes, States
<1>5. seen' \in [Commands -> SUBSET BOOLEAN] /\ seen'[m] = {ir.idle}
      /\ \A c \in Commands \ {m} : seen'[c] = seen[c]
  <2>1. seen \in [Commands -> SUBSET BOOLEAN] /\ {ir.idle} \in SUBSET BOOLEAN
    BY <1>1 DEF TypeOK, Object
  <2> QED BY <1>1, <2>1 DEF Starts
<1>6. over' \in [Commands -> SUBSET Commands] /\ over'[m] = {d \in Commands : Over(d)}
      /\ \A c \in Commands \ {m} : over'[c] = over[c]
  BY <1>1 DEF Starts, TypeOK
<1>7. UNCHANGED <<ir, flagBy, writes>>
  BY <1>1 DEF Starts
<1>8. TypeOK' /\ FlagInv'
  BY <1>1, <1>4, <1>5, <1>6, <1>7 DEF TypeOK, FlagInv
<1>9. \A c \in Commands \ {m} : CommandInv(c)'
  BY <1>2, <1>3, <1>5, <1>6, <1>7, QuietBystander
<1>10. CommandInv(m)'
  BY <1>3, <1>4, <1>5, <1>6, <1>7 DEF CommandInv
<1> QED BY <1>8, <1>9, <1>10, ByCommandAfter

(* A command that is under way moves and writes nothing.                   *)
LEMMA QuietStep ==
  ASSUME IInv, NEW m \in Commands, cmd[m].at \in Running, NoWrite,
         writes' \in 0 .. MaxWrites,
         NEW at \in States, NEW copy \in Object, Moved(m, at, copy),
         at = "exit0" => ir.idle = Wants[m],
         at = "update" => m \notin Creates /\ copy = ir,
         at = "create" => m \in Creates /\ ValidRef(m)
  PROVE  IInv'
<1>1. TypeOK /\ FlagInv /\ CommandInv(m) /\ ~Over(m)
  BY ByCommand DEF Over, Running
<1>2. (\A c \in Commands \ {m} : cmd'[c] = cmd[c])
      /\ \A c \in Commands : Over(c) => Over(c)'
  BY <1>1, OverStays DEF Moved
<1>3. cmd' \in [Commands -> Command] /\ cmd'[m].at = at /\ cmd'[m].copy = copy
  BY <1>1, MovedType
<1>4. TypeOK' /\ FlagInv'
  BY <1>1, <1>3 DEF TypeOK, FlagInv, NoWrite
<1>5. \A c \in Commands \ {m} : CommandInv(c)'
  BY <1>2, QuietBystander DEF NoWrite
<1>6. ir.idle \in seen[m] /\ \A d \in over[m] : Over(d)
  BY <1>1 DEF CommandInv
<1>7. \A d \in over[m] : d \in Commands /\ d # Nobody
  BY <1>1, CreatesAssumption DEF TypeOK
<1>8. at = "exit0" => \A d \in over[m] : Wants[d] # Wants[m] => flagBy # d
  BY <1>1, <1>7 DEF FlagInv
<1>9. ir.rv \in Nat
  BY <1>1 DEF TypeOK, Object
<1>10. CommandInv(m)'
  BY <1>2, <1>3, <1>6, <1>7, <1>8, <1>9
     DEF CommandInv, NoWrite, ValidRef, GetAllowedResources
<1> QED BY <1>4, <1>5, <1>10, ByCommandAfter

(* A command that is under way writes and ends.                            *)
LEMMA WritingStep ==
  ASSUME IInv, NEW m \in Commands, cmd[m].at \in Running, NEW obj \in Object,
         obj.idle = Wants[m], Write(obj, m), writes' \in 0 .. MaxWrites,
         NEW at \in {"exit0", "exit3"}, Goes(m, at)
  PROVE  IInv'
<1>1. TypeOK /\ FlagInv /\ CommandInv(m) /\ ~Over(m) /\ m # Nobody
  BY ByCommand, CreatesAssumption DEF Over, Running
<1>2. (\A c \in Commands \ {m} : cmd'[c] = cmd[c])
      /\ \A c \in Commands : Over(c) => Over(c)'
  BY <1>1, OverStays DEF Goes, Moved
<1>3. cmd' \in [Commands -> Command] /\ cmd'[m].at = at
  BY <1>1, Pieces, MovedType DEF Goes, States
<1>4. Signed(obj, m)
  BY <1>1 DEF Signed
<1>5. TypeOK' /\ FlagInv'
  BY <1>1, <1>3, <1>4, WriteKeeps DEF TypeOK
<1>6. \A c \in Commands \ {m} : CommandInv(c)'
  BY <1>2, <1>4, Bystander
<1>7. Wants[m] \in seen'[m] /\ over'[m] = over[m] /\ flagBy' = m
  BY DEF Write
<1>8. \A d \in over[m] : d \in Commands /\ Over(d)
  BY <1>1 DEF TypeOK, CommandInv
<1>9. CommandInv(m)'
  BY <1>1, <1>2, <1>3, <1>7, <1>8 DEF CommandInv, Running
<1> QED BY <1>5, <1>6, <1>9, ByCommandAfter

(* Another client writes.                                                  *)
LEMMA OtherStep ==
  ASSUME IInv, NEW obj, NEW by, Signed(obj, by), Write(obj, by), UNCHANGED cmd,
         writes' \in 0 .. MaxWrites
  PROVE  IInv'
<1>1. TypeOK /\ \A c \in Commands : cmd'[c] = cmd[c] /\ (Over(c) => Over(c)')
  BY ByCommand DEF Over
<1>2. TypeOK' /\ FlagInv'
  BY <1>1, WriteKeeps DEF TypeOK
<1>3. \A c \in Commands : CommandInv(c)'
  BY <1>1, Bystander
<1> QED BY <1>2, <1>3, ByCommandAfter

(* Every step of one command keeps the invariant.                          *)
LEMMA CommandStep ==
  ASSUME IInv, NEW c \in Commands, Run(c) \/ CallFails(c)
  PROVE  IInv'
<1>1. TypeOK /\ CommandInv(c) /\ ir \in Object /\ Nothing \in Object /\ writes \in 0 .. MaxWrites
  BY ByCommand, Pieces DEF TypeOK
<1>2. /\ Sent(c) \in Object /\ Sent(c).idle = Wants[c]
      /\ c \in Creates => New(c) \in Object /\ New(c).idle = Wants[c]
  BY <1>1, Pieces
<1>3. CASE Start(c)
  BY <1>3, StartStep
<1>4. CASE Get(c)
  <2>1. NoWrite /\ cmd[c].at \in Running /\ writes' \in 0 .. MaxWrites /\ c \notin Creates
    BY <1>1, <1>4 DEF Get, Running
  <2>2. CASE ir.live /\ ir.idle # Wants[c]
    <3>1. Moved(c, "update", ir)
      BY <1>4, <2>2 DEF Get
    <3> QED BY <1>1, <2>1, <3>1, QuietStep DEF States
  <2>3. CASE ir.live /\ ir.idle = Wants[c]
    <3>1. Moved(c, "exit0", Nothing)
      BY <1>4, <2>3 DEF Get, Goes
    <3> QED BY <1>1, <2>1, <2>3, <3>1, QuietStep DEF States
  <2>4. CASE ~ir.live
    <3>1. Moved(c, "exit3", Nothing)
      BY <1>4, <2>4 DEF Get, Goes
    <3> QED BY <1>1, <2>1, <3>1, QuietStep DEF States
  <2> QED BY <2>2, <2>3, <2>4
<1>5. CASE Update(c)
  <2>1. cmd[c].at \in Running /\ writes' \in 0 .. MaxWrites
    BY <1>1, <1>5 DEF Update, Running
  <2>2. CASE Write(Sent(c), c) /\ Goes(c, "exit0")
    BY <1>2, <2>1, <2>2, WritingStep
  <2>3. CASE NoWrite /\ Goes(c, "exit3")
    BY <1>1, <2>1, <2>3, QuietStep DEF States, Goes
  <2> QED BY <1>5, <2>2, <2>3 DEF Update
<1>6. CASE Validate(c)
  <2>1. NoWrite /\ cmd[c].at \in Running /\ writes' \in 0 .. MaxWrites /\ c \in Creates
    BY <1>1, <1>6 DEF Validate, Running
  <2>2. CASE ValidRef(c)
    <3>1. Moved(c, "create", Nothing)
      BY <1>6, <2>2 DEF Validate, Goes
    <3> QED BY <1>1, <2>1, <2>2, <3>1, QuietStep DEF States
  <2>3. CASE ~ValidRef(c)
    <3>1. Moved(c, "exit3", Nothing)
      BY <1>6, <2>3 DEF Validate, Goes
    <3> QED BY <1>1, <2>1, <3>1, QuietStep DEF States
  <2> QED BY <2>2, <2>3
<1>7. CASE Create(c)
  <2>1. cmd[c].at \in Running /\ writes' \in 0 .. MaxWrites /\ c \in Creates
    BY <1>1, <1>7 DEF Create, Running, CommandInv
  <2>2. CASE Write(New(c), c) /\ Goes(c, "exit0")
    BY <1>2, <2>1, <2>2, WritingStep
  <2>3. CASE NoWrite /\ Goes(c, "exit3")
    BY <1>1, <2>1, <2>3, QuietStep DEF States, Goes
  <2> QED BY <1>7, <2>2, <2>3 DEF Create
<1>8. CASE CallFails(c)
  <2>1. cmd[c].at \in Running /\ writes' \in 0 .. MaxWrites /\ Goes(c, "exit3")
    BY <1>1, <1>8, WritesAssumption DEF CallFails
  <2>2. CASE NoWrite
    BY <1>1, <2>1, <2>2, QuietStep DEF States, Goes
  <2>3. CASE Write(Sent(c), c)
    BY <1>2, <2>1, <2>3, WritingStep
  <2>4. CASE cmd[c].at = "create" /\ Write(New(c), c)
    BY <1>1, <1>2, <2>1, <2>4, WritingStep DEF CommandInv
  <2> QED BY <1>8, <2>2, <2>3, <2>4 DEF CallFails
<1> QED BY <1>3, <1>4, <1>5, <1>6, <1>7, <1>8 DEF Run

(* The writes of others are signed.                                        *)
LEMMA OthersSign ==
  ASSUME IInv, NEW by \in {flagBy, Nobody}, NEW obj \in Object,
         by = flagBy => obj.idle = ir.idle
  PROVE  Signed(obj, by)
  BY ByCommand DEF Signed, TypeOK, FlagInv

LEMMA OthersStep ==
  ASSUME IInv, OtherWrites \/ Deleted
  PROVE  IInv'
<1>1. ir \in Object /\ writes' \in 0 .. MaxWrites /\ UNCHANGED cmd
  BY ByCommand, WritesAssumption DEF TypeOK, OtherWrites, Deleted
<1>2. ASSUME NEW o \in Others, Write([ir EXCEPT !.other = o], flagBy)
      PROVE  IInv'
  <2>1. [ir EXCEPT !.other = o] \in Object /\ [ir EXCEPT !.other = o].idle = ir.idle
    BY <1>1 DEF Object
  <2> QED BY <1>1, <1>2, <2>1, OthersSign, OtherStep
<1>3. ASSUME Write([ir EXCEPT !.idle = ~@], Nobody)
      PROVE  IInv'
  <2>1. [ir EXCEPT !.idle = ~@] \in Object
    BY <1>1 DEF Object
  <2> QED BY <1>1, <1>3, <2>1, OtherStep DEF Signed
<1>4. ASSUME Write([ir EXCEPT !.live = FALSE], Nobody)
      PROVE  IInv'
  <2>1. [ir EXCEPT !.live = FALSE] \in Object
    BY <1>1 DEF Object
  <2> QED BY <1>1, <1>4, <2>1, OtherStep DEF Signed
<1> QED BY <1>2, <1>3, <1>4 DEF OtherWrites, Deleted

(* Every step keeps the invariant.                                         *)
LEMMA IInvStep == IInv /\ [Next]_vars => IInv'
<1>1. ASSUME IInv, UNCHANGED vars PROVE IInv'
  BY <1>1 DEF vars, IInv, TypeOK, CopyInv, SeenInv, FlagInv, OverInv, Over, KindInv,
     SuccessIsTrue, LaterPhaseWins, ValidRef, GetAllowedResources
<1> QED BY <1>1, CommandStep, OthersStep DEF Next

(* The inductive invariant of kidlectl.                                    *)
THEOREM Invariance == Spec => []IInv
  BY IInvInit, IInvStep, PTL DEF Spec

(* Commands and their copies keep their types, for any number of commands. *)
THEOREM TypeCorrect == Spec => []TypeOK
<1>1. IInv => TypeOK
  BY DEF IInv
<1> QED BY <1>1, Invariance, PTL

(* Exit code 0 of idle, wakeup and create is the truth.                    *)
THEOREM SuccessIsTrueHolds == Spec => []SuccessIsTrue
<1>1. IInv => SuccessIsTrue
  BY DEF IInv
<1> QED BY <1>1, Invariance, PTL

(* The later phase wins, in whatever order the pods of the two jobs run.   *)
THEOREM LaterPhaseWinsHolds == Spec => []LaterPhaseWins
<1>1. IInv => LaterPhaseWins
  BY DEF IInv
<1> QED BY <1>1, Invariance, PTL

-----------------------------------------------------------------------------
(* Atomicity.                                                              *)

(* What others see of a command that moves.                                *)
LEMMA StageStep ==
  ASSUME TypeOK, NEW c \in Commands, NEW at, NEW copy, Moved(c, at, copy)
  PROVE  Stage' = [Stage EXCEPT ![c] = StageOf(at)] /\ Stage[c] = StageOf(cmd[c].at)
<1>1. \A d \in Commands : cmd'[d].at = (IF d = c THEN at ELSE cmd[d].at)
  BY DEF TypeOK, Moved
<1>2. Stage' = [d \in Commands |-> StageOf(IF d = c THEN at ELSE cmd[d].at)]
  BY <1>1 DEF Stage
<1> QED BY <1>2 DEF Stage

(* The stages, state by state.                                             *)
LEMMA Stages ==
  /\ StageOf("new") = "ready" /\ StageOf("get") = "running" /\ StageOf("update") = "running"
  /\ StageOf("create") = "running" /\ StageOf("exit0") = "done" /\ StageOf("exit3") = "failed"
  BY DEF StageOf, Running

(* What others see of a write.                                             *)
LEMMA ShownWrite ==
  ASSUME TypeOK, NEW obj \in Object, NEW by, Write(obj, by)
  PROVE  Shown' = [live |-> obj.live, idle |-> obj.idle, other |-> obj.other]
<1>1. /\ ir'.live = obj.live /\ ir'.idle = obj.idle /\ ir'.other = obj.other
  BY NextVersionFacts DEF Write
<1> QED BY <1>1 DEF Shown

(* An Update that is accepted is the flag set in what is there now: the    *)
(* copy is up to date.                                                     *)
LEMMA UpToDate ==
  ASSUME IInv, NEW c \in Commands, cmd[c].at = "update", CanUpdate(ir, cmd[c].copy)
  PROVE  /\ c \notin Creates /\ ir.live
         /\ Sent(c).live = ir.live /\ Sent(c).other = ir.other /\ Sent(c).idle = Wants[c]
<1>1. TypeOK /\ CommandInv(c)
  BY ByCommand
<1>2. cmd[c].copy = ir /\ c \notin Creates /\ ir.live
  BY <1>1 DEF CommandInv, CanUpdate
<1> QED BY <1>1, <1>2, Pieces

(* The writes of commands are the effects promised.                        *)
LEMMA UpdateEffect ==
  ASSUME IInv, NEW c \in Commands, cmd[c].at = "update", CanUpdate(ir, cmd[c].copy),
         Write(Sent(c), c)
  PROVE  Flag!Effect(c)
<1>1. TypeOK /\ Sent(c) \in Object
  BY ByCommand, Pieces
<1>2. Shown' = [live |-> Sent(c).live, idle |-> Sent(c).idle, other |-> Sent(c).other]
  BY <1>1, ShownWrite
<1>3. Shown' = [Shown EXCEPT !.idle = Wants[c]]
  BY <1>2, UpToDate DEF Shown
<1>4. Shown.live /\ c \notin Creates
  BY UpToDate DEF Shown
<1> QED BY <1>3, <1>4 DEF Flag!Effect

LEMMA CreateEffect ==
  ASSUME IInv, NEW c \in Commands, cmd[c].at = "create", ~ir.live, Write(New(c), c)
  PROVE  Flag!Effect(c)
<1>1. TypeOK /\ c \in Creates /\ ValidRef(c)
  BY ByCommand DEF CommandInv
<1>2. New(c) \in Object
  BY <1>1, Pieces
<1>3. Shown' = [live |-> New(c).live, idle |-> New(c).idle, other |-> New(c).other]
  BY <1>1, <1>2, ShownWrite
<1>4. Shown' = [live |-> TRUE, idle |-> Wants[c], other |-> Contents[c]]
  BY <1>3 DEF New
<1>5. ~Shown.live
  BY DEF Shown
<1> QED BY <1>1, <1>4, <1>5 DEF Flag!Effect

(* Each step of a command is a step of the promise, or invisible.          *)
LEMMA CommandPromised ==
  ASSUME IInv, NEW c \in Commands, Run(c) \/ CallFails(c)
  PROVE  Flag!Begin(c) \/ Flag!Succeed(c) \/ Flag!Fail(c) \/ UNCHANGED <<Shown, Stage>>
<1>1. TypeOK /\ CommandInv(c)
  BY ByCommand
<1>2. NoWrite => UNCHANGED Shown
  BY DEF NoWrite, Shown
<1>3. ASSUME NEW at, Goes(c, at)
      PROVE  Stage' = [Stage EXCEPT ![c] = StageOf(at)] /\ Stage[c] = StageOf(cmd[c].at)
  BY <1>1, <1>3, StageStep DEF Goes
<1>4. Stage \in [Commands -> {StageOf(cmd[d].at) : d \in Commands}]
  BY DEF Stage
<1>5. CASE Start(c)
  <2>1. Goes(c, "get") /\ UNCHANGED ir /\ cmd[c].at \in {"new", "exit3"}
    BY <1>5 DEF Start, Starts
  <2>2. UNCHANGED Shown
    BY <2>1 DEF Shown
  <2> QED BY <1>3, <2>1, <2>2, Stages DEF Flag!Begin
<1>6. ASSUME cmd[c].at \in Running, Goes(c, "exit3"), NoWrite \/ Flag!Effect(c)
      PROVE  Flag!Fail(c)
  BY <1>2, <1>3, <1>6, Stages DEF Flag!Fail, Running
<1>7. ASSUME cmd[c].at \in Running, Goes(c, "exit0"), Flag!Effect(c)
      PROVE  Flag!Succeed(c)
  BY <1>3, <1>7, Stages DEF Flag!Succeed, Running
<1>8. ASSUME cmd[c].at = "get", NEW at \in {"update", "create"}, NEW copy, Moved(c, at, copy)
      PROVE  UNCHANGED Stage
  <2>1. Stage' = [Stage EXCEPT ![c] = "running"] /\ Stage[c] = "running"
    BY <1>1, <1>8, StageStep, Stages
  <2> QED BY <1>4, <2>1
<1>9. CASE Get(c)
  <2>1. cmd[c].at = "get" /\ NoWrite /\ c \notin Creates
    BY <1>9 DEF Get
  <2>2. CASE ir.live /\ ir.idle # Wants[c]
    BY <1>2, <1>8, <1>9, <2>1, <2>2 DEF Get
  <2>3. CASE ir.live /\ ir.idle = Wants[c]
    <3>1. Goes(c, "exit0")
      BY <1>9, <2>3 DEF Get
    <3>2. Shown.live /\ ir.idle = Shown.idle
      BY <2>3 DEF Shown
    <3>3. Shown = [Shown EXCEPT !.idle = ir.idle]
      BY <3>2, Zenon DEF Shown
    <3>4. Flag!Effect(c)
      BY <1>2, <2>1, <2>3, <3>2, <3>3, Zenon DEF Flag!Effect
    <3> QED BY <1>7, <2>1, <3>1, <3>4 DEF Running
  <2>4. CASE ~ir.live
    BY <1>6, <1>9, <2>1, <2>4 DEF Get, Running
  <2> QED BY <2>2, <2>3, <2>4
<1>10. CASE Update(c)
  <2>1. cmd[c].at = "update" /\ cmd[c].at \in Running
    BY <1>10 DEF Update, Running
  <2>2. CASE CanUpdate(ir, cmd[c].copy)
    BY <1>7, <1>10, <2>1, <2>2, UpdateEffect DEF Update
  <2>3. CASE ~CanUpdate(ir, cmd[c].copy)
    BY <1>6, <1>10, <2>1, <2>3 DEF Update
  <2> QED BY <2>2, <2>3
<1>11. CASE Validate(c)
  <2>1. cmd[c].at = "get" /\ cmd[c].at \in Running /\ NoWrite
    BY <1>11 DEF Validate, Running
  <2>2. CASE ValidRef(c)
    BY <1>2, <1>8, <1>11, <2>1, <2>2 DEF Validate, Goes
  <2>3. CASE ~ValidRef(c)
    BY <1>6, <1>11, <2>1, <2>3 DEF Validate
  <2> QED BY <2>2, <2>3
<1>12. CASE Create(c)
  <2>1. cmd[c].at = "create" /\ cmd[c].at \in Running
    BY <1>12 DEF Create, Running
  <2>2. CASE ~ir.live
    BY <1>7, <1>12, <2>1, <2>2, CreateEffect DEF Create
  <2>3. CASE ir.live
    BY <1>6, <1>12, <2>1, <2>3 DEF Create
  <2> QED BY <2>2, <2>3
<1>13. CASE CallFails(c)
  <2>1. cmd[c].at \in Running /\ Goes(c, "exit3")
    BY <1>13 DEF CallFails
  <2>2. NoWrite \/ Flag!Effect(c)
    BY <1>13, UpdateEffect, CreateEffect DEF CallFails
  <2> QED BY <1>6, <2>1, <2>2
<1> QED BY <1>5, <1>9, <1>10, <1>11, <1>12, <1>13 DEF Run

(* kidlectl implements AtomicFlag: commands that overlap have the outcome  *)
(* of commands run one after the other.                                    *)
THEOREM CommandsAreAtomicHolds == Spec => CommandsAreAtomic
<1>1. Init => Flag!Init
  <2> SUFFICES ASSUME Init PROVE Stage = [c \in Commands |-> "ready"]
    BY DEF Flag!Init
  <2>1. \A c \in Commands : StageOf(cmd[c].at) = "ready"
    BY Stages DEF Init
  <2> QED BY <2>1 DEF Stage
<1>2. IInv /\ [Next]_vars => [Flag!Next]_<<Shown, Stage>>
  <2> SUFFICES ASSUME IInv, [Next]_vars PROVE Flag!Next \/ UNCHANGED <<Shown, Stage>>
    OBVIOUS
  <2>1. CASE UNCHANGED vars
    BY <2>1 DEF vars, Shown, Stage
  <2>2. ASSUME NEW c \in Commands, Run(c) \/ CallFails(c)
        PROVE  Flag!Next \/ UNCHANGED <<Shown, Stage>>
    BY <2>2, CommandPromised DEF Flag!Next
  <2>3. CASE OtherWrites \/ Deleted
    <3>1. Shown.live /\ UNCHANGED Stage
      BY <2>3 DEF OtherWrites, Deleted, Shown, Stage
    <3> QED BY <3>1 DEF Flag!Next, Flag!OthersWrite
  <2> QED BY <2>1, <2>2, <2>3 DEF Next
<1> QED BY <1>1, <1>2, Invariance, PTL DEF Spec, CommandsAreAtomic, Flag!Spec

(* idle and wakeup change the flag and nothing else of the IdlingResource, *)
(* whatever was written between their two calls.                           *)
THEOREM OnlyTheFlagHolds == Spec => OnlyTheFlag
<1> DEFINE Kept == \A c \in Commands \ Creates : cmd'[c] # cmd[c]
                      => ir'.other = ir.other /\ ir'.live = ir.live
<1>1. IInv /\ [Next]_vars => Kept
  <2> SUFFICES ASSUME IInv, [Next]_vars, NEW c \in Commands \ Creates, cmd'[c] # cmd[c]
               PROVE  ir'.other = ir.other /\ ir'.live = ir.live
    OBVIOUS
  <2>1. TypeOK /\ CommandInv(c) /\ cmd \in [Commands -> Command]
    BY ByCommand DEF TypeOK
  <2>2. PICK d \in Commands : Run(d) \/ CallFails(d)
    BY DEF Next, OtherWrites, Deleted, vars
  <2>3. d = c
    BY <2>1, <2>2 DEF Run, CallFails, Start, Starts, Get, Update, Validate, Create, Goes, Moved
  <2>4. CASE UNCHANGED ir
    BY <2>4
  <2>5. CASE cmd[c].at = "update" /\ CanUpdate(ir, cmd[c].copy) /\ Write(Sent(c), c)
    <3>1. Sent(c) \in Object
      BY <2>1, Pieces
    <3>2. ir'.live = Sent(c).live /\ ir'.other = Sent(c).other
      BY <2>1, <2>5, <3>1, NextVersionFacts DEF Write
    <3> QED BY <2>5, <3>2, UpToDate
  <2>6. cmd[c].at # "create"
    BY <2>1 DEF CommandInv
  <2> QED BY <2>2, <2>3, <2>4, <2>5, <2>6
          DEF Run, CallFails, Start, Starts, Get, Update, Validate, Create, NoWrite
<1> QED BY <1>1, Invariance, PTL DEF Spec, OnlyTheFlag
=============================================================================
