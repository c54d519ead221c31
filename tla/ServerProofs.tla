---------------------------- MODULE ServerProofs ----------------------------
(***************************************************************************)
(* What Server promises, for every set of collections, columns, logins and *)
(* identities.  The database and the throttle share no variable but pc and *)
(* are proved about apart.                                                 *)
(***************************************************************************)
EXTENDS Server, FiniteSetTheorems, TLAPS

USE ServerAssumption

\* What the steps of the logins and of the streams leave alone.
store == <<cols, coll, param, pc, secret, wrote, torn>>
logins == <<fails, cool, guesses, att>>

\* Nothing has been written to the rules of a collection, by anybody.
Clean(c) == coll[c].rules = NoRules /\ wrote[c] = NotWritten

(* Where a start is in migrate_rules.  While a column is missing no rule can *)
(* have been written, so that the seeding UPDATEs overwrite nothing.         *)
Phase ==
  /\ \A c \in Names : c \notin DOMAIN coll => wrote[c] = NotWritten
  /\ cols < Len(Columns) \/ pc = "base" => \A c \in DOMAIN coll : Clean(c)
  /\ pc = "auth" => \A c \in DOMAIN coll :
       /\ wrote[c] = NotWritten
       /\ coll[c].rules = IF coll[c].ty = "base" THEN Defaults("base") ELSE NoRules
  /\ pc = "alter" => cols < Len(Columns)
  /\ pc \in {"base", "auth"} => cols = Len(Columns)
  /\ pc \in {"secret", "serving", "draining"} => cols > 0
  /\ ~torn /\ pc # "alter" => cols \in {0, Len(Columns)}

\* The process serves with the key of the database.
Keyed == secret # None => secret = param

Rest == AdminRulesStay /\ SeededWhole
StoreInv == StoreTypeOK /\ Phase /\ Keyed /\ Rest

LEMMA ColumnsAreIndexed == Index = 1 .. Len(Columns) /\ Len(Columns) \in Nat
  BY DEF Index

LEMMA DefaultIsRule ==
  ASSUME NEW ty \in Types, NEW i \in Index
  PROVE  Default(ty, i) \in Rules
  BY DEF Default, Rules, Types

LEMMA StoreInit == Init => StoreInv
<1> SUFFICES ASSUME Init PROVE StoreInv
  OBVIOUS
<1> USE ColumnsAreIndexed
<1>1. PICK old \in SUBSET Names, ty \in [Names -> Types] :
        coll = [c \in old |-> [ty |-> ty[c], rules |-> NoRules]]
  BY DEF Init
<1>2. DOMAIN coll \subseteq Names /\ \A c \in DOMAIN coll : Clean(c) /\ coll[c].ty \in Types
  BY <1>1 DEF Init, Clean
<1>6. StoreTypeOK
  <2>1. \A c \in DOMAIN coll : coll[c] \in [ty : Types, rules : [Index -> Rules]]
    BY <1>1, NoRules \in [Index -> Rules] DEF NoRules, Rules
  <2>2. wrote \in [Names -> [Index -> Edits \cup {Unset}]]
    BY DEF Init, NotWritten
  <2>3. /\ cols = 0 /\ param = None /\ secret = None /\ pc = "off" /\ torn = FALSE
        /\ 0 \in 0 .. Len(Columns)
    BY DEF Init
  <2> QED
    BY <1>2, <2>1, <2>2, <2>3 DEF StoreTypeOK
<1>3. Phase
  <2>1. /\ cols = 0 /\ pc = "off"
        /\ \A c \in Names : wrote[c] = NotWritten
    BY DEF Init
  <2> QED
    BY <1>2, <2>1 DEF Phase
<1>4. AdminRulesStay
  BY <1>2 DEF AdminRulesStay, Clean, NoRules, NotWritten
<1>5. SeededWhole
  BY <1>2 DEF Init, SeededWhole, Serving, Clean, NoRules, NotWritten
<1> QED
  BY <1>6, <1>3, <1>4, <1>5 DEF Init, Keyed, StoreInv, Rest

-----------------------------------------------------------------------------
(* Steps that keep wrote, and of coll what Clean says. *)

LEMMA Rested ==
  ASSUME StoreInv, UNCHANGED <<store>>
  PROVE  StoreInv'
  BY DEF StoreInv, StoreTypeOK, Phase, Keyed, Rest, AdminRulesStay, SeededWhole, Clean,
         Serving, store

LEMMA StartKeeps ==
  ASSUME StoreInv, Start
  PROVE  StoreInv'
  BY DEF Start, Goto, StoreInv, StoreTypeOK, Phase, Keyed, Rest, AdminRulesStay, SeededWhole,
         Clean, Serving, database

LEMMA SeedUsersKeeps ==
  ASSUME StoreInv, SeedUsers
  PROVE  StoreInv'
<1> USE DEF SeedUsers, Goto, StoreInv
<1> DEFINE row == [ty |-> "auth", rules |-> NoRules]
<1>1. CASE "users" \in DOMAIN coll
  BY <1>1 DEF StoreTypeOK, Phase, Keyed, Rest, AdminRulesStay, SeededWhole, Clean, Serving
<1>2. CASE "users" \notin DOMAIN coll
  <2>1. /\ DOMAIN coll' = DOMAIN coll \cup {"users"}
        /\ coll'["users"] = row
        /\ \A c \in DOMAIN coll : coll'[c] = coll[c]
    BY <1>2 DEF With
  <2>2. wrote["users"] = NotWritten
    BY <1>2 DEF Phase
  <2>3. row \in [ty : Types, rules : [Index -> Rules]]
    BY DEF Types, NoRules, Rules
  <2>4. StoreTypeOK'
    BY <2>1, <2>3 DEF StoreTypeOK
  <2>5. Phase'
    BY <2>1, <2>2, row.rules = NoRules DEF Phase, Clean
  <2>6. AdminRulesStay'
    BY <2>1, <2>2 DEF Rest, AdminRulesStay, NoRules, NotWritten
  <2>7. SeededWhole'
    BY <2>1, <2>2 DEF Rest, SeededWhole, NoRules, NotWritten, Serving
  <2> QED
    BY <2>4, <2>5, <2>6, <2>7 DEF Rest, Keyed
<1> QED
  BY <1>1, <1>2

LEMMA CheckKeeps ==
  ASSUME StoreInv, Check
  PROVE  StoreInv'
<1> USE ColumnsAreIndexed DEF Check, Goto, database, StoreInv
<1>1. StoreTypeOK'
  BY DEF StoreTypeOK
<1>2. Phase'
  BY DEF Phase, Clean, StoreTypeOK
<1>3. AdminRulesStay' /\ SeededWhole'
  BY DEF AdminRulesStay, SeededWhole, Serving, Rest
<1> QED
  BY <1>1, <1>2, <1>3 DEF Rest, Keyed

LEMMA AlterKeeps ==
  ASSUME StoreInv, Alter
  PROVE  StoreInv'
<1> USE ColumnsAreIndexed DEF Alter, Goto, StoreInv
<1>0. cols \in 0 .. Len(Columns) /\ cols < Len(Columns) /\ pc = "alter"
  BY DEF Phase, StoreTypeOK
<1>1. StoreTypeOK'
  BY <1>0 DEF StoreTypeOK
<1>2. Phase'
  BY <1>0 DEF Phase, Clean
<1>3. AdminRulesStay' /\ SeededWhole'
  BY <1>0 DEF AdminRulesStay, SeededWhole, Serving, Rest
<1> QED
  BY <1>1, <1>2, <1>3 DEF Rest, Keyed

LEMMA SecretKeeps ==
  ASSUME StoreInv, Secret
  PROVE  StoreInv'
<1> USE ColumnsAreIndexed DEF Secret, StoreInv
<1>1. StoreTypeOK'
  BY DEF StoreTypeOK
<1>2. Phase'
  BY DEF Phase, Clean
<1>3. ~torn => cols = Len(Columns)
  BY DEF Phase
<1>4. AdminRulesStay' /\ SeededWhole'
  BY <1>3 DEF AdminRulesStay, SeededWhole, Rest
<1> QED
  BY <1>1, <1>2, <1>4 DEF Rest, Keyed

LEMMA SeedBaseKeeps ==
  ASSUME StoreInv, SeedBase
  PROVE  StoreInv'
<1>1. /\ pc = "base" /\ pc' = "auth" /\ cols = Len(Columns)
      /\ UNCHANGED <<cols, param, secret, torn, wrote>>
  BY DEF SeedBase, SeedRules, Goto, StoreInv, Phase
<1>2. /\ DOMAIN coll' = DOMAIN coll
      /\ \A c \in DOMAIN coll :
           /\ c \in Names
           /\ wrote[c] = NotWritten
           /\ coll'[c] \in [ty : Types, rules : [Index -> Rules]]
           /\ coll'[c].rules = IF coll'[c].ty = "base" THEN Defaults("base") ELSE NoRules
  <2>1. Defaults("base") \in [Index -> Rules] /\ NoRules \in [Index -> Rules]
    BY DefaultIsRule DEF Defaults, NoRules, Rules, Types
  <2>2. \A c \in DOMAIN coll : c \in Names /\ Clean(c)
    BY <1>1 DEF StoreInv, Phase, StoreTypeOK
  <2> QED
    BY <2>1, <2>2 DEF SeedBase, SeedRules, Clean, StoreInv, StoreTypeOK
<1>3. \A c \in DOMAIN coll, i \in Index :
        /\ wrote[c][i] = Unset
        /\ coll'[c].rules[i] = IF coll'[c].ty = "base" THEN Default(coll'[c].ty, i) ELSE Null
  <2>1. \A i \in Index : /\ NotWritten[i] = Unset /\ NoRules[i] = Null
                          /\ Defaults("base")[i] = Default("base", i)
    BY DEF Defaults, NoRules, NotWritten
  <2> QED
    BY <1>2, <2>1
<1>4. StoreTypeOK'
  BY <1>1, <1>2 DEF StoreInv, StoreTypeOK
<1>5. Phase'
  BY <1>1, <1>2, ColumnsAreIndexed DEF StoreInv, Phase
<1>6. AdminRulesStay'
  BY <1>1, <1>2, <1>3 DEF AdminRulesStay
<1>7. SeededWhole'
  BY <1>1, <1>2, <1>3 DEF SeededWhole, Serving
<1> QED
  BY <1>1, <1>4, <1>5, <1>6, <1>7 DEF StoreInv, Rest, Keyed

LEMMA SeedAuthKeeps ==
  ASSUME StoreInv, SeedAuth
  PROVE  StoreInv'
<1>1. /\ pc = "auth" /\ pc' = "secret" /\ cols = Len(Columns)
      /\ UNCHANGED <<cols, param, secret, torn, wrote>>
  BY DEF SeedAuth, SeedRules, Goto, StoreInv, Phase
<1>2. /\ DOMAIN coll' = DOMAIN coll
      /\ \A c \in DOMAIN coll :
           /\ c \in Names
           /\ wrote[c] = NotWritten
           /\ coll'[c] \in [ty : Types, rules : [Index -> Rules]]
           /\ coll'[c].rules = Defaults(coll'[c].ty)
  <2>1. \A ty \in Types : Defaults(ty) \in [Index -> Rules]
    BY DefaultIsRule DEF Defaults
  <2>2. \A c \in DOMAIN coll :
          /\ c \in Names /\ wrote[c] = NotWritten
          /\ coll[c] \in [ty : Types, rules : [Index -> Rules]]
          /\ coll[c].ty = "base" => coll[c].rules = Defaults("base")
    BY <1>1 DEF StoreInv, Phase, StoreTypeOK
  <2>3. DOMAIN coll' = DOMAIN coll
    BY DEF SeedAuth, SeedRules
  <2>4. ASSUME NEW c \in DOMAIN coll
        PROVE  /\ coll'[c] \in [ty : Types, rules : [Index -> Rules]]
               /\ coll'[c].rules = Defaults(coll'[c].ty)
    <3>1. coll[c].ty = "base" \/ coll[c].ty = "auth"
      BY <2>2 DEF Types
    <3>2. coll'[c] = IF coll[c].ty = "auth" THEN [coll[c] EXCEPT !.rules = Defaults("auth")]
                     ELSE coll[c]
      BY DEF SeedAuth, SeedRules
    <3> QED
      BY <2>1, <2>2, <3>1, <3>2 DEF Types
  <2> QED
    BY <2>2, <2>3, <2>4
<1>3. \A c \in DOMAIN coll, i \in Index :
        wrote[c][i] = Unset /\ coll'[c].rules[i] = Default(coll'[c].ty, i)
  <2>1. \A i \in Index : /\ NotWritten[i] = Unset
                          /\ \A ty \in Types : Defaults(ty)[i] = Default(ty, i)
    BY DEF Defaults, NotWritten
  <2> QED
    BY <1>2, <2>1
<1>4. StoreTypeOK'
  BY <1>1, <1>2 DEF StoreInv, StoreTypeOK
<1>5. Phase'
  BY <1>1, ColumnsAreIndexed, <1>2 DEF StoreInv, Phase
<1>6. AdminRulesStay'
  BY <1>1, <1>2, <1>3 DEF AdminRulesStay
<1>7. SeededWhole'
  BY <1>1, <1>2, <1>3 DEF SeededWhole, Serving
<1> QED
  BY <1>1, <1>4, <1>5, <1>6, <1>7 DEF StoreInv, Rest, Keyed

LEMMA GoneKeeps ==
  ASSUME StoreInv, Gone, UNCHANGED <<database, wrote>>,
         \/ torn' = torn /\ pc = "draining"
         \/ torn' = (torn \/ pc \in {"alter", "base", "auth"})
  PROVE  StoreInv'
<1> USE ColumnsAreIndexed DEF Gone, database, StoreInv
<1>1. StoreTypeOK'
  BY DEF StoreTypeOK
<1>2. Phase'
  BY DEF Phase, Clean, StoreTypeOK
<1>3. AdminRulesStay' /\ SeededWhole'
  BY DEF AdminRulesStay, SeededWhole, Serving, Rest
<1> QED
  BY <1>1, <1>2, <1>3 DEF Rest, Keyed

LEMMA EditRuleKeeps ==
  ASSUME StoreInv, NEW c \in Names, NEW i \in Index, EditRule(c, i)
  PROVE  StoreInv'
<1> USE DEF StoreInv
<1>1. PICK v \in Edits : /\ coll' = [coll EXCEPT ![c].rules[i] = v]
                         /\ wrote' = [wrote EXCEPT ![c][i] = v]
  BY DEF EditRule
<1>2. /\ UNCHANGED <<cols, param, pc, secret, torn>>
      /\ Serving /\ c \in DOMAIN coll /\ cols = Len(Columns)
  BY DEF EditRule, AdminStep, Readable
<1>3. /\ DOMAIN coll' = DOMAIN coll
      /\ \A d \in DOMAIN coll :
           /\ coll'[d].ty = coll[d].ty
           /\ coll'[d] \in [ty : Types, rules : [Index -> Rules]]
           /\ \A j \in Index :
                coll'[d].rules[j] = IF d = c /\ j = i THEN v ELSE coll[d].rules[j]
  BY <1>1, <1>2 DEF StoreTypeOK, Rules
<1>4. /\ wrote' \in [Names -> [Index -> Edits \cup {Unset}]]
      /\ \A d \in Names : d # c => wrote'[d] = wrote[d]
      /\ \A d \in Names, j \in Index :
           wrote'[d][j] = IF d = c /\ j = i THEN v ELSE wrote[d][j]
  BY <1>1 DEF StoreTypeOK
<1>5. StoreTypeOK'
  BY <1>2, <1>3, <1>4 DEF StoreTypeOK
<1>6. Phase'
  <2>1. \A d \in Names : d \notin DOMAIN coll' => wrote'[d] = NotWritten
    BY <1>2, <1>3, <1>4 DEF Phase
  <2>2. cols' = Len(Columns) /\ pc' \in {"serving", "draining"} /\ cols' > 0
    BY <1>2 DEF Serving
  <2> QED
    BY <2>1, <2>2, ColumnsAreIndexed DEF Phase
<1>7. AdminRulesStay'
  BY <1>2, <1>3, <1>4, DOMAIN coll \subseteq Names DEF Rest, AdminRulesStay, StoreTypeOK
<1>8. SeededWhole'
  <2>1. \A d \in DOMAIN coll, j \in Index :
          wrote'[d][j] = Unset => /\ wrote[d][j] = Unset
                                  /\ coll'[d].rules[j] = coll[d].rules[j]
    BY <1>3, <1>4 DEF StoreTypeOK
  <2> QED
    BY <1>2, <1>3, <2>1 DEF Rest, SeededWhole, Serving
<1> QED
  BY <1>2, <1>5, <1>6, <1>7, <1>8 DEF Rest, Keyed

LEMMA CreateKeeps ==
  ASSUME StoreInv, NEW c \in Names, CreateCollection(c)
  PROVE  StoreInv'
<1> USE DEF StoreInv
<1>1. PICK ty \in Types, over \in [Index -> Edits \cup {Unset}] :
        /\ coll' = With(coll, c, [ty |-> ty,
                     rules |-> [i \in Index |-> IF over[i] = Unset THEN Default(ty, i)
                                                ELSE over[i]]])
        /\ wrote' = [wrote EXCEPT ![c] = over]
  BY DEF CreateCollection
<1>2. /\ UNCHANGED <<cols, param, pc, secret, torn>>
      /\ Serving /\ c \notin DOMAIN coll /\ cols = Len(Columns)
  BY DEF CreateCollection, AdminStep
<1> DEFINE row == [ty |-> ty, rules |-> [i \in Index |-> IF over[i] = Unset THEN Default(ty, i)
                                                         ELSE over[i]]]
<1>3. /\ DOMAIN coll' = DOMAIN coll \cup {c}
      /\ coll'[c] = row
      /\ \A d \in DOMAIN coll : coll'[d] = coll[d]
  BY <1>1, <1>2 DEF With
<1>4. row \in [ty : Types, rules : [Index -> Rules]]
  BY DefaultIsRule DEF Rules
<1>5. /\ wrote' \in [Names -> [Index -> Edits \cup {Unset}]]
      /\ wrote'[c] = over
      /\ \A d \in Names : d # c => wrote'[d] = wrote[d]
  BY <1>1 DEF StoreTypeOK
<1>6. StoreTypeOK'
  BY <1>2, <1>3, <1>4, <1>5 DEF StoreTypeOK
<1>7. Phase'
  BY <1>2, <1>3, <1>5, ColumnsAreIndexed DEF Phase, Serving
<1>8. AdminRulesStay'
  BY <1>2, <1>3, <1>5, DOMAIN coll \subseteq Names DEF Rest, AdminRulesStay, StoreTypeOK
<1>9. SeededWhole'
  <2>1. \A i \in Index : wrote'[c][i] = Unset => coll'[c].rules[i] = Default(coll'[c].ty, i)
    BY <1>3, <1>5
  <2>2. \A d \in DOMAIN coll : wrote'[d] = wrote[d] /\ coll'[d] = coll[d]
    BY <1>2, <1>3, <1>5 DEF StoreTypeOK
  <2> QED
    BY <1>2, <1>3, <2>1, <2>2 DEF Rest, SeededWhole, Serving
<1> QED
  BY <1>2, <1>6, <1>7, <1>8, <1>9 DEF Rest, Keyed

LEMMA DropKeeps ==
  ASSUME StoreInv, NEW c \in Names, DropCollection(c)
  PROVE  StoreInv'
<1> USE DEF StoreInv
<1>1. /\ UNCHANGED <<cols, param, pc, secret, torn>>
      /\ Serving /\ c \in DOMAIN coll
  BY DEF DropCollection, AdminStep
<1>2. /\ DOMAIN coll' = DOMAIN coll \ {c}
      /\ \A d \in DOMAIN coll' : coll'[d] = coll[d]
  BY DEF DropCollection, Without
<1>3. /\ wrote' \in [Names -> [Index -> Edits \cup {Unset}]]
      /\ wrote'[c] = NotWritten
      /\ \A d \in Names : d # c => wrote'[d] = wrote[d]
  BY DEF DropCollection, StoreTypeOK, NotWritten
<1>4. StoreTypeOK'
  BY <1>1, <1>2, <1>3 DEF StoreTypeOK
<1>5. \A d \in DOMAIN coll' : d \in DOMAIN coll /\ wrote'[d] = wrote[d]
  BY <1>2, <1>3 DEF StoreTypeOK
<1>6. Phase'
  BY <1>1, <1>2, <1>3, <1>5 DEF Phase, Serving, Clean
<1>7. AdminRulesStay'
  BY <1>2, <1>5 DEF Rest, AdminRulesStay
<1>8. SeededWhole'
  BY <1>1, <1>2, <1>5 DEF Rest, SeededWhole, Serving
<1> QED
  BY <1>1, <1>4, <1>6, <1>7, <1>8 DEF Rest, Keyed

LEMMA StoreStep == StoreInv /\ [Next]_vars => StoreInv'
<1> SUFFICES ASSUME StoreInv, [Next]_vars PROVE StoreInv'
  OBVIOUS
<1>1. CASE Start
  BY <1>1, StartKeeps
<1>2. CASE Boot
  BY <1>2, SeedUsersKeeps, CheckKeeps, AlterKeeps, SeedBaseKeeps, SeedAuthKeeps, SecretKeeps
  DEF Boot
<1>3. CASE Crash \/ Exit
  BY <1>3, GoneKeeps DEF Crash, Exit, database
<1>4. CASE Signal
  BY <1>4, ColumnsAreIndexed DEF Signal, Goto, database, StoreInv, StoreTypeOK, Phase, Keyed, Rest,
     AdminRulesStay, SeededWhole, Clean, Serving
<1>5. ASSUME NEW c \in Names, CreateCollection(c) \/ DropCollection(c)
              \/ \E i \in Index : EditRule(c, i)
      PROVE  StoreInv'
  BY <1>5, CreateKeeps, DropKeeps, EditRuleKeeps
<1>6. CASE Subscribe \/ Leave \/ UNCHANGED vars
  BY <1>6, Rested DEF Subscribe, Leave, vars, store, database
<1>7. ASSUME NEW a \in Attempts, Arrive(a) \/ Handle(a)
      PROVE  StoreInv'
  BY <1>7, Rested DEF Arrive, Handle, Refuse, Admit, Verify, Reject, Accept, Respond,
     LoginStep, store, database
<1>8. ASSUME NEW k \in Identities, Wait(k)
      PROVE  StoreInv'
  BY <1>8, Rested DEF Wait, LoginStep, store, database
<1> QED
  BY <1>1, <1>2, <1>3, <1>4, <1>5, <1>6, <1>7, <1>8 DEF Next

\* What an admin wrote stays, through every later start, until an admin
\* writes it again or drops the collection.
THEOREM RulesStay == Spec => []AdminRulesStay
<1>1. StoreInv => AdminRulesStay
  BY DEF StoreInv, Rest
<1> QED
  BY StoreInit, StoreStep, <1>1, PTL DEF Spec

\* No crash leaves a collection half open, and only one inside migrate_rules
\* leaves a server that cannot read its collections.
THEOREM SeedingIsWhole == Spec => []SeededWhole
<1>1. StoreInv => SeededWhole
  BY DEF StoreInv, Rest
<1> QED
  BY StoreInit, StoreStep, <1>1, PTL DEF Spec

\* The key of the session tokens, once stored, is the key of every process.
THEOREM KeyIsStable == Spec => TokensOutliveRestarts
<1> DEFINE KeyStep == /\ secret' # None => param' = secret'
                      /\ secret # None => param' = secret
                      /\ param # None => param' = param
<1>1. StoreInv /\ StoreInv' /\ [Next]_vars => [KeyStep]_vars
  <2> SUFFICES ASSUME StoreInv, StoreInv', [Next]_vars, vars' # vars
               PROVE  KeyStep
    OBVIOUS
  <2>1. param # None => param' = param
    BY DEF Next, Start, Boot, SeedUsers, Check, Alter, SeedBase, SeedAuth, SeedRules, Secret,
       Crash, Exit, Signal, CreateCollection, DropCollection, EditRule, AdminStep, Subscribe,
       Leave, Arrive, Handle, Refuse, Admit, Verify, Reject, Accept, Respond, Wait, LoginStep,
       Goto, Gone, database, vars
  <2> QED
    BY <2>1 DEF StoreInv, Keyed
<1> QED
  BY StoreInit, StoreStep, <1>1, PTL DEF Spec, TokensOutliveRestarts

-----------------------------------------------------------------------------
(* The throttle. *)

Failed(k) == {a \in Attempts : att[a].pc = "failed" /\ att[a].id = k}
Pending(k) == {a \in Attempts : att[a].pc \in {"admitted", "failed"} /\ att[a].id = k}

(* A compared password is counted in fails or about to be; and the check lets *)
(* an attempt in only below MaxFails, when at most all the others are pending. *)
Counted(k) ==
  /\ guesses[k] = fails[k] + Cardinality(Failed(k))
  /\ fails[k] + Cardinality(Pending(k)) < MaxFails + Cardinality(Attempts)

LoginInv == LoginTypeOK /\ \A k \in Identities : Counted(k)

LEMMA Cards ==
  ASSUME NEW S \in SUBSET Attempts
  PROVE  /\ Cardinality(S) \in Nat /\ Cardinality(Attempts) \in Nat
         /\ Cardinality(S) <= Cardinality(Attempts)
         /\ \A a \in Attempts : a \notin S => Cardinality(S \cup {a}) = Cardinality(S) + 1
         /\ \A a \in S : Cardinality(S \ {a}) = Cardinality(S) - 1
<1>1. IsFiniteSet(S) /\ Cardinality(S) <= Cardinality(Attempts)
  BY FS_Subset
<1>2. Cardinality(S) \in Nat /\ Cardinality(Attempts) \in Nat
  BY <1>1, FS_CardinalityType
<1>3. \A a \in Attempts : a \notin S => Cardinality(S \cup {a}) = Cardinality(S) + 1
  BY <1>1, FS_AddElement
<1>4. \A a \in S : Cardinality(S \ {a}) = Cardinality(S) - 1
  BY <1>1, FS_RemoveElement
<1> QED
  BY <1>1, <1>2, <1>3, <1>4

LEMMA LoginCards ==
  ASSUME NEW k \in Identities
  PROVE  /\ Failed(k) \subseteq Pending(k) /\ Pending(k) \subseteq Attempts
         /\ Cardinality(Failed(k)) \in Nat /\ Cardinality(Pending(k)) \in Nat
         /\ Cardinality(Failed(k)) <= Cardinality(Pending(k))
         /\ Cardinality(Pending(k)) <= Cardinality(Attempts)
         /\ Uncounted(k) = Cardinality(Failed(k))
<1>1. Failed(k) \subseteq Pending(k) /\ Pending(k) \subseteq Attempts
  BY DEF Failed, Pending
<1>2. Cardinality(Failed(k)) <= Cardinality(Pending(k))
  BY <1>1, FS_Subset
<1> QED
  BY <1>1, <1>2, Cards DEF Uncounted, Failed

\* The throttle has forgotten k: what is pending is all there is.
LEMMA Forgotten ==
  ASSUME NEW k \in Identities, fails[k] = 0, guesses[k] = Cardinality(Failed(k))
  PROVE  Counted(k)
<1>1. Cardinality(Attempts) \in Nat
  BY FS_CardinalityType
<1> QED
  BY <1>1, LoginCards DEF Counted

LEMMA LoginInit == Init => LoginInv
<1> SUFFICES ASSUME Init PROVE LoginInv
  OBVIOUS
<1>1. LoginTypeOK
  BY DEF Init, LoginTypeOK, Idle
<1>2. ASSUME NEW k \in Identities PROVE Counted(k)
  <2>1. Failed(k) = {} /\ fails[k] = 0 /\ guesses[k] = 0
    BY DEF Init, Failed, Idle
  <2> QED
    BY <2>1, Forgotten, FS_EmptySet
<1> QED
  BY <1>1, <1>2 DEF LoginInv

LEMMA LoginRested ==
  ASSUME LoginInv, UNCHANGED <<logins>>
  PROVE  LoginInv'
<1>1. \A k \in Identities : Failed(k)' = Failed(k) /\ Pending(k)' = Pending(k)
  BY DEF logins, Failed, Pending
<1> QED
  BY <1>1 DEF LoginInv, LoginTypeOK, Counted, logins

LEMMA LoginGone ==
  ASSUME LoginInv, Gone
  PROVE  LoginInv'
<1>1. LoginTypeOK'
  BY DEF Gone, LoginInv, LoginTypeOK, Idle
<1>2. ASSUME NEW k \in Identities PROVE Counted(k)'
  <2>1. Failed(k)' = {} /\ Pending(k)' = {} /\ fails'[k] = 0 /\ guesses'[k] = 0
    BY DEF Gone, Failed, Pending, Idle
  <2>2. Cardinality(Attempts) \in Nat
    BY FS_CardinalityType
  <2> QED
    BY <2>1, <2>2, FS_EmptySet DEF Counted
<1> QED
  BY <1>1, <1>2 DEF LoginInv

\* A step of a handler that neither begins nor ends a comparison.
LEMMA LoginAside ==
  ASSUME LoginInv, NEW a \in Attempts, UNCHANGED throttle,
         LoginTypeOK',
         \A b \in Attempts \ {a} : att'[b] = att[b],
         att[a].pc \notin {"admitted", "failed"}, att'[a].pc \notin {"admitted", "failed"}
  PROVE  LoginInv'
<1>1. \A k \in Identities : Failed(k)' = Failed(k) /\ Pending(k)' = Pending(k)
  BY DEF Failed, Pending
<1> QED
  BY <1>1 DEF LoginInv, Counted, throttle

LEMMA ArriveKeeps ==
  ASSUME LoginInv, NEW a \in Attempts, Arrive(a)
  PROVE  LoginInv'
<1>1. PICK k \in Identities : att' = [att EXCEPT ![a] = [pc |-> "arrived", id |-> k]]
  BY DEF Arrive
<1>2. UNCHANGED throttle /\ att[a].pc = "idle"
  BY DEF Arrive
<1>3. LoginTypeOK'
  BY <1>1, <1>2 DEF LoginInv, LoginTypeOK, throttle
<1>4. att'[a].pc = "arrived" /\ \A b \in Attempts \ {a} : att'[b] = att[b]
  BY <1>1 DEF LoginInv, LoginTypeOK
<1> QED
  BY <1>2, <1>3, <1>4, LoginAside

\* What Moves does.
LEMMA MovesType ==
  ASSUME LoginTypeOK, NEW a \in Attempts, att[a].pc # "idle",
         NEW to \in {"refused", "admitted", "matched", "failed", "answered"}, Moves(a, to)
  PROVE  /\ att' \in [Attempts -> [pc : {"idle", "arrived", "refused", "admitted", "matched",
                                         "failed", "answered"},
                                   id : Identities \cup {None}]]
         /\ \A b \in Attempts : att'[b].pc # "idle" => att'[b].id \in Identities
         /\ att[a].id \in Identities
         /\ att'[a].pc = to /\ att'[a].id = att[a].id
         /\ \A b \in Attempts \ {a} : att'[b] = att[b]
  BY DEF LoginTypeOK, Moves

LEMMA RefuseKeeps ==
  ASSUME LoginInv, NEW a \in Attempts, Refuse(a)
  PROVE  LoginInv'
<1>1. att[a].pc = "arrived" /\ Moves(a, "refused") /\ UNCHANGED throttle
  BY DEF Refuse
<1>2. LoginTypeOK'
  BY <1>1, MovesType DEF LoginInv, LoginTypeOK, throttle
<1> QED
  BY <1>1, <1>2, MovesType, LoginAside DEF LoginInv

LEMMA RespondKeeps ==
  ASSUME LoginInv, NEW a \in Attempts, Respond(a)
  PROVE  LoginInv'
<1>1. /\ att[a].pc \in {"refused", "answered"} /\ att' = [att EXCEPT ![a] = Idle]
      /\ UNCHANGED throttle
  BY DEF Respond
<1>2. LoginTypeOK'
  BY <1>1 DEF LoginInv, LoginTypeOK, throttle, Idle
<1>3. att'[a].pc = "idle" /\ \A b \in Attempts \ {a} : att'[b] = att[b]
  BY <1>1 DEF LoginInv, LoginTypeOK, Idle
<1> QED
  BY <1>1, <1>2, <1>3, LoginAside

LEMMA AdmitKeeps ==
  ASSUME LoginInv, NEW a \in Attempts, Admit(a)
  PROVE  LoginInv'
<1>0. PICK k \in Identities : k = att[a].id
  BY DEF Admit, LoginInv, LoginTypeOK
<1>1. att[a].pc = "arrived" /\ Moves(a, "admitted")
  BY DEF Admit
<1>2. /\ \/ ~Locked(k) /\ UNCHANGED throttle
         \/ Forget(k) /\ guesses' = [guesses EXCEPT ![k] = Uncounted(k)]
  BY <1>0 DEF Admit
<1>3. k = att[a].id /\ LoginTypeOK
  BY <1>0 DEF LoginInv
<1>4. Uncounted(k) \in Nat
  BY <1>3, LoginCards
<1>5. LoginTypeOK'
  <2>1. /\ fails' \in [Identities -> Nat] /\ cool' \in [Identities -> BOOLEAN]
        /\ guesses' \in [Identities -> Nat]
    <3>1. CASE UNCHANGED throttle
      BY <1>3, <3>1 DEF LoginTypeOK, throttle
    <3>2. CASE Forget(k) /\ guesses' = [guesses EXCEPT ![k] = Uncounted(k)]
      BY <1>3, <1>4, <3>2 DEF LoginTypeOK, Forget
    <3> QED
      BY <1>2, <3>1, <3>2
  <2> QED
    BY <2>1, <1>1, <1>3, MovesType DEF LoginTypeOK
<1>6. \A j \in Identities : Failed(j)' = Failed(j)
  BY <1>1, <1>3, MovesType DEF Failed
<1>7. \A j \in Identities : j # k => Pending(j)' = Pending(j)
  BY <1>1, <1>3, MovesType DEF Pending
<1>8. ASSUME NEW j \in Identities, j # k PROVE Counted(j)'
  <2>1. fails'[j] = fails[j] /\ guesses'[j] = guesses[j]
    BY <1>2, <1>3, <1>8 DEF throttle, Forget, LoginTypeOK
  <2> QED
    BY <1>6, <1>7, <1>8, <2>1 DEF LoginInv, Counted
<1>9. Counted(k)'
  <2>1. Cardinality(Pending(k)') <= Cardinality(Attempts) /\ Cardinality(Pending(k)') \in Nat
        /\ Cardinality(Attempts) \in Nat
    BY Cards, Pending(k)' \subseteq Attempts DEF Pending
  <2>2. CASE ~Locked(k) /\ UNCHANGED throttle
    BY <1>3, <1>6, <2>1, <2>2 DEF LoginInv, LoginTypeOK, Counted, Locked, throttle
  <2>3. CASE Forget(k) /\ guesses' = [guesses EXCEPT ![k] = Uncounted(k)]
    <3>1. fails'[k] = 0 /\ guesses'[k] = Cardinality(Failed(k))
      BY <1>3, <2>3, LoginCards DEF Forget, LoginTypeOK
    <3>2. Cardinality(Failed(k)) \in Nat
      BY <1>3, LoginCards
    <3> QED
      BY <1>3, <1>6, <2>1, <3>1, <3>2 DEF Counted
  <2> QED
    BY <1>2, <2>2, <2>3
<1> QED
  BY <1>5, <1>8, <1>9 DEF LoginInv

LEMMA VerifyKeeps ==
  ASSUME LoginInv, NEW a \in Attempts, Verify(a)
  PROVE  LoginInv'
<1>0. PICK k \in Identities : k = att[a].id
  BY DEF Verify, LoginInv, LoginTypeOK
<1>1. att[a].pc = "admitted" /\ LoginTypeOK
  BY DEF Verify, LoginInv
<1>2. ASSUME NEW to \in {"answered", "matched"}, Moves(a, to), UNCHANGED throttle
      PROVE  LoginInv'
  <2>1. att'[a].pc = to /\ \A b \in Attempts \ {a} : att'[b] = att[b]
    BY <1>1, <1>2, MovesType
  <2>2. LoginTypeOK'
    BY <1>1, <1>2, MovesType DEF LoginTypeOK, throttle
  <2>3. ASSUME NEW j \in Identities PROVE Counted(j)'
    <3>1. Failed(j)' = Failed(j) /\ Pending(j)' \subseteq Pending(j)
      BY <1>1, <2>1 DEF Failed, Pending
    <3>2. Cardinality(Pending(j)') <= Cardinality(Pending(j)) /\ Cardinality(Pending(j)') \in Nat
      BY <3>1, FS_Subset, FS_CardinalityType, IsFiniteSet(Pending(j)), LoginCards, Cards
      DEF Pending
    <3> QED
      BY <1>1, <1>2, <3>1, <3>2, LoginCards, FS_CardinalityType, SMTT(30)
      DEF LoginInv, Counted, throttle, LoginTypeOK
  <2> QED
    BY <2>2, <2>3 DEF LoginInv
<1>3. ASSUME Moves(a, "failed"), guesses' = [guesses EXCEPT ![k] = @ + 1],
             UNCHANGED <<fails, cool>>
      PROVE  LoginInv'
  <2>1. /\ att'[a].pc = "failed" /\ att'[a].id = k
        /\ \A b \in Attempts \ {a} : att'[b] = att[b]
    BY <1>0, <1>1, <1>3, MovesType
  <2>2. LoginTypeOK'
    BY <1>1, <1>3, MovesType DEF LoginTypeOK
  <2>3. ASSUME NEW j \in Identities PROVE Counted(j)'
    <3>1. Pending(j)' = Pending(j)
      BY <1>0, <1>1, <2>1 DEF Pending
    <3>2. Failed(j)' = IF j = k THEN Failed(j) \cup {a} ELSE Failed(j)
      BY <1>1, <2>1 DEF Failed
    <3>3. a \notin Failed(j) /\ Failed(j) \subseteq Attempts
      BY <1>1 DEF Failed
    <3>4. Cardinality(Failed(j)') = Cardinality(Failed(j)) + (IF j = k THEN 1 ELSE 0)
      BY <3>2, <3>3, Cards
    <3> QED
      BY <1>1, <1>3, <3>1, <3>4, LoginCards DEF LoginInv, Counted, LoginTypeOK
  <2> QED
    BY <2>2, <2>3 DEF LoginInv
<1> QED
  BY <1>0, <1>2, <1>3 DEF Verify

\* One comparison fewer to be counted, one failure more that is.
LEMMA MovedCount ==
  ASSUME NEW f \in Nat, NEW m \in Nat, NEW p \in Nat, NEW bound \in Nat,
         f + p < bound
  PROVE  f + m = (f + 1) + (m - 1) /\ (f + 1) + (p - 1) < bound
OBVIOUS

LEMMA RejectKeeps ==
  ASSUME LoginInv, NEW a \in Attempts, Reject(a)
  PROVE  LoginInv'
<1>0. PICK k \in Identities : k = att[a].id
  BY DEF Reject, LoginInv, LoginTypeOK
<1>1. att[a].pc = "failed" /\ LoginTypeOK /\ Moves(a, "answered")
  BY DEF Reject, LoginInv
<1>2. /\ fails' = [fails EXCEPT ![k] = @ + 1] /\ cool' = [cool EXCEPT ![k] = FALSE]
      /\ UNCHANGED guesses
  BY <1>0 DEF Reject, Slot
<1>3. att'[a].pc = "answered" /\ \A b \in Attempts \ {a} : att'[b] = att[b]
  BY <1>1, MovesType
<1>4. LoginTypeOK'
  BY <1>1, <1>2, MovesType DEF LoginTypeOK
<1>5. ASSUME NEW j \in Identities PROVE Counted(j)'
  <2>1. CASE j # k
    <3>1. Failed(j)' = Failed(j) /\ Pending(j)' = Pending(j)
      BY <1>0, <1>3, <2>1 DEF Failed, Pending
    <3> QED
      BY <1>1, <1>2, <2>1, <3>1 DEF LoginInv, Counted, LoginTypeOK
  <2>2. CASE j = k
    <3>1. Failed(j)' = Failed(j) \ {a} /\ Pending(j)' = Pending(j) \ {a}
      BY <1>3 DEF Failed, Pending
    <3>2. a \in Failed(j) /\ a \in Pending(j) /\ Pending(j) \subseteq Attempts
      BY <1>0, <1>1, <2>2 DEF Failed, Pending
    <3>3. /\ Cardinality(Failed(j)') = Cardinality(Failed(j)) - 1
          /\ Cardinality(Pending(j)') = Cardinality(Pending(j)) - 1
      BY <3>1, <3>2, Cards, LoginCards
    <3>4. Cardinality(Attempts) \in Nat
      BY FS_CardinalityType
    <3> QED
      <4>1. fails'[j] = fails[j] + 1 /\ guesses'[j] = guesses[j] /\ fails[j] \in Nat
        BY <1>1, <1>2, <2>2 DEF LoginTypeOK
      <4> QED
        <5>1. /\ guesses[j] = fails[j] + Cardinality(Failed(j))
              /\ fails[j] + Cardinality(Pending(j)) < MaxFails + Cardinality(Attempts)
              /\ Cardinality(Failed(j)) \in Nat /\ Cardinality(Pending(j)) \in Nat
          BY LoginCards DEF LoginInv, Counted
        <5>2. MaxFails + Cardinality(Attempts) \in Nat
          BY <3>4, ServerAssumption
        <5>3. /\ fails[j] + Cardinality(Failed(j))
                   = (fails[j] + 1) + (Cardinality(Failed(j)) - 1)
              /\ (fails[j] + 1) + (Cardinality(Pending(j)) - 1)
                   < MaxFails + Cardinality(Attempts)
          BY <4>1, <5>1, <5>2, MovedCount
        <5>4. /\ guesses'[j] = fails'[j] + Cardinality(Failed(j)')
              /\ fails'[j] + Cardinality(Pending(j)') < MaxFails + Cardinality(Attempts)
          BY <3>3, <4>1, <5>1, <5>3
        <5> QED
          BY <5>4 DEF Counted
  <2> QED
    BY <2>1, <2>2
<1> QED
  BY <1>4, <1>5 DEF LoginInv

LEMMA AcceptKeeps ==
  ASSUME LoginInv, NEW a \in Attempts, Accept(a)
  PROVE  LoginInv'
<1>0. PICK k \in Identities : k = att[a].id
  BY DEF Accept, LoginInv, LoginTypeOK
<1>1. att[a].pc = "matched" /\ LoginTypeOK /\ Moves(a, "answered")
  BY DEF Accept, LoginInv
<1>2. Forget(k) /\ guesses' = [guesses EXCEPT ![k] = Uncounted(k)]
  BY <1>0 DEF Accept, Slot
<1>3. att'[a].pc = "answered" /\ \A b \in Attempts \ {a} : att'[b] = att[b]
  BY <1>1, MovesType
<1>4. LoginTypeOK'
  <2>1. Uncounted(k) \in Nat
    BY LoginCards
  <2>2. /\ fails' \in [Identities -> Nat] /\ cool' \in [Identities -> BOOLEAN]
        /\ guesses' \in [Identities -> Nat]
    BY <1>1, <1>2, <2>1 DEF LoginTypeOK, Forget
  <2> QED
    BY <1>1, <2>2, MovesType DEF LoginTypeOK
<1>5. ASSUME NEW j \in Identities PROVE Counted(j)'
  <2>1. Failed(j)' = Failed(j) /\ Pending(j)' = Pending(j)
    BY <1>1, <1>3 DEF Failed, Pending
  <2>2. CASE j # k
    BY <1>1, <1>2, <2>1, <2>2 DEF LoginInv, Counted, LoginTypeOK, Forget
  <2>3. CASE j = k
    <3>1. fails'[j] = 0 /\ guesses'[j] = Cardinality(Failed(j))
      BY <1>1, <1>2, <2>3, LoginCards DEF Forget, LoginTypeOK
    <3>2. Cardinality(Attempts) \in Nat
      BY FS_CardinalityType
    <3> QED
      BY <2>1, <3>1, <3>2, LoginCards DEF Counted
  <2> QED
    BY <2>2, <2>3
<1> QED
  BY <1>4, <1>5 DEF LoginInv

LEMMA WaitKeeps ==
  ASSUME LoginInv, NEW k \in Identities, Wait(k)
  PROVE  LoginInv'
<1>1. UNCHANGED <<fails, guesses, att>> /\ cool' = [cool EXCEPT ![k] = TRUE]
  BY DEF Wait
<1>2. \A j \in Identities : Failed(j)' = Failed(j) /\ Pending(j)' = Pending(j)
  BY <1>1 DEF Failed, Pending
<1> QED
  BY <1>1, <1>2 DEF LoginInv, LoginTypeOK, Counted

LEMMA LoginStepKeeps == LoginInv /\ [Next]_vars => LoginInv'
<1> SUFFICES ASSUME LoginInv, [Next]_vars PROVE LoginInv'
  OBVIOUS
<1>1. CASE Start \/ Boot \/ Signal
  BY <1>1, LoginRested DEF Start, Boot, SeedUsers, Check, Alter, SeedBase, SeedAuth, SeedRules,
     Secret, Signal, Goto, throttle, logins
<1>2. CASE Crash \/ Exit
  BY <1>2, LoginGone DEF Crash, Exit
<1>3. CASE Subscribe \/ Leave \/ UNCHANGED vars
  BY <1>3, LoginRested DEF Subscribe, Leave, vars, logins, throttle
<1>4. ASSUME NEW c \in Names, CreateCollection(c) \/ DropCollection(c)
              \/ \E i \in Index : EditRule(c, i)
      PROVE  LoginInv'
  BY <1>4, LoginRested DEF CreateCollection, DropCollection, EditRule, AdminStep, throttle, logins
<1>5. ASSUME NEW a \in Attempts, Arrive(a) \/ Handle(a)
      PROVE  LoginInv'
  BY <1>5, ArriveKeeps, RefuseKeeps, AdmitKeeps, VerifyKeeps, RejectKeeps, AcceptKeeps,
     RespondKeeps DEF Handle
<1> QED
  BY <1>1, <1>2, <1>3, <1>4, <1>5, WaitKeeps DEF Next

\* The variables keep their types.
THEOREM TypeCorrect == Spec => []TypeOK
<1> DEFINE Inv == StoreInv /\ LoginInv /\ stream \in BOOLEAN
<1>1. Init => Inv
  BY StoreInit, LoginInit DEF Init
<1>2. Inv /\ [Next]_vars => Inv'
  <2>1. stream \in BOOLEAN /\ [Next]_vars => stream' \in BOOLEAN
    BY DEF Next, Start, Boot, SeedUsers, Check, Alter, SeedBase, SeedAuth, SeedRules, Secret,
       Crash, Exit, Signal, CreateCollection, DropCollection, EditRule, AdminStep, Subscribe,
       Leave, Arrive, Handle, Refuse, Admit, Verify, Reject, Accept, Respond, Wait, LoginStep,
       Goto, Gone, vars
  <2> QED
    BY <2>1, StoreStep, LoginStepKeeps
<1>3. Inv => TypeOK
  BY DEF StoreInv, LoginInv, TypeOK
<1> QED
  BY <1>1, <1>2, <1>3, PTL DEF Spec

\* Between two times that the throttle forgets an identity, no more wrong
\* passwords are compared than MaxFails - 1 and the logins there can be at once.
THEOREM FewGuesses == Spec => []GuessesBounded
<1>1. LoginInv => GuessesBounded
  <2> SUFFICES ASSUME LoginInv, NEW k \in Identities
               PROVE  guesses[k] < MaxFails + Cardinality(Attempts)
    BY DEF GuessesBounded
  <2>1. Cardinality(Attempts) \in Nat
    BY FS_CardinalityType
  <2> QED
    BY <2>1, LoginCards DEF LoginInv, LoginTypeOK, Counted
<1> QED
  BY LoginInit, LoginStepKeeps, <1>1, PTL DEF Spec

\* Nobody is locked out by failures of another identity.
THEOREM OwnFailures == Spec => RefusedForOwnFailures
<1> DEFINE RefuseStep == \A a \in Attempts :
      att'[a].pc = "refused" /\ att[a].pc # "refused" => guesses[att[a].id] >= MaxFails
<1>1. LoginInv /\ [Next]_vars => [RefuseStep]_vars
  <2> SUFFICES ASSUME LoginInv, [Next]_vars, vars' # vars, NEW a \in Attempts,
                      att'[a].pc = "refused", att[a].pc # "refused"
               PROVE  guesses[att[a].id] >= MaxFails
    OBVIOUS
  <2>1. Refuse(a)
    <3>1. ASSUME NEW b \in Attempts, Arrive(b) \/ Handle(b) PROVE Refuse(a)
      BY <3>1 DEF Arrive, Handle, Refuse, Admit, Verify, Reject, Accept, Respond, Moves, Idle,
         LoginInv, LoginTypeOK
    <3> QED
      BY <3>1 DEF Next, Start, Boot, SeedUsers, Check, Alter, SeedBase, SeedAuth, SeedRules,
         Secret, Crash, Exit, Signal, CreateCollection, DropCollection, EditRule, AdminStep,
         Subscribe, Leave, Wait, Goto, Gone, Idle, vars
  <2>2. att[a].id \in Identities /\ fails[att[a].id] >= MaxFails
    BY <2>1 DEF Refuse, Locked, LoginInv, LoginTypeOK
  <2> QED
    BY <2>2, LoginCards DEF LoginInv, LoginTypeOK, Counted
<1> QED
  BY LoginInit, LoginStepKeeps, <1>1, PTL DEF Spec, RefusedForOwnFailures
=============================================================================
