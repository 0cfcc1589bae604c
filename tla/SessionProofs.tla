----------------------------- MODULE SessionProofs -----------------------------
(* What the session is started with, and what /command has set in it. *)
EXTENDS Session, TLAPS

Packs == UNION {[D -> BOOLEAN \cup Int] : D \in SUBSET Names}

Places == {"none", "loop", "set", "copying", "done"}

\* The types that the proofs need.
SettingTypes ==
    /\ config \in Configs
    /\ packSettings \in Packs /\ DOMAIN executed = Modes
    /\ settings \in Packs /\ DOMAIN settings = Names
    /\ at \in [Requests -> Places]
    /\ query \in [Requests -> Queries \cup {NoQuery}]
    /\ i \in [Requests -> Nat \ {0}]
    /\ copy \in [Requests -> Packs]
    /\ posted \in Seq(Packs)
    /\ \A r \in Requests : at[r] = "set" => IsBool(r) \/ IsNumber(r)

-----------------------------------------------------------------------------
(* Packs *)

\* A pack set over another is a pack of both their names, in which the new one counts.
LEMMA OverIsPack ==
    ASSUME NEW new \in Packs, NEW old \in Packs
    PROVE  /\ Over(new, old) \in Packs
           /\ DOMAIN Over(new, old) = DOMAIN new \cup DOMAIN old
           /\ \A n \in DOMAIN new : Over(new, old)[n] = new[n]
           /\ \A n \in DOMAIN old \ DOMAIN new : Over(new, old)[n] = old[n]
<1>1. PICK D \in SUBSET Names : new \in [D -> BOOLEAN \cup Int]
  BY DEF Packs
<1>2. PICK E \in SUBSET Names : old \in [E -> BOOLEAN \cup Int]
  BY DEF Packs
<1>3. Over(new, old) \in [D \cup E -> BOOLEAN \cup Int]
  BY <1>1, <1>2 DEF Over
<1>4. D \cup E \in SUBSET Names
  BY <1>1, <1>2
<1>5. Over(new, old) \in Packs
  BY <1>3, <1>4 DEF Packs
<1> QED BY <1>1, <1>2, <1>5 DEF Over

\* Any values for any names are a pack.
LEMMA PackOf ==
    ASSUME NEW D \in SUBSET Names, NEW f \in [D -> BOOLEAN \cup Int]
    PROVE  f \in Packs
BY DEF Packs

\* A pack has no other names than those of settings.
LEMMA PackNames == \A p \in Packs : DOMAIN p \subseteq Names
BY DEF Packs

\* Settings that know every name still do when a pack is applied.
LEMMA AppliedKeepsNames ==
    ASSUME NEW new \in Packs, NEW old \in Packs, DOMAIN old = Names
    PROVE  Over(new, old) \in Packs /\ DOMAIN Over(new, old) = Names
<1>1. DOMAIN Over(new, old) = DOMAIN new \cup DOMAIN old /\ Over(new, old) \in Packs
  BY OverIsPack
<1> QED BY <1>1, PackNames

\* The empty pack is one.
LEMMA NothingIsPack == Nothing \in Packs /\ DOMAIN Nothing = {}
<1>1. Nothing \in [{} -> BOOLEAN \cup Int] /\ {} \in SUBSET Names
  BY DEF Nothing
<1> QED BY <1>1, PackOf

\* libtorrent's own settings are one.
LEMMA DefaultsIsPack == Defaults \in Packs
<1>1. /\ Defaults = [n \in DOMAIN Defaults |-> Defaults[n]]
      /\ \A n \in DOMAIN Defaults : Defaults[n] \in BOOLEAN \cup Int
  BY SessionAssumption DEF SessionAssumption, IsPack
<1>2. Defaults \in [DOMAIN Defaults -> BOOLEAN \cup Int]
  BY <1>1
<1>3. DOMAIN Defaults \in SUBSET Names
  BY SessionAssumption DEF SessionAssumption, IsPack
<1> QED BY <1>2, <1>3, PackOf

\* The pack of startSession, which has every service switched off.
LEMMA StartIsPack ==
    ASSUME config \in Configs
    PROVE  StartPack \in Packs /\ \A s \in Services : s \in DOMAIN StartPack /\ StartPack[s] = FALSE
<1>1. ServicesOff \in Packs /\ DOMAIN ServicesOff = Services /\ \A s \in Services : ServicesOff[s] = FALSE
  <2>1. Services \in SUBSET Names
    BY SessionAssumption DEF SessionAssumption
  <2>2. ServicesOff \in [Services -> BOOLEAN \cup Int]
    BY DEF ServicesOff
  <2> QED BY <2>1, <2>2, PackOf DEF ServicesOff
<1>2. ASSUME NEW name \in {"download_rate_limit", "upload_rate_limit"}, NEW rate \in Int
      PROVE  RateLimit(name, rate) \in Packs
  <2>1. {name} \in SUBSET Names
    BY SessionAssumption DEF SessionAssumption
  <2>2. [n \in {name} |-> rate * 1024] \in [{name} -> BOOLEAN \cup Int]
    OBVIOUS
  <2>3. [n \in {name} |-> rate * 1024] \in Packs
    BY <2>1, <2>2, PackOf
  <2> QED BY <2>3, NothingIsPack DEF RateLimit
<1>3. config.maxDownloadRate \in Int /\ config.maxUploadRate \in Int
  BY SessionAssumption DEF SessionAssumption
<1>4. Choker \in Packs
  <2>1. {"choking_algorithm"} \in SUBSET Names /\ Bittyrant \in Int /\ FixedSlots \in Int
    BY SessionAssumption DEF SessionAssumption
  <2>2. Choker \in [{"choking_algorithm"} -> BOOLEAN \cup Int]
    BY <2>1 DEF Choker
  <2> QED BY <2>1, <2>2, PackOf
<1>5. Encryption \in Packs
  <2> DEFINE N == {"out_enc_policy", "in_enc_policy", "allowed_enc_level", "prefer_rc4"}
  <2>1. N \in SUBSET Names
        /\ {PeForced, PeEnabled, PeDisabled, PeRc4, PeBoth} \subseteq Int
    BY SessionAssumption DEF SessionAssumption
  <2>2. Encryption \in [N -> BOOLEAN \cup Int]
    BY <2>1 DEF Encryption
  <2> QED BY <2>1, <2>2, PackOf
<1> DEFINE down == RateLimit("download_rate_limit", config.maxDownloadRate)
           up   == RateLimit("upload_rate_limit", config.maxUploadRate)
<1>6. down \in Packs /\ up \in Packs
  BY <1>2, <1>3
<1> HIDE DEF down, up
<1>7. Over(Choker, Encryption) \in Packs
  BY <1>4, <1>5, OverIsPack
<1>8. Over(up, Over(Choker, Encryption)) \in Packs
  BY <1>6, <1>7, OverIsPack
<1>9. Over(down, Over(up, Over(Choker, Encryption))) \in Packs
  BY <1>6, <1>8, OverIsPack
<1>10. StartPack = Over(ServicesOff, Over(down, Over(up, Over(Choker, Encryption))))
  BY DEF StartPack, down, up
<1> QED BY <1>1, <1>9, <1>10, OverIsPack

\* The services of the options, switched on, are one.
LEMMA ServicesArePack ==
    ASSUME config \in Configs
    PROVE  [s \in config.services |-> TRUE] \in Packs
<1>1. config.services \in SUBSET Names
  BY SessionAssumption DEF SessionAssumption
<1>2. [s \in config.services |-> TRUE] \in [config.services -> BOOLEAN \cup Int]
  OBVIOUS
<1> QED BY <1>1, <1>2, PackOf

\* What one call sets.
LEMMA ToSetIsPack ==
    ASSUME NEW r \in Requests, IsBool(r) \/ IsNumber(r)
    PROVE  ToSet(r) \in Packs
<1>1. CASE ToSet(r) = Nothing
  BY <1>1, NothingIsPack
<1>2. CASE Name(r) \in Names /\ Kind[Name(r)] = Mode(r)
  <2> DEFINE v == IF IsBool(r) THEN Text(r) = "true" ELSE Number[Text(r)]
  <2>1. v \in BOOLEAN \cup Int
    <3>1. CASE IsBool(r)
      BY <3>1
    <3>2. CASE ~IsBool(r)
      BY <3>2, SessionAssumption DEF SessionAssumption, IsNumber
    <3> QED BY <3>1, <3>2
  <2>2. ToSet(r) = [n \in {Name(r)} |-> v]
    BY <1>2 DEF ToSet, Pair, Value
  <2> HIDE DEF v
  <2>3. [n \in {Name(r)} |-> v] \in [{Name(r)} -> BOOLEAN \cup Int]
    BY <2>1
  <2> QED BY <1>2, <2>2, <2>3, PackOf
<1> QED BY <1>1, <1>2 DEF ToSet

-----------------------------------------------------------------------------
(* Types *)

\* The initial values have their types.
LEMMA InitTypes == Init => SettingTypes
<1> SUFFICES ASSUME Init PROVE SettingTypes
  OBVIOUS
<1>1. packSettings \in Packs /\ settings \in Packs /\ DOMAIN executed = Modes
      /\ copy \in [Requests -> Packs]
  BY NothingIsPack, DefaultsIsPack DEF Init
<1>2. DOMAIN settings = Names
  BY SessionAssumption DEF SessionAssumption, Init
<1> QED BY <1>1, <1>2 DEF Init, SettingTypes, Places

\* The steps of one request.
LEMMA HandlerTypes ==
    ASSUME SettingTypes, NEW r \in Requests, ComandHandler(r)
    PROVE  SettingTypes'
<1>1. CASE Ask(r)
  BY <1>1 DEF SettingTypes, Ask, Places, ltVars, history, IsBool, IsNumber, Text
<1>2. CASE Call(r)
  BY <1>2 DEF SettingTypes, Call, Places, ltVars, history, IsBool, IsNumber, Text
<1>3. CASE PassOver(r)
  <2>1. \A o \in Requests : at[o] = "set" => o # r
    BY <1>3 DEF PassOver
  <2>2. i' \in [Requests -> Nat \ {0}]
    BY <1>3 DEF PassOver, SettingTypes
  <2>3. \A o \in Requests : at'[o] = "set" => (IsBool(o) \/ IsNumber(o))'
    BY <1>3, <2>1 DEF PassOver, SettingTypes, IsBool, IsNumber, Text
  <2> QED BY <1>3, <2>2, <2>3 DEF SettingTypes, PassOver, ltVars, history
<1>4. CASE SetSetting(r)
  <2>1. ToSet(r) \in Packs
    BY <1>4, ToSetIsPack DEF SetSetting, SettingTypes
  <2>2. packSettings' \in Packs /\ DOMAIN executed' = Modes
    BY <1>4, <2>1, OverIsPack DEF SetSetting, Answer, SettingTypes
  <2>3. \A c \in Requests : Over(ToSet(r), copy[c]) \in Packs /\ copy[c] \in Packs
    BY <2>1, OverIsPack DEF SettingTypes
  <2>4. copy' \in [Requests -> Packs]
    BY <1>4, <2>3 DEF SetSetting
  <2>5. at' \in [Requests -> Places] /\ i' \in [Requests -> Nat \ {0}]
    BY <1>4 DEF SetSetting, SettingTypes, Places
  <2>6. \A o \in Requests : at'[o] = "set" => (IsBool(o) \/ IsNumber(o))'
    BY <1>4 DEF SetSetting, SettingTypes, IsBool, IsNumber, Text
  <2> QED BY <1>4, <2>2, <2>4, <2>5, <2>6 DEF SettingTypes, SetSetting, ltVars
<1>5. CASE ApplySettings(r)
  BY <1>5 DEF SettingTypes, ApplySettings, Places, ltVars, history, IsBool, IsNumber, Text
<1>6. CASE Post(r)
  <2>1. posted' \in Seq(Packs) /\ copy' \in [Requests -> Packs]
    BY <1>6, NothingIsPack DEF Post, SettingTypes
  <2> QED BY <1>6, <2>1 DEF SettingTypes, Post, Places, IsBool, IsNumber, Text
<1>7. CASE Corrupt(r)
  BY <1>7 DEF SettingTypes, Corrupt, requestVars, ltVars, history, IsBool, IsNumber, Text
<1> QED BY <1>1, <1>2, <1>3, <1>4, <1>5, <1>6, <1>7 DEF ComandHandler

\* Every step keeps the types.
LEMMA TypesStep == SettingTypes /\ [Next]_vars => SettingTypes'
<1> SUFFICES ASSUME SettingTypes, [Next]_vars PROVE SettingTypes'
  OBVIOUS
<1> USE DEF requestVars, ltVars, history, IsBool, IsNumber, Text
<1>1. CASE StartSession
  <2>1. packSettings' \in Packs
    BY <1>1, StartIsPack DEF StartSession, SettingTypes
  <2>2. settings' \in Packs /\ DOMAIN settings' = Names
    <3>1. settings' \in {settings, Over(packSettings', settings)}
      BY <1>1 DEF StartSession
    <3> QED BY <2>1, <3>1, AppliedKeepsNames DEF SettingTypes
  <2> QED BY <1>1, <2>1, <2>2 DEF StartSession, SettingTypes
<1>2. CASE StartServices
  <2>1. packSettings' \in Packs
    BY <1>2, ServicesArePack, OverIsPack DEF StartServices, SettingTypes
  <2>2. posted' \in Seq(Packs)
    BY <1>2, <2>1 DEF StartServices, SettingTypes
  <2> QED BY <1>2, <2>1, <2>2 DEF StartServices, SettingTypes
<1>3. CASE AddTorrent
  BY <1>3 DEF AddTorrent, SettingTypes
<1>4. CASE \E r \in Requests : ComandHandler(r)
  BY <1>4, HandlerTypes
<1>5. CASE ApplyPack
  <2>1. Head(posted) \in Packs /\ posted' \in Seq(Packs)
    BY <1>5 DEF ApplyPack, SettingTypes
  <2>2. settings' \in Packs /\ DOMAIN settings' = Names
    <3>1. settings' = Over(Head(posted), settings)
      BY <1>5 DEF ApplyPack
    <3> QED BY <2>1, <3>1, AppliedKeepsNames DEF SettingTypes
  <2> QED BY <1>5, <2>1, <2>2 DEF ApplyPack, SettingTypes
<1>6. CASE UNCHANGED vars
  BY <1>6 DEF vars, SettingTypes
<1> QED BY <1>1, <1>2, <1>3, <1>4, <1>5, <1>6 DEF Next, Main

-----------------------------------------------------------------------------
(* The start *)

StartInv ==
    tiers = << >> \/ tiers = [n \in 1..config.trackers |-> Tier(config.trackers, n - 1)]

\* Every step keeps what main has set up.
LEMMA StartStep == SettingTypes /\ StartInv /\ [Next]_vars => StartInv'
<1> SUFFICES ASSUME SettingTypes, StartInv, [Next]_vars PROVE StartInv'
  OBVIOUS
<1>1. CASE StartSession
  BY <1>1 DEF StartSession, StartInv
<1>2. CASE StartServices
  BY <1>2 DEF StartServices, StartInv
<1>3. CASE AddTorrent
  BY <1>3 DEF AddTorrent, StartInv
<1>4. ASSUME NEW r \in Requests, ComandHandler(r)
      PROVE  StartInv'
  <2>1. UNCHANGED <<config, tiers>>
    BY <1>4 DEF ComandHandler, Ask, Call, PassOver, SetSetting, ApplySettings, Post, Corrupt,
                ltVars
  <2> QED BY <2>1 DEF StartInv
<1>5. CASE ApplyPack
  BY <1>5 DEF ApplyPack, StartInv
<1>6. CASE UNCHANGED vars
  BY <1>6 DEF vars, ltVars, StartInv
<1> QED BY <1>1, <1>2, <1>3, <1>4, <1>5, <1>6 DEF Next, Main

\* What main has set up stays as it is.
LEMMA StartIsInv == Spec => [](SettingTypes /\ StartInv)
<1>1. Init => StartInv
  BY DEF Init, StartInv
<1> QED BY <1>1, InitTypes, TypesStep, StartStep, PTL DEF Spec

\* However many -trackers there are up to the values of a byte, their tiers are in
\* order and the last one is the highest (addTorrent).
THEOREM TrackersKeepOrder == Spec => []TiersInOrder
<1>1. SettingTypes /\ StartInv => TiersInOrder
  <2> SUFFICES ASSUME SettingTypes, StartInv, tiers # << >>, Len(tiers) <= ByteValues
               PROVE  /\ \A k, l \in DOMAIN tiers : k < l => tiers[k] < tiers[l]
                      /\ tiers[Len(tiers)] = ByteValues - 1
    BY DEF TiersInOrder
  <2> DEFINE t == config.trackers
  <2>1. t \in Nat /\ ByteValues \in Nat \ {0}
    BY SessionAssumption DEF SessionAssumption, SettingTypes
  <2>2. tiers = [n \in 1..t |-> Tier(t, n - 1)]
    BY DEF StartInv
  <2> HIDE DEF t
  <2>3. Len(tiers) = t /\ DOMAIN tiers = 1..t /\ t <= ByteValues
    BY <2>1, <2>2
  <2>4. \A n \in 1..t : tiers[n] = ByteValues - t + n - 1
    <3>1. ASSUME NEW n \in 1..t
          PROVE  tiers[n] = ByteValues - t + n - 1
      <4>1. tiers[n] = (ByteValues - t + (n - 1)) % ByteValues
        BY <2>2 DEF Tier
      <4>2. ByteValues - t + (n - 1) \in 0..(ByteValues - 1)
        BY <2>1, <2>3
      <4>3. \A x \in 0..(ByteValues - 1) : x % ByteValues = x
        BY <2>1
      <4> QED BY <4>1, <4>2, <4>3, <2>1
    <3> QED BY <3>1
  <2>5. t # 0
    BY <2>2, <2>3
  <2> QED BY <2>1, <2>3, <2>4, <2>5
<1> QED BY <1>1, StartIsInv, PTL

-----------------------------------------------------------------------------
(* What /command has answered *)

\* A pack has what was answered of the names and kinds that libtorrent knows.
Agrees(p) ==
    \A n \in Names :
        n \in DOMAIN executed[Kind[n]] => n \in DOMAIN p /\ p[n] = executed[Kind[n]][n]

NothingAnswered == \A mode \in Modes : DOMAIN executed[mode] = {}

\* The pack that the session's settings come from when all that is posted has been
\* applied.
Newest == IF posted = << >> THEN settings ELSE posted[Len(posted)]

\* A request that is not known to be served at the same time as another is alone.
RacedKnown == \A r \in Active \ raced : \A o \in Active : o = r

LoneInv ==
    /\ pc \in {"start", "services", "torrent"} => \A r \in Requests : at[r] = "none"
    /\ RacedKnown
    /\ \A r \in Requests \ raced : at[r] = "copying" => copy[r] = packSettings
    /\ Agrees(packSettings)
    /\ (\A r \in Requests : at[r] = "none") => NothingAnswered
    /\ last = "main" => \A r \in Requests : at[r] # "done"
    /\ Active = {} /\ last \notin raced => Agrees(Newest)

\* The places of a request that is being served.
LEMMA ActiveIs ==
    ASSUME SettingTypes
    PROVE  Active = {r \in Requests : at[r] \in {"loop", "set", "copying"}}
BY DEF Active, SettingTypes, Places

\* Before main serves, nothing was executed.
LEMMA LoneMain ==
    ASSUME SettingTypes, LoneInv, Main
    PROVE  LoneInv'
<1>1. UNCHANGED <<at, copy, executed, raced, last>>
  BY DEF Main, StartSession, StartServices, AddTorrent, requestVars, history
<1>2. \A r \in Requests : at[r] = "none"
  BY DEF LoneInv, Main, StartSession, StartServices, AddTorrent
<1>3. NothingAnswered /\ NothingAnswered'
  BY <1>1, <1>2 DEF LoneInv, NothingAnswered
<1>4. Active' = {}
  BY <1>1, <1>2 DEF Active
<1>5. RacedKnown'
  BY <1>4 DEF RacedKnown
<1>6. Agrees(packSettings)' /\ Agrees(Newest)'
  BY <1>3, SessionAssumption DEF SessionAssumption, Agrees, NothingAnswered
<1> QED BY <1>1, <1>2, <1>3, <1>5, <1>6 DEF LoneInv

\* A step of a request keeps what was answered, unless another is served meanwhile.
LEMMA LoneHandler ==
    ASSUME SettingTypes, LoneInv, NEW r \in Requests, ComandHandler(r)
    PROVE  LoneInv'
<1> USE DEF requestVars, ltVars, history
<1>1. SettingTypes'
  BY HandlerTypes
<1>2. /\ Active = {o \in Requests : at[o] \in {"loop", "set", "copying"}}
      /\ Active' = {o \in Requests : at'[o] \in {"loop", "set", "copying"}}
      /\ at \in [Requests -> Places]
  <2>1. Active' = {o \in Requests : at'[o] \notin {"none", "done"}}
    BY DEF Active
  <2> QED BY <1>1, <2>1, ActiveIs DEF SettingTypes, Places
<1>3. CASE Ask(r)
  <2>1. /\ at' = [at EXCEPT ![r] = "loop"]
        /\ raced' = raced \cup (IF Active = {} THEN {} ELSE Active \cup {r})
        /\ UNCHANGED <<pc, packSettings, copy, settings, posted, executed, last>>
        /\ pc = "serving" /\ at[r] = "none"
    BY <1>3 DEF Ask
  <2>2. Active' = Active \cup {r} /\ r \notin Active
    BY <1>2, <2>1
  <2>3. RacedKnown'
    BY <2>1, <2>2 DEF RacedKnown
  <2>4. \A o \in Requests \ raced' : at'[o] = "copying" => copy'[o] = packSettings'
    BY <1>2, <2>1 DEF LoneInv
  <2>5. Agrees(packSettings)'
    BY <2>1 DEF LoneInv, Agrees
  <2>6. at'[r] = "loop" /\ (last' = "main" => \A o \in Requests : at'[o] # "done")
    BY <1>2, <2>1 DEF LoneInv
  <2> QED BY <2>1, <2>2, <2>3, <2>4, <2>5, <2>6 DEF LoneInv
<1>4. CASE Call(r) \/ PassOver(r)
  <2>1. /\ at' \in {at, [at EXCEPT ![r] = "set"]}
        /\ UNCHANGED <<pc, packSettings, copy, settings, posted, executed, raced, last>>
        /\ at[r] = "loop"
    BY <1>4 DEF Call, PassOver
  <2>2. Active' = Active /\ r \in Active
    BY <1>2, <2>1
  <2>3. RacedKnown'
    BY <2>1, <2>2 DEF RacedKnown, LoneInv
  <2>4. \A o \in Requests \ raced' : at'[o] = "copying" => copy'[o] = packSettings'
    BY <1>2, <2>1 DEF LoneInv
  <2>5. Agrees(packSettings)'
    BY <2>1 DEF LoneInv, Agrees
  <2>6. /\ at'[r] # "none" /\ (last' = "main" => \A o \in Requests : at'[o] # "done")
        /\ pc \notin {"start", "services", "torrent"}
    BY <1>2, <2>1 DEF LoneInv
  <2> QED BY <2>1, <2>2, <2>3, <2>4, <2>5, <2>6 DEF LoneInv
<1>5. CASE SetSetting(r)
  <2>1. /\ at' = [at EXCEPT ![r] = "loop"] /\ at[r] = "set"
        /\ packSettings' = Over(ToSet(r), packSettings)
        /\ Answer(r)
        /\ UNCHANGED <<pc, settings, posted, raced, last>>
    BY <1>5 DEF SetSetting
  <2>2. Active' = Active /\ r \in Active
    BY <1>2, <2>1
  <2>3. RacedKnown'
    BY <2>1, <2>2 DEF RacedKnown, LoneInv
  <2>4. ASSUME NEW o \in Requests \ raced', at'[o] = "copying"
        PROVE  FALSE
    <3>1. o \in Active \ raced /\ o # r
      BY <1>2, <2>1, <2>4
    <3> QED BY <2>2, <3>1 DEF LoneInv, RacedKnown
  <2>5. Agrees(packSettings)'
    <3>1. ToSet(r) \in Packs
      BY <2>1, ToSetIsPack DEF SettingTypes
    <3>2. /\ DOMAIN packSettings' = DOMAIN ToSet(r) \cup DOMAIN packSettings
          /\ \A n \in DOMAIN ToSet(r) : packSettings'[n] = ToSet(r)[n]
          /\ \A n \in DOMAIN packSettings \ DOMAIN ToSet(r) : packSettings'[n] = packSettings[n]
      <4>1. packSettings \in Packs /\ packSettings' = Over(ToSet(r), packSettings)
        BY <2>1 DEF SettingTypes
      <4> QED BY ONLY <4>1, <3>1, OverIsPack
    <3>3. /\ Mode(r) \in Modes
          /\ DOMAIN executed'[Mode(r)] = {Name(r)} \cup DOMAIN executed[Mode(r)]
          /\ executed'[Mode(r)][Name(r)] = Value(r)
          /\ \A n \in DOMAIN executed[Mode(r)] \ {Name(r)} :
                executed'[Mode(r)][n] = executed[Mode(r)][n]
          /\ \A mode \in Modes \ {Mode(r)} : executed'[mode] = executed[mode]
      BY <2>1 DEF SettingTypes, Answer, Pair, Over, Mode, Modes
    <3>4. Agrees(packSettings)
      BY DEF LoneInv
    <3> SUFFICES ASSUME NEW n \in Names, n \in DOMAIN executed'[Kind[n]]
                 PROVE  n \in DOMAIN packSettings' /\ packSettings'[n] = executed'[Kind[n]][n]
      BY DEF Agrees
    <3>5. Kind[n] \in Modes
      BY SessionAssumption DEF SessionAssumption
    <3>6. CASE n = Name(r) /\ Kind[n] = Mode(r)
      <4>1. DOMAIN ToSet(r) = {n} /\ ToSet(r)[n] = Value(r)
        BY <3>6 DEF ToSet, Pair
      <4> QED BY <3>2, <3>3, <3>6, <4>1
    <3>7. CASE ~(n = Name(r) /\ Kind[n] = Mode(r))
      <4>1. n \notin DOMAIN ToSet(r)
        BY <3>7, NothingIsPack DEF ToSet, Pair
      <4>2. n \in DOMAIN executed[Kind[n]] /\ executed'[Kind[n]][n] = executed[Kind[n]][n]
        BY <3>3, <3>5, <3>7
      <4> QED BY <3>2, <3>4, <4>1, <4>2 DEF Agrees
    <3> QED BY <3>6, <3>7
  <2>6. /\ at'[r] # "none" /\ (last' = "main" => \A o \in Requests : at'[o] # "done")
        /\ pc \notin {"start", "services", "torrent"}
    BY <1>2, <2>1 DEF LoneInv
  <2> QED BY <2>1, <2>2, <2>3, <2>4, <2>5, <2>6 DEF LoneInv
<1>6. CASE ApplySettings(r)
  <2>1. /\ at' = [at EXCEPT ![r] = "copying"] /\ at[r] = "loop"
        /\ copy' = [copy EXCEPT ![r] = packSettings]
        /\ UNCHANGED <<pc, packSettings, settings, posted, executed, raced, last>>
    BY <1>6 DEF ApplySettings
  <2>2. Active' = Active /\ r \in Active
    BY <1>2, <2>1
  <2>3. RacedKnown'
    BY <2>1, <2>2 DEF RacedKnown, LoneInv
  <2>4. \A o \in Requests \ raced' : at'[o] = "copying" => copy'[o] = packSettings'
    BY <1>2, <2>1 DEF LoneInv, SettingTypes
  <2>5. Agrees(packSettings)'
    BY <2>1 DEF LoneInv, Agrees
  <2>6. /\ at'[r] # "none" /\ (last' = "main" => \A o \in Requests : at'[o] # "done")
        /\ pc \notin {"start", "services", "torrent"}
    BY <1>2, <2>1 DEF LoneInv
  <2> QED BY <2>1, <2>2, <2>3, <2>4, <2>5, <2>6 DEF LoneInv
<1>7. CASE Post(r)
  <2>1. /\ at' = [at EXCEPT ![r] = "done"] /\ at[r] = "copying"
        /\ posted' = Append(posted, copy[r])
        /\ copy' = [copy EXCEPT ![r] = Nothing]
        /\ last' = r
        /\ UNCHANGED <<pc, packSettings, executed, raced>>
    BY <1>7 DEF Post
  <2>2. Active' = Active \ {r}
    BY <1>2, <2>1
  <2>3. RacedKnown'
    BY <2>1, <2>2 DEF RacedKnown, LoneInv
  <2>4. \A o \in Requests \ raced' : at'[o] = "copying" => copy'[o] = packSettings'
    BY <1>2, <2>1 DEF LoneInv, SettingTypes
  <2>5. Agrees(packSettings)'
    BY <2>1 DEF LoneInv, Agrees
  <2>6. /\ at'[r] # "none" /\ last' # "main"
        /\ pc \notin {"start", "services", "torrent"}
    BY <1>2, <2>1, SessionAssumption DEF LoneInv, SessionAssumption
  <2>7. ASSUME last' \notin raced'
        PROVE  Agrees(Newest)'
    <3>1. copy[r] = packSettings
      BY <2>1, <2>7 DEF LoneInv
    <3>2. posted' # << >> /\ posted'[Len(posted')] = packSettings'
      <4>1. posted \in Seq(Packs) /\ copy[r] \in Packs
        BY DEF SettingTypes
      <4>2. Len(posted') = Len(posted) + 1 /\ posted'[Len(posted) + 1] = copy[r]
            /\ posted' # << >>
        BY <2>1, <4>1
      <4> QED BY <2>1, <3>1, <4>2
    <3>3. Newest' = packSettings'
      BY <3>2 DEF Newest
    <3> QED BY <2>5, <3>3 DEF Agrees
  <2> QED BY <2>1, <2>3, <2>4, <2>5, <2>6, <2>7 DEF LoneInv
<1>8. CASE Corrupt(r)
  <2>1. /\ UNCHANGED <<at, copy, packSettings, settings, posted, executed, raced, last>>
        /\ pc' = "crashed"
    BY <1>8 DEF Corrupt
  <2> QED BY <1>2, <2>1 DEF LoneInv, RacedKnown, Agrees, NothingAnswered, Newest
<1> QED BY <1>3, <1>4, <1>5, <1>6, <1>7, <1>8 DEF ComandHandler

\* What libtorrent applies last is what was posted last.
LEMMA LoneApplyPack ==
    ASSUME SettingTypes, LoneInv, ApplyPack
    PROVE  LoneInv'
<1>1. /\ UNCHANGED <<pc, at, copy, packSettings, executed, raced, last>>
      /\ posted # << >> /\ posted' = Tail(posted)
      /\ settings' = Over(Head(posted), settings)
  BY DEF ApplyPack, requestVars, history
<1>2. Active' = Active
  BY <1>1 DEF Active
<1>3. posted \in Seq(Packs) /\ Len(posted) \in Nat \ {0} /\ Head(posted) = posted[1]
      /\ Head(posted) \in Packs /\ settings \in Packs
  BY <1>1 DEF SettingTypes
<1>4. ASSUME Active = {} /\ last \notin raced
      PROVE  Agrees(Newest)'
  <2>1. Agrees(posted[Len(posted)])
    BY <1>1, <1>4 DEF LoneInv, Newest
  <2>2. CASE Len(posted) = 1
    <3>1. posted' = << >> /\ Newest' = settings'
      BY <1>1, <1>3, <2>2 DEF Newest
    <3>2. Agrees(Head(posted))
      BY <1>3, <2>1, <2>2
    <3>3. /\ DOMAIN settings' = DOMAIN Head(posted) \cup DOMAIN settings
          /\ \A n \in DOMAIN Head(posted) : settings'[n] = Head(posted)[n]
      BY <1>1, <1>3, OverIsPack
    <3>4. Agrees(settings')
      BY <3>2, <3>3 DEF Agrees
    <3> QED BY <1>1, <3>1, <3>4 DEF Agrees
  <2>3. CASE Len(posted) # 1
    <3> DEFINE rest == Tail(posted)
    <3>0. /\ Len(rest) = Len(posted) - 1 /\ Len(rest) \in Nat \ {0} /\ rest # << >>
          /\ rest[Len(rest)] = posted[Len(rest) + 1]
      <4>1. Len(rest) = Len(posted) - 1 /\ Len(rest) \in Nat \ {0}
        BY <1>1, <1>3, <2>3
      <4>2. \A k \in 1..(Len(posted) - 1) : rest[k] = posted[k + 1]
        BY <1>3
      <4> HIDE DEF rest
      <4>3. ASSUME rest = << >> PROVE FALSE
        BY <4>1, <4>3
      <4> QED BY <4>1, <4>2, <4>3
    <3>1. posted' # << >> /\ posted'[Len(posted')] = posted[Len(posted)]
      <4>1. Len(rest) + 1 = Len(posted)
        BY <1>3, <3>0
      <4> QED BY <1>1, <3>0, <4>1
    <3>2. Newest' = posted[Len(posted)]
      BY <3>1 DEF Newest
    <3> QED BY <1>1, <2>1, <3>2 DEF Agrees
  <2> QED BY <2>2, <2>3
<1>5. Agrees(packSettings)' /\ RacedKnown'
  BY <1>1, <1>2 DEF LoneInv, Agrees, RacedKnown
<1> QED BY <1>1, <1>2, <1>4, <1>5 DEF LoneInv, NothingAnswered

\* For any number of requests, packs under way and settings: once a request has had
\* the session to itself, and its pack is applied, each setting that libtorrent has is
\* as /command last answered for its name and kind.  What was answered for a name that
\* libtorrent does not know, or for another kind, holds nowhere, and does no harm.
THEOREM LoneCommandIsKept == Spec => []LoneCommandSettles
<1>1. Init => LoneInv
  <2> SUFFICES ASSUME Init PROVE LoneInv
    OBVIOUS
  <2>1. NothingAnswered /\ Active = {} /\ \A r \in Requests : at[r] = "none"
    BY NothingIsPack DEF Init, Active, NothingAnswered
  <2>2. \A n \in Names : DOMAIN executed[Kind[n]] = {}
    BY <2>1, SessionAssumption DEF SessionAssumption, NothingAnswered
  <2> QED BY <2>1, <2>2 DEF LoneInv, Agrees, RacedKnown
<1>2. SettingTypes /\ LoneInv /\ [Next]_vars => LoneInv'
  <2> SUFFICES ASSUME SettingTypes, LoneInv, [Next]_vars PROVE LoneInv'
    OBVIOUS
  <2>1. CASE UNCHANGED vars
    <3>1. UNCHANGED <<pc, at, copy, packSettings, settings, posted, executed, raced, last>>
      BY <2>1 DEF vars, requestVars, ltVars, history
    <3>2. Active' = Active
      BY <3>1 DEF Active
    <3> QED BY <3>1, <3>2 DEF LoneInv, RacedKnown, Agrees, NothingAnswered, Newest
  <2> QED BY <2>1, LoneMain, LoneHandler, LoneApplyPack DEF Next
<1>3. LoneInv => LoneCommandSettles
  BY DEF LoneInv, LoneCommandSettles, Newest, Agrees
<1> QED BY <1>1, <1>2, <1>3, InitTypes, TypesStep, PTL DEF Spec

-----------------------------------------------------------------------------
(* The services *)

\* A pack that switches on no service but those asked for.
Modest(p) == \A s \in Services : s \in DOMAIN p /\ p[s] = TRUE => AskedFor(s)

AskInv ==
    /\ \A r \in Requests : at[r] = "none" => query[r] = NoQuery
    /\ \A r \in Requests : at[r] = "set" => AtPair(r)
    /\ Modest(packSettings)
    /\ \A r \in Requests : Modest(copy[r])
    /\ \A k \in DOMAIN posted : Modest(posted[k])
    /\ pc \notin {"start", "crashed"} => Modest(settings)

\* The empty pack switches nothing on.
LEMMA NothingIsModest == Modest(Nothing)
BY NothingIsPack DEF Modest

\* Two packs that switch on nothing unasked do so neither together.
LEMMA OverIsModest ==
    ASSUME NEW new \in Packs, NEW old \in Packs, Modest(new), Modest(old)
    PROVE  Modest(Over(new, old))
<1>1. /\ DOMAIN Over(new, old) = DOMAIN new \cup DOMAIN old
      /\ \A n \in DOMAIN new : Over(new, old)[n] = new[n]
      /\ \A n \in DOMAIN old \ DOMAIN new : Over(new, old)[n] = old[n]
  BY OverIsPack
<1> QED BY <1>1 DEF Modest

\* The start, whatever the session had on before.
LEMMA StartIsModest ==
    ASSUME config \in Configs, NEW old \in Packs
    PROVE  Modest(StartPack) /\ Modest(Over(StartPack, old))
<1>1. StartPack \in Packs /\ \A s \in Services : s \in DOMAIN StartPack /\ StartPack[s] = FALSE
  BY StartIsPack
<1>2. \A s \in Services : Over(StartPack, old)[s] = FALSE
  BY <1>1, OverIsPack
<1> QED BY <1>1, <1>2 DEF Modest

\* A service is switched on only by a pair that says so.
LEMMA ToSetIsModest ==
    ASSUME NEW r \in Requests, AtPair(r)
    PROVE  Modest(ToSet(r))
<1> SUFFICES ASSUME NEW s \in Services, s \in DOMAIN ToSet(r), ToSet(r)[s] = TRUE
             PROVE  AskedFor(s)
  BY DEF Modest
<1>1. s \in Names /\ Kind[s] = "bool"
  BY SessionAssumption DEF SessionAssumption
<1>2. Name(r) \in Names /\ Kind[Name(r)] = Mode(r)
  BY NothingIsPack DEF ToSet
<1> DEFINE v == IF IsBool(r) THEN Text(r) = "true" ELSE Number[Text(r)]
<1>3. ToSet(r) = [n \in {Name(r)} |-> v]
  BY <1>2 DEF ToSet, Pair, Value
<1>4. s = Name(r) /\ v = TRUE
  <2> HIDE DEF v
  <2> QED BY <1>3
<1>5. IsBool(r)
  BY <1>1, <1>2, <1>4 DEF Mode
<1>6. Text(r) = "true"
  BY <1>4, <1>5
<1>7. /\ i[r] \in Reached(query[r])
      /\ query[r].commands[i[r]] = s
      /\ query[r].modes[i[r]] = "bool"
      /\ query[r].values[i[r]] = "true"
  BY <1>4, <1>5, <1>6 DEF AtPair, Name, IsBool, Text
<1> QED BY <1>7 DEF AskedFor

\* What was asked for stays asked for.
LEMMA AskedForStays ==
    ASSUME SettingTypes, AskInv, [Next]_vars
    PROVE  \A s \in Services : AskedFor(s) => AskedFor(s)'
<1>1. config' = config
  BY DEF Next, Main, StartSession, StartServices, AddTorrent, ComandHandler, Ask, Call, PassOver,
         SetSetting, ApplySettings, Post, Corrupt, ApplyPack, vars
<1>2. query' = query \/ \E r \in Requests : Ask(r)
  BY DEF Next, Main, StartSession, StartServices, AddTorrent, ComandHandler, Call, PassOver,
         SetSetting, ApplySettings, Post, Corrupt, ApplyPack, vars, requestVars
<1>3. Reached(NoQuery) = {}
  <2>1. Len(NoQuery.commands) = 0
    BY DEF NoQuery
  <2> QED BY <2>1 DEF Reached
<1>4. \A r \in Requests : Reached(query[r]) # {} => query'[r] = query[r]
  <2>1. CASE query' = query
    BY <2>1
  <2>2. ASSUME NEW r \in Requests, Ask(r)
        PROVE  \A o \in Requests : Reached(query[o]) # {} => query'[o] = query[o]
    <3>1. Reached(query[r]) = {}
      BY <1>3, <2>2 DEF Ask, AskInv
    <3>2. \A o \in Requests \ {r} : query'[o] = query[o]
      BY <2>2 DEF Ask, SettingTypes
    <3> QED BY <3>1, <3>2
  <2> QED BY <1>2, <2>1, <2>2
<1> QED BY <1>1, <1>4 DEF AskedFor

\* What was asked for stays asked for.
LEMMA ModestStays ==
    ASSUME SettingTypes, AskInv, [Next]_vars, NEW p \in Packs, Modest(p)
    PROVE  \A s \in Services : s \in DOMAIN p /\ p[s] = TRUE => AskedFor(s)'
BY AskedForStays DEF Modest

\* The packs of a step are those of before, or made of modest ones.
LEMMA AskedPacks ==
    ASSUME SettingTypes, SettingTypes', AskInv, [Next]_vars,
           Modest(packSettings'),
           \A r \in Requests : Modest(copy'[r]),
           \A k \in DOMAIN posted' : Modest(posted'[k]),
           pc' \notin {"start", "crashed"} => Modest(settings')
    PROVE  /\ Modest(packSettings)'
           /\ \A r \in Requests : Modest(copy[r])'
           /\ \A k \in DOMAIN posted' : Modest(posted[k])'
           /\ pc' \notin {"start", "crashed"} => Modest(settings)'
<1>1. /\ packSettings' \in Packs /\ settings' \in Packs
      /\ \A r \in Requests : copy'[r] \in Packs
      /\ \A k \in DOMAIN posted' : posted'[k] \in Packs
  BY DEF SettingTypes
<1> QED BY <1>1, ModestStays DEF Modest

\* Every step keeps packs, posted or not, to what was asked for.
LEMMA AskStep == SettingTypes /\ SettingTypes' /\ AskInv /\ [Next]_vars => AskInv'
<1> SUFFICES ASSUME SettingTypes, SettingTypes', AskInv, [Next]_vars
             PROVE  AskInv'
  OBVIOUS
<1> USE DEF requestVars, ltVars, history
<1>1. CASE StartSession
  <2>1. /\ packSettings' = StartPack /\ UNCHANGED <<at, query, i, copy, posted>>
        /\ pc' # "crashed" => settings' = Over(StartPack, settings)
    BY <1>1 DEF StartSession
  <2>2. Modest(StartPack) /\ Modest(Over(StartPack, settings))
    BY StartIsModest DEF SettingTypes
  <2>3. /\ Modest(packSettings') /\ (pc' # "crashed" => Modest(settings'))
        /\ \A r \in Requests : Modest(copy'[r])
        /\ \A k \in DOMAIN posted' : Modest(posted'[k])
    BY <2>1, <2>2 DEF AskInv
  <2> QED BY <2>1, <2>3, AskedPacks DEF AskInv, AtPair
<1>2. CASE StartServices
  <2> DEFINE on == [s \in config.services |-> TRUE]
  <2>1. /\ packSettings' = Over(on, packSettings) /\ posted' = Append(posted, packSettings')
        /\ pc = "services" /\ UNCHANGED <<at, query, i, copy, settings>>
    BY <1>2 DEF StartServices
  <2>2. on \in Packs /\ Modest(on)
    BY ServicesArePack DEF SettingTypes, Modest, AskedFor
  <2> HIDE DEF on
  <2>3. Modest(packSettings')
    BY <2>1, <2>2, OverIsModest DEF AskInv, SettingTypes
  <2>4. \A k \in DOMAIN posted' : (k \in DOMAIN posted /\ posted'[k] = posted[k])
                                   \/ posted'[k] = packSettings'
    BY <2>1 DEF SettingTypes
  <2>5. /\ Modest(settings')
        /\ \A r \in Requests : Modest(copy'[r])
        /\ \A k \in DOMAIN posted' : Modest(posted'[k])
    BY <2>1, <2>3, <2>4 DEF AskInv
  <2> QED BY <2>1, <2>3, <2>5, AskedPacks DEF AskInv, AtPair
<1>3. CASE AddTorrent
  <2>1. UNCHANGED <<at, query, i, copy, packSettings, posted, settings>> /\ pc = "torrent"
    BY <1>3 DEF AddTorrent
  <2> QED BY <2>1, AskedPacks DEF AskInv, AtPair
<1>4. ASSUME NEW r \in Requests, Ask(r) \/ Call(r) \/ PassOver(r)
      PROVE  AskInv'
  <2>1. UNCHANGED <<pc, copy, packSettings, posted, settings>>
    BY <1>4 DEF Ask, Call, PassOver
  <2>2. /\ Modest(packSettings)' /\ \A o \in Requests : Modest(copy[o])'
        /\ \A k \in DOMAIN posted' : Modest(posted[k])'
        /\ pc' \notin {"start", "crashed"} => Modest(settings)'
    BY <2>1, AskedPacks DEF AskInv
  <2>3. \A o \in Requests : at'[o] = "none" => query'[o] = NoQuery
    BY <1>4 DEF Ask, Call, PassOver, AskInv, SettingTypes
  <2>4. \A o \in Requests : at'[o] = "set" => AtPair(o)'
    BY <1>4 DEF Ask, Call, PassOver, AskInv, SettingTypes, AtPair
  <2> QED BY <2>2, <2>3, <2>4 DEF AskInv
<1>5. ASSUME NEW r \in Requests, SetSetting(r)
      PROVE  AskInv'
  <2>1. /\ at[r] = "set" /\ at' = [at EXCEPT ![r] = "loop"] /\ i' = [i EXCEPT ![r] = @ + 1]
        /\ packSettings' = Over(ToSet(r), packSettings)
        /\ \A o \in Requests : copy'[o] \in {copy[o], Over(ToSet(r), copy[o])}
        /\ UNCHANGED <<pc, query, posted, settings>>
    BY <1>5 DEF SetSetting
  <2>2. ToSet(r) \in Packs /\ Modest(ToSet(r))
    BY <2>1, ToSetIsPack, ToSetIsModest DEF AskInv, SettingTypes
  <2>3. Modest(packSettings')
    BY <2>1, <2>2, OverIsModest DEF AskInv, SettingTypes
  <2>4. \A o \in Requests : Modest(copy'[o])
    <3>1. \A o \in Requests : copy[o] \in Packs /\ Modest(copy[o])
      BY DEF AskInv, SettingTypes
    <3>2. \A o \in Requests : Modest(Over(ToSet(r), copy[o]))
      BY <2>2, <3>1, OverIsModest
    <3> QED BY <2>1, <3>1, <3>2
  <2>5. /\ \A k \in DOMAIN posted' : Modest(posted'[k])
        /\ pc' \notin {"start", "crashed"} => Modest(settings')
    BY <2>1 DEF AskInv
  <2>6. \A o \in Requests : /\ at'[o] = "none" => query'[o] = NoQuery
                            /\ at'[o] = "set" => AtPair(o)'
    BY <2>1 DEF AskInv, SettingTypes, AtPair
  <2> QED BY <2>3, <2>4, <2>5, <2>6, AskedPacks DEF AskInv
<1>6. ASSUME NEW r \in Requests, ApplySettings(r)
      PROVE  AskInv'
  <2>1. /\ at' = [at EXCEPT ![r] = "copying"] /\ at[r] = "loop"
        /\ \A o \in Requests : copy'[o] \in {copy[o], packSettings}
        /\ UNCHANGED <<pc, query, i, packSettings, posted, settings>>
    BY <1>6 DEF ApplySettings, SettingTypes
  <2>2. /\ Modest(packSettings') /\ \A o \in Requests : Modest(copy'[o])
        /\ \A k \in DOMAIN posted' : Modest(posted'[k])
        /\ pc' \notin {"start", "crashed"} => Modest(settings')
    BY <2>1 DEF AskInv
  <2>3. \A o \in Requests : /\ at'[o] = "none" => query'[o] = NoQuery
                            /\ at'[o] = "set" => AtPair(o)'
    BY <2>1 DEF AskInv, SettingTypes, AtPair
  <2> QED BY <2>2, <2>3, AskedPacks DEF AskInv
<1>7. ASSUME NEW r \in Requests, Post(r)
      PROVE  AskInv'
  <2>1. /\ at' = [at EXCEPT ![r] = "done"] /\ at[r] = "copying"
        /\ \A o \in Requests : copy'[o] \in {copy[o], Nothing}
        /\ posted' = Append(posted, copy[r])
        /\ UNCHANGED <<pc, query, i, packSettings, settings>>
    BY <1>7 DEF Post, SettingTypes
  <2>2. \A k \in DOMAIN posted' : (k \in DOMAIN posted /\ posted'[k] = posted[k])
                                   \/ posted'[k] = copy[r]
    BY <2>1 DEF SettingTypes
  <2>3. /\ Modest(packSettings') /\ \A o \in Requests : Modest(copy'[o])
        /\ \A k \in DOMAIN posted' : Modest(posted'[k])
        /\ pc' \notin {"start", "crashed"} => Modest(settings')
    BY <2>1, <2>2, NothingIsModest DEF AskInv
  <2>4. \A o \in Requests : /\ at'[o] = "none" => query'[o] = NoQuery
                            /\ at'[o] = "set" => AtPair(o)'
    BY <2>1 DEF AskInv, SettingTypes, AtPair
  <2> QED BY <2>3, <2>4, AskedPacks DEF AskInv
<1>8. ASSUME NEW r \in Requests, Corrupt(r)
      PROVE  AskInv'
  <2>1. UNCHANGED <<at, query, i, copy, packSettings, posted, settings>> /\ pc' = "crashed"
    BY <1>8 DEF Corrupt
  <2> QED BY <2>1, AskedPacks DEF AskInv, AtPair
<1>9. CASE ApplyPack
  <2>1. /\ UNCHANGED <<pc, at, query, i, copy, packSettings>>
        /\ posted # << >> /\ posted' = Tail(posted)
        /\ settings' = Over(Head(posted), settings)
    BY <1>9 DEF ApplyPack
  <2>2. /\ Head(posted) = posted[1] /\ 1 \in DOMAIN posted /\ Head(posted) \in Packs
        /\ \A k \in DOMAIN posted' : k + 1 \in DOMAIN posted /\ posted'[k] = posted[k + 1]
    BY <2>1 DEF SettingTypes
  <2>3. Modest(Head(posted)) /\ \A k \in DOMAIN posted' : Modest(posted'[k])
    BY <2>2 DEF AskInv
  <2>4. pc' \notin {"start", "crashed"} => Modest(settings')
    BY <2>1, <2>2, <2>3, OverIsModest DEF AskInv, SettingTypes
  <2>5. Modest(packSettings') /\ \A o \in Requests : Modest(copy'[o])
    BY <2>1 DEF AskInv
  <2> QED BY <2>1, <2>3, <2>4, <2>5, AskedPacks DEF AskInv, AtPair
<1>10. CASE UNCHANGED vars
  <2>1. UNCHANGED <<pc, at, query, i, copy, packSettings, posted, settings>>
    BY <1>10 DEF vars
  <2> QED BY <2>1, AskedPacks DEF AskInv, AtPair
<1> QED BY <1>1, <1>2, <1>3, <1>4, <1>5, <1>6, <1>7, <1>8, <1>9, <1>10
        DEF Next, Main, ComandHandler

\* Nobody has asked for anything yet, and nothing is in a pack.
LEMMA InitAsk == Init => AskInv
<1> SUFFICES ASSUME Init PROVE AskInv
  OBVIOUS
<1>1. packSettings = Nothing /\ \A r \in Requests : copy[r] = Nothing
  BY DEF Init
<1>2. posted = << >> /\ DOMAIN posted = {}
  BY DEF Init
<1> QED BY <1>1, <1>2, NothingIsModest DEF Init, AskInv

\* However late packs are applied and however many requests are served at a time, no
\* service runs that neither the options nor a client has asked for.
THEOREM NoServiceUnasked == Spec => []ServicesOnlyAsAsked
<1>1. SettingTypes /\ AskInv => ServicesOnlyAsAsked
  <2> SUFFICES ASSUME SettingTypes, AskInv, pc \notin {"start", "crashed"},
                      NEW s \in Services, settings[s] = TRUE
               PROVE  AskedFor(s)
    BY DEF ServicesOnlyAsAsked
  <2>1. s \in DOMAIN settings
    BY SessionAssumption DEF SessionAssumption, SettingTypes
  <2> QED BY <2>1 DEF AskInv, Modest
<1> QED BY <1>1, InitAsk, InitTypes, TypesStep, AskStep, PTL DEF Spec

-----------------------------------------------------------------------------
(* No setting is of another kind than its own *)

\* A pack in which each setting is of its kind.
Kinded(p) == \A n \in DOMAIN p : p[n] \in IF Kind[n] = "bool" THEN BOOLEAN ELSE Int

KindInv ==
    /\ Kinded(packSettings) /\ Kinded(settings)
    /\ \A r \in Requests : Kinded(copy[r])
    /\ \A k \in DOMAIN posted : Kinded(posted[k])

\* What is not a pack: main's place, the answers, and the requests that were served.
RestTypes ==
    /\ pc \in {"start", "services", "torrent", "serving", "crashed"}
    /\ DOMAIN executed = Modes
    /\ \A n \in DOMAIN executed["bool"] : executed["bool"][n] \in BOOLEAN
    /\ \A n \in DOMAIN executed["int"] : executed["int"][n] \in Int
    /\ raced \subseteq Requests
    /\ last \in Requests \cup {"main"}

\* The empty pack has nothing of a wrong kind.
LEMMA NothingIsKinded == Kinded(Nothing)
BY NothingIsPack DEF Kinded

\* Setting one pack over another mixes up no kinds.
LEMMA OverIsKinded ==
    ASSUME NEW new \in Packs, NEW old \in Packs, Kinded(new), Kinded(old)
    PROVE  Kinded(Over(new, old))
<1>1. /\ DOMAIN Over(new, old) = DOMAIN new \cup DOMAIN old
      /\ \A n \in DOMAIN new : Over(new, old)[n] = new[n]
      /\ \A n \in DOMAIN old \ DOMAIN new : Over(new, old)[n] = old[n]
  BY OverIsPack
<1> QED BY <1>1 DEF Kinded

\* startSession sets switches to booleans and the rest to numbers.
LEMMA StartIsKinded ==
    ASSUME config \in Configs
    PROVE  Kinded(StartPack)
<1> DEFINE down == RateLimit("download_rate_limit", config.maxDownloadRate)
           up   == RateLimit("upload_rate_limit", config.maxUploadRate)
<1>1. ServicesOff \in Packs /\ Kinded(ServicesOff)
  <2>1. Services \in SUBSET Names /\ \A s \in Services : Kind[s] = "bool"
    BY SessionAssumption DEF SessionAssumption
  <2>2. ServicesOff \in [Services -> BOOLEAN \cup Int]
    BY DEF ServicesOff
  <2>3. Kinded(ServicesOff)
    BY <2>1 DEF ServicesOff, Kinded
  <2> QED BY <2>1, <2>2, <2>3, PackOf
<1>2. ASSUME NEW name \in {"download_rate_limit", "upload_rate_limit"}, NEW rate \in Int
      PROVE  RateLimit(name, rate) \in Packs /\ Kinded(RateLimit(name, rate))
  <2>1. {name} \in SUBSET Names /\ Kind[name] = "int"
    BY SessionAssumption DEF SessionAssumption
  <2> DEFINE limit == [n \in {name} |-> rate * 1024]
  <2>2. limit \in [{name} -> BOOLEAN \cup Int] /\ limit[name] \in Int /\ DOMAIN limit = {name}
    OBVIOUS
  <2>3. RateLimit(name, rate) = limit \/ RateLimit(name, rate) = Nothing
    BY DEF RateLimit
  <2> HIDE DEF limit
  <2>4. limit \in Packs /\ Kinded(limit)
    BY <2>1, <2>2, PackOf DEF Kinded
  <2> QED BY <2>3, <2>4, NothingIsPack, NothingIsKinded
<1>3. config.maxDownloadRate \in Int /\ config.maxUploadRate \in Int
  BY SessionAssumption DEF SessionAssumption
<1>4. Choker \in Packs /\ Kinded(Choker)
  <2>1. /\ {"choking_algorithm"} \in SUBSET Names /\ Kind["choking_algorithm"] = "int"
        /\ Bittyrant \in Int /\ FixedSlots \in Int
    BY SessionAssumption DEF SessionAssumption
  <2>2. Choker \in [{"choking_algorithm"} -> Int]
    BY <2>1 DEF Choker
  <2>3. Choker \in [{"choking_algorithm"} -> BOOLEAN \cup Int]
    BY <2>2
  <2>4. Kinded(Choker)
    BY <2>1, <2>2 DEF Kinded
  <2> QED BY <2>1, <2>3, <2>4, PackOf
<1>5. Encryption \in Packs /\ Kinded(Encryption)
  <2> DEFINE N == {"out_enc_policy", "in_enc_policy", "allowed_enc_level", "prefer_rc4"}
  <2>1. /\ N \in SUBSET Names /\ Kind["prefer_rc4"] = "bool"
        /\ \A n \in N \ {"prefer_rc4"} : Kind[n] = "int"
        /\ {PeForced, PeEnabled, PeDisabled, PeRc4, PeBoth} \subseteq Int
    BY SessionAssumption DEF SessionAssumption
  <2>2. /\ Encryption \in [N -> BOOLEAN \cup Int]
        /\ Encryption["prefer_rc4"] \in BOOLEAN
        /\ \A n \in N \ {"prefer_rc4"} : Encryption[n] \in Int
    BY <2>1 DEF Encryption
  <2>3. Kinded(Encryption)
    BY <2>1, <2>2 DEF Kinded
  <2> QED BY <2>1, <2>2, <2>3, PackOf
<1>6. down \in Packs /\ Kinded(down) /\ up \in Packs /\ Kinded(up)
  BY <1>2, <1>3
<1> HIDE DEF down, up
<1>7. Over(Choker, Encryption) \in Packs /\ Kinded(Over(Choker, Encryption))
  BY <1>4, <1>5, OverIsPack, OverIsKinded
<1>8. Over(up, Over(Choker, Encryption)) \in Packs /\ Kinded(Over(up, Over(Choker, Encryption)))
  BY <1>6, <1>7, OverIsPack, OverIsKinded
<1>9. /\ Over(down, Over(up, Over(Choker, Encryption))) \in Packs
      /\ Kinded(Over(down, Over(up, Over(Choker, Encryption))))
  BY <1>6, <1>8, OverIsPack, OverIsKinded
<1>10. StartPack = Over(ServicesOff, Over(down, Over(up, Over(Choker, Encryption))))
  BY DEF StartPack, down, up
<1> QED BY <1>1, <1>9, <1>10, OverIsKinded

\* A call of the wrong kind sets nothing.
LEMMA ToSetIsKinded ==
    ASSUME NEW r \in Requests, IsBool(r) \/ IsNumber(r)
    PROVE  Kinded(ToSet(r))
<1>1. CASE Name(r) \in Names /\ Kind[Name(r)] = Mode(r)
  <2> DEFINE v == IF IsBool(r) THEN Text(r) = "true" ELSE Number[Text(r)]
  <2>1. v \in IF Kind[Name(r)] = "bool" THEN BOOLEAN ELSE Int
    <3>1. CASE IsBool(r)
      <4>1. Kind[Name(r)] = "bool"
        BY <1>1, <3>1 DEF Mode
      <4>2. v = (Text(r) = "true")
        BY <3>1
      <4>3. (Text(r) = "true") \in BOOLEAN
        BY Zenon
      <4> QED BY <4>1, <4>2, <4>3
    <3>2. CASE ~IsBool(r)
      BY <1>1, <3>2, SessionAssumption DEF SessionAssumption, IsNumber, Mode
    <3> QED BY <3>1, <3>2
  <2>2. ToSet(r) = [n \in {Name(r)} |-> v]
    BY <1>1 DEF ToSet, Pair, Value
  <2> HIDE DEF v
  <2>3. DOMAIN ToSet(r) = {Name(r)} /\ ToSet(r)[Name(r)] = v
    BY <2>2
  <2> QED BY <2>1, <2>3 DEF Kinded
<1>2. CASE ToSet(r) = Nothing
  BY <1>2, NothingIsKinded
<1> QED BY <1>1, <1>2 DEF ToSet

\* libtorrent starts with settings of the right kinds.
LEMMA InitKinds == Init => KindInv /\ RestTypes
<1> SUFFICES ASSUME Init PROVE KindInv /\ RestTypes
  OBVIOUS
<1>1. Kinded(Defaults)
  BY SessionAssumption DEF SessionAssumption, IsPack, Kinded
<1>2. KindInv
  BY <1>1, NothingIsKinded DEF Init, KindInv
<1>3. RestTypes
  BY NothingIsPack DEF Init, RestTypes, Modes
<1> QED BY <1>2, <1>3

\* Every step keeps the kinds, of the packs that are posted too.
LEMMA KindStep == SettingTypes /\ KindInv /\ [Next]_vars => KindInv'
<1> SUFFICES ASSUME SettingTypes, KindInv, [Next]_vars
             PROVE  KindInv'
  OBVIOUS
<1> USE DEF requestVars, ltVars, history
<1>1. CASE StartSession
  <2>1. StartPack \in Packs /\ Kinded(StartPack)
    BY StartIsPack, StartIsKinded DEF SettingTypes
  <2>2. Kinded(Over(StartPack, settings))
    BY <2>1, OverIsKinded DEF SettingTypes, KindInv
  <2>3. /\ packSettings' = StartPack /\ settings' \in {settings, Over(StartPack, settings)}
        /\ UNCHANGED <<copy, posted>>
    BY <1>1 DEF StartSession
  <2> QED BY <2>1, <2>2, <2>3 DEF KindInv
<1>2. CASE StartServices
  <2> DEFINE on == [s \in config.services |-> TRUE]
  <2>1. /\ packSettings' = Over(on, packSettings) /\ posted' = Append(posted, packSettings')
        /\ UNCHANGED <<copy, settings>>
    BY <1>2 DEF StartServices
  <2>2. on \in Packs /\ Kinded(on)
    BY ServicesArePack, SessionAssumption DEF SessionAssumption, SettingTypes, Kinded
  <2> HIDE DEF on
  <2>3. Kinded(packSettings')
    BY <2>1, <2>2, OverIsKinded DEF KindInv, SettingTypes
  <2>4. \A k \in DOMAIN posted' : (k \in DOMAIN posted /\ posted'[k] = posted[k])
                                   \/ posted'[k] = packSettings'
    BY <2>1 DEF SettingTypes
  <2> QED BY <2>1, <2>3, <2>4 DEF KindInv
<1>3. ASSUME NEW r \in Requests, SetSetting(r)
      PROVE  KindInv'
  <2>1. /\ packSettings' = Over(ToSet(r), packSettings) 
        /\ \A o \in Requests : copy'[o] \in {copy[o], Over(ToSet(r), copy[o])}
        /\ UNCHANGED <<posted, settings>>
    BY <1>3 DEF SetSetting
  <2>2. ToSet(r) \in Packs /\ Kinded(ToSet(r))
    BY <1>3, ToSetIsPack, ToSetIsKinded DEF SetSetting, SettingTypes
  <2>3. Kinded(packSettings')
    BY <2>1, <2>2, OverIsKinded DEF KindInv, SettingTypes
  <2>4. \A o \in Requests : Kinded(Over(ToSet(r), copy[o]))
    BY <2>2, OverIsKinded DEF KindInv, SettingTypes
  <2> QED BY <2>1, <2>3, <2>4 DEF KindInv
<1>4. ASSUME NEW r \in Requests, ApplySettings(r)
      PROVE  KindInv'
  <2>1. /\ \A o \in Requests : copy'[o] \in {copy[o], packSettings}
        /\ UNCHANGED <<packSettings, posted, settings>>
    BY <1>4 DEF ApplySettings, SettingTypes
  <2> QED BY <2>1 DEF KindInv
<1>5. ASSUME NEW r \in Requests, Post(r)
      PROVE  KindInv'
  <2>1. /\ \A o \in Requests : copy'[o] \in {copy[o], Nothing}
        /\ posted' = Append(posted, copy[r])
        /\ UNCHANGED <<packSettings, settings>>
    BY <1>5 DEF Post, SettingTypes
  <2>2. \A k \in DOMAIN posted' : (k \in DOMAIN posted /\ posted'[k] = posted[k])
                                   \/ posted'[k] = copy[r]
    BY <2>1 DEF SettingTypes
  <2> QED BY <2>1, <2>2, NothingIsKinded DEF KindInv
<1>6. CASE ApplyPack
  <2>1. /\ UNCHANGED <<copy, packSettings>>
        /\ posted # << >> /\ posted' = Tail(posted)
        /\ settings' = Over(Head(posted), settings)
    BY <1>6 DEF ApplyPack
  <2>2. /\ Head(posted) = posted[1] /\ 1 \in DOMAIN posted /\ Head(posted) \in Packs
        /\ \A k \in DOMAIN posted' : k + 1 \in DOMAIN posted /\ posted'[k] = posted[k + 1]
    BY <2>1 DEF SettingTypes
  <2>3. Kinded(settings')
    BY <2>1, <2>2, OverIsKinded DEF KindInv, SettingTypes
  <2> QED BY <2>1, <2>2, <2>3 DEF KindInv
<1>7. CASE UNCHANGED <<packSettings, settings, copy, posted>>
  BY <1>7 DEF KindInv
<1> QED BY <1>1, <1>2, <1>3, <1>4, <1>5, <1>6, <1>7
        DEF Next, Main, AddTorrent, ComandHandler, Ask, Call, PassOver, Corrupt, vars

\* What is answered has the kind that the mode says, and the rest follows.
LEMMA RestStep == SettingTypes /\ RestTypes /\ [Next]_vars => RestTypes'
<1> SUFFICES ASSUME SettingTypes, RestTypes, [Next]_vars
             PROVE  RestTypes'
  OBVIOUS
<1> USE DEF requestVars, ltVars, history
<1>1. CASE Main
  BY <1>1 DEF Main, StartSession, StartServices, AddTorrent, RestTypes
<1>2. ASSUME NEW r \in Requests, ComandHandler(r), ~SetSetting(r)
      PROVE  RestTypes'
  <2>1. /\ UNCHANGED executed /\ pc' \in {pc, "crashed"}
        /\ raced' \in {raced, raced \cup (IF Active = {} THEN {} ELSE Active \cup {r})}
        /\ last' \in {last, r}
    BY <1>2 DEF ComandHandler, Ask, Call, PassOver, ApplySettings, Post, Corrupt
  <2> QED BY <2>1 DEF RestTypes, Active
<1>3. ASSUME NEW r \in Requests, SetSetting(r)
      PROVE  RestTypes'
  <2>1. Answer(r) /\ UNCHANGED <<pc, raced, last>> /\ (IsBool(r) \/ IsNumber(r))
    BY <1>3 DEF SetSetting, SettingTypes
  <2>2. /\ DOMAIN executed' = Modes
        /\ executed'[Mode(r)] = Over(Pair(r), executed[Mode(r)])
        /\ \A mode \in Modes \ {Mode(r)} : executed'[mode] = executed[mode]
    BY <2>1 DEF Answer, RestTypes, Mode, Modes
  <2>3. \A n \in DOMAIN executed'[Mode(r)] :
           \/ executed'[Mode(r)][n] = Value(r)
           \/ n \in DOMAIN executed[Mode(r)] /\ executed'[Mode(r)][n] = executed[Mode(r)][n]
    BY <2>2 DEF Over, Pair
  <2>4. CASE IsBool(r)
    <3>1. Mode(r) = "bool" /\ Value(r) = (Text(r) = "true")
      BY <2>4 DEF Mode, Value
    <3>2. Value(r) \in BOOLEAN
      BY <3>1, Zenon
    <3> HIDE DEF Text
    <3>3. \A n \in DOMAIN executed'["bool"] : executed'["bool"][n] \in BOOLEAN
      BY <2>3, <3>1, <3>2 DEF RestTypes
    <3> QED BY <2>1, <2>2, <3>1, <3>3 DEF RestTypes, Modes
  <2>5. CASE ~IsBool(r)
    <3>1. Mode(r) = "int" /\ Value(r) \in Int
      BY <2>1, <2>5, SessionAssumption DEF SessionAssumption, Mode, Value, IsNumber
    <3>2. \A n \in DOMAIN executed'["int"] : executed'["int"][n] \in Int
      BY <2>3, <3>1 DEF RestTypes
    <3> QED BY <2>1, <2>2, <3>1, <3>2 DEF RestTypes, Modes
  <2> QED BY <2>4, <2>5
<1>4. CASE ApplyPack
  BY <1>4 DEF ApplyPack, RestTypes
<1>5. CASE UNCHANGED vars
  BY <1>5 DEF vars, RestTypes
<1> QED BY <1>1, <1>2, <1>3, <1>4, <1>5 DEF Next

\* However many requests there are and whatever they ask, a setting is never of another
\* kind than its own, in a pack that is being copied as little as in one that is posted,
\* and a call is only made for a pair that the loop of comandHandler reaches.
THEOREM KindsAreKept == Spec => []TypeOK
<1>1. ASSUME NEW p \in Packs, Kinded(p) PROVE IsPack(p)
  <2>1. p = [n \in DOMAIN p |-> p[n]] /\ DOMAIN p \subseteq Names
    BY DEF Packs
  <2> QED BY <1>1, <2>1 DEF IsPack, Kinded
<1>2. \A q \in Queries \cup {NoQuery} : IsQuery(q)
  <2>1. IsQuery(NoQuery)
    BY DEF IsQuery, NoQuery
  <2> QED BY <2>1, SessionAssumption DEF SessionAssumption
<1>3. SettingTypes /\ AskInv /\ KindInv /\ RestTypes => TypeOK
  <2> SUFFICES ASSUME SettingTypes, AskInv, KindInv, RestTypes
               PROVE  TypeOK
    OBVIOUS
  <2>1. IsPack(packSettings) /\ IsPack(settings)
    BY <1>1 DEF SettingTypes, KindInv
  <2>2. \A r \in Requests : IsPack(copy[r]) /\ IsQuery(query[r])
    BY <1>1, <1>2 DEF SettingTypes, KindInv
  <2>3. \A k \in DOMAIN posted : IsPack(posted[k])
    BY <1>1 DEF SettingTypes, KindInv
  <2> QED BY <2>1, <2>2, <2>3 DEF TypeOK, SettingTypes, AskInv, RestTypes, Places
<1> QED BY <1>3, InitTypes, TypesStep, InitAsk, AskStep, InitKinds, KindStep, RestStep, PTL DEF Spec
================================================================================
