-------------------------------- MODULE Session --------------------------------
(***************************************************************************)
(* libtorrent's session: main starts it and its services and adds the      *)
(* torrent with its trackers; then requests for /command change its        *)
(* settings, all through the one settings pack that main has made.         *)
(*                                                                         *)
(* A pack is a function from the names that were set in it: libtorrent     *)
(* leaves the others as they are.                                          *)
(***************************************************************************)
EXTENDS Integers, Sequences

CONSTANTS
    Requests,      \* of /command
    Configs,       \* the options
    Services,      \* the names that switch a service on
    Kind,          \* of each setting: "bool" or "int"
    Defaults,      \* libtorrent's settings
    FixedSlots, Bittyrant,              \* libtorrent's choking_algorithm
    PeForced, PeEnabled, PeDisabled,    \* libtorrent's encryption policies
    PeRc4, PeBoth,                      \* and levels
    ByteValues,    \* 256
    Queries,       \* command, mode and value, each as often as the client likes
    Number         \* strconv.Atoi, of the texts that are numbers

Names == DOMAIN Kind

Modes == {"bool", "int"}

IsPack(p) ==
    /\ p = [n \in DOMAIN p |-> p[n]]
    /\ DOMAIN p \subseteq Names
    /\ \A n \in DOMAIN p : p[n] \in IF Kind[n] = "bool" THEN BOOLEAN ELSE Int

IsQuery(q) ==
    /\ q = [commands |-> q.commands, modes |-> q.modes, values |-> q.values]
    /\ q.commands \in Seq(STRING) /\ q.modes \in Seq(STRING) /\ q.values \in Seq(STRING)

ASSUME SessionAssumption ==
    /\ \A s \in Services : s \in Names /\ Kind[s] = "bool"
    /\ \A n \in {"download_rate_limit", "upload_rate_limit", "choking_algorithm",
                  "out_enc_policy", "in_enc_policy", "allowed_enc_level"} :
         n \in Names /\ Kind[n] = "int"
    /\ "prefer_rc4" \in Names /\ Kind["prefer_rc4"] = "bool"
    /\ {FixedSlots, Bittyrant, PeForced, PeEnabled, PeDisabled, PeRc4, PeBoth} \subseteq Int
    /\ IsPack(Defaults) /\ DOMAIN Defaults = Names
    /\ \A n \in Names : Kind[n] \in Modes
    /\ ByteValues \in Nat \ {0}
    /\ "main" \notin Requests
    /\ Number = [t \in DOMAIN Number |-> Number[t]] /\ \A t \in DOMAIN Number : Number[t] \in Int
    /\ \A q \in Queries : IsQuery(q)
    /\ \A c \in Configs :
         /\ c.services \subseteq Services
         /\ c.maxDownloadRate \in Int /\ c.maxUploadRate \in Int /\ c.encryption \in Int
         /\ c.trackers \in Nat

VARIABLES
    config,
    pc,            \* of main
    packSettings,

    at,            \* of each request: where it is in comandHandler
    query, i,      \* its locals
    copy,          \* of the pack, for ApplySettings

    settings,      \* libtorrent: of the session
    posted,        \* libtorrent: the packs that its own thread has yet to apply
    tiers,         \* libtorrent: of the trackers that were added

    executed,      \* of each mode: what each name was last answered to be set to: history
    raced,         \* the requests served at the same time as another: history
    last           \* the request that has last called ApplySettings: history

ltVars  == <<settings, posted, tiers>>
history == <<executed, raced, last>>
requestVars == <<at, query, i, copy>>
vars == <<config, pc, packSettings, requestVars, ltVars, history>>

Nothing == [n \in {} |-> 0]

\* What ApplySettings makes of settings, and Set of a pack.
Over(new, old) ==
    [n \in DOMAIN new \cup DOMAIN old |-> IF n \in DOMAIN new THEN new[n] ELSE old[n]]

NoQuery == [commands |-> << >>, modes |-> << >>, values |-> << >>]

Init ==
    /\ config \in Configs
    /\ pc = "start"
    /\ packSettings = Nothing
    /\ at = [r \in Requests |-> "none"]
    /\ query = [r \in Requests |-> NoQuery]
    /\ i = [r \in Requests |-> 1]
    /\ copy = [r \in Requests |-> Nothing]
    /\ settings = Defaults
    /\ posted = << >>
    /\ tiers = << >>
    /\ executed = [mode \in Modes |-> Nothing]
    /\ raced = {}
    /\ last = "main"

-----------------------------------------------------------------------------
(* main *)

\* Mutant of ServicesOff: left as libtorrent has them.
ServicesOffForgotten == Nothing

ServicesOff == [s \in Services |-> FALSE]

RateLimit(name, rate) == IF rate >= 0 THEN [n \in {name} |-> rate * 1024] ELSE Nothing

\* -ul-rate also chooses how to unchoke.
Choker ==
    [n \in {"choking_algorithm"} |->
        IF config.maxUploadRate >= 0 THEN Bittyrant ELSE FixedSlots]

\* policy and level keep their zeros if -encryption is none of the three.
Encryption ==
    LET policy == CASE config.encryption = 0 -> PeForced
                    [] config.encryption = 1 -> PeEnabled
                    [] config.encryption = 2 -> PeDisabled
                    [] OTHER -> 0
        level  == CASE config.encryption = 0 -> PeRc4
                    [] config.encryption \in {1, 2} -> PeBoth
                    [] OTHER -> 0
    IN  [n \in {"out_enc_policy", "in_enc_policy", "allowed_enc_level", "prefer_rc4"} |->
            IF n = "prefer_rc4" THEN config.encryption = 0
            ELSE IF n = "allowed_enc_level" THEN level
            ELSE policy]

StartPack ==
    Over(ServicesOff,
         Over(RateLimit("download_rate_limit", config.maxDownloadRate),
              Over(RateLimit("upload_rate_limit", config.maxUploadRate),
                   Over(Choker, Encryption))))

\* startSession, but for its ports.  Without a session startServices fails.
StartSession ==
    /\ pc = "start"
    /\ packSettings' = StartPack
    /\ \/ /\ settings' = Over(packSettings', settings)
          /\ pc' = "services"
       \/ /\ pc' = "crashed"
          /\ UNCHANGED settings
    /\ UNCHANGED <<config, requestVars, posted, tiers, history>>

\* startServices: the services of the options, but for the mapping of the ports.
StartServices ==
    /\ pc = "services"
    /\ packSettings' = Over([s \in config.services |-> TRUE], packSettings)
    /\ posted' = Append(posted, packSettings')
    /\ pc' = "torrent"
    /\ UNCHANGED <<config, requestVars, settings, tiers, history>>

\* Mutant of Tier: from one too far.
TierLate(trackers, n) == (ByteValues - trackers + n + 1) % ByteValues

\* byte(startTier + n), with n from 0
Tier(trackers, n) == (ByteValues - trackers + n) % ByteValues

\* addTorrent.  Without a torrent its handle is of no use to the next call.
AddTorrent ==
    /\ pc = "torrent"
    /\ \/ /\ tiers' = [n \in 1..config.trackers |-> Tier(config.trackers, n - 1)]
          /\ pc' = "serving"
       \/ /\ pc' = "crashed"
          /\ UNCHANGED tiers
    /\ UNCHANGED <<config, packSettings, requestVars, settings, posted, history>>

Main == StartSession \/ StartServices \/ AddTorrent

-----------------------------------------------------------------------------
(* comandHandler *)

Active == {r \in Requests : at[r] \notin {"none", "done"}}

Ask(r) ==
    /\ pc = "serving"
    /\ at[r] = "none"
    /\ at' = [at EXCEPT ![r] = "loop"]
    /\ \E q \in Queries : query' = [query EXCEPT ![r] = q]
    /\ raced' = raced \cup (IF Active = {} THEN {} ELSE Active \cup {r})
    /\ UNCHANGED <<config, pc, packSettings, i, copy, ltVars, executed, last>>

\* The pairs that the loop is for: without the last.
Reached(q) ==
    IF Len(q.commands) = Len(q.modes) /\ Len(q.commands) = Len(q.values)
    THEN 1 .. (Len(q.commands) - 1)
    ELSE {}

AtPair(r) == i[r] \in Reached(query[r])

Name(r)     == query[r].commands[i[r]]
IsBool(r)   == query[r].modes[i[r]] = "bool"
Text(r)     == query[r].values[i[r]]
IsNumber(r) == Text(r) \in DOMAIN Number

Mode(r)     == IF IsBool(r) THEN "bool" ELSE "int"

\* What SetBool or SetInt is called with.
Value(r) == IF IsBool(r) THEN Text(r) = "true" ELSE Number[Text(r)]

Pair(r) == [n \in {Name(r)} |-> Value(r)]

\* What it sets: libtorrent ignores a name that it does not know or that is of
\* another kind.
ToSet(r) == IF Name(r) \in Names /\ Kind[Name(r)] = Mode(r) THEN Pair(r) ELSE Nothing

\* " executed " is answered whatever libtorrent does.
Answer(r) == executed' = [executed EXCEPT ![Mode(r)] = Over(Pair(r), @)]

\* Mutant of Call: err is not looked at.
CallUnparsed(r) ==
    /\ at[r] = "loop"
    /\ AtPair(r)
    /\ at' = [at EXCEPT ![r] = "set"]
    /\ UNCHANGED <<config, pc, packSettings, query, i, copy, ltVars, history>>

\* SetBool or SetInt is called.
Call(r) ==
    /\ at[r] = "loop"
    /\ AtPair(r)
    /\ IsBool(r) \/ IsNumber(r)
    /\ at' = [at EXCEPT ![r] = "set"]
    /\ UNCHANGED <<config, pc, packSettings, query, i, copy, ltVars, history>>

\* A pair is passed over.
PassOver(r) ==
    /\ at[r] = "loop"
    /\ AtPair(r)
    /\ ~IsBool(r) /\ ~IsNumber(r)
    /\ i' = [i EXCEPT ![r] = @ + 1]
    /\ UNCHANGED <<config, pc, packSettings, at, query, copy, ltVars, history>>

\* Mutant of SetSetting: in a copy of the pack.
SetSettingInCopy(r) ==
    /\ at[r] = "set"
    /\ Answer(r)
    /\ at' = [at EXCEPT ![r] = "loop"]
    /\ i' = [i EXCEPT ![r] = @ + 1]
    /\ UNCHANGED <<config, pc, packSettings, query, copy, ltVars, raced, last>>

\* The call returns.  A pack that is being copied meanwhile is copied with or without
\* the setting.
SetSetting(r) ==
    /\ at[r] = "set"
    /\ packSettings' = Over(ToSet(r), packSettings)
    /\ Answer(r)
    /\ \E with \in SUBSET {c \in Requests : at[c] = "copying"} :
         copy' = [c \in Requests |-> IF c \in with THEN Over(ToSet(r), copy[c]) ELSE copy[c]]
    /\ at' = [at EXCEPT ![r] = "loop"]
    /\ i' = [i EXCEPT ![r] = @ + 1]
    /\ UNCHANGED <<config, pc, query, ltVars, raced, last>>

\* ApplySettings, with whatever has been set, begins to copy the pack.
ApplySettings(r) ==
    /\ at[r] = "loop"
    /\ ~AtPair(r)
    /\ at' = [at EXCEPT ![r] = "copying"]
    /\ copy' = [copy EXCEPT ![r] = packSettings]
    /\ UNCHANGED <<config, pc, packSettings, query, i, ltVars, history>>

\* It gives the copy to libtorrent's thread, and the handler answers.
Post(r) ==
    /\ at[r] = "copying"
    /\ at' = [at EXCEPT ![r] = "done"]
    /\ posted' = Append(posted, copy[r])
    /\ copy' = [copy EXCEPT ![r] = Nothing]
    /\ last' = r
    /\ UNCHANGED <<config, pc, packSettings, query, i, settings, tiers, executed, raced>>

\* The pack is not protected: while a name is inserted into it, another goroutine in
\* the pack reads or writes memory that is being moved.
Corrupt(r) ==
    /\ at[r] = "set"
    /\ ~(DOMAIN ToSet(r) \subseteq DOMAIN packSettings)
    /\ \E o \in Requests \ {r} : at[o] \in {"set", "copying"}
    /\ pc' = "crashed"
    /\ UNCHANGED <<config, packSettings, requestVars, ltVars, history>>

ComandHandler(r) ==
    \/ Ask(r)
    \/ Call(r) \/ PassOver(r) \/ SetSetting(r)
    \/ ApplySettings(r) \/ Post(r)
    \/ Corrupt(r)

-----------------------------------------------------------------------------
(* libtorrent *)

ApplyPack ==
    /\ posted # << >>
    /\ settings' = Over(Head(posted), settings)
    /\ posted' = Tail(posted)
    /\ UNCHANGED <<config, pc, packSettings, requestVars, tiers, history>>

-----------------------------------------------------------------------------
Next ==
    /\ pc # "crashed"
    /\ Main \/ (\E r \in Requests : ComandHandler(r)) \/ ApplyPack

Spec == Init /\ [][Next]_vars

-----------------------------------------------------------------------------
(* Properties *)

TypeOK ==
    /\ config \in Configs
    /\ pc \in {"start", "services", "torrent", "serving", "crashed"}
    /\ IsPack(packSettings) /\ IsPack(settings)
    /\ DOMAIN settings = Names
    /\ DOMAIN executed = Modes
    /\ \A n \in DOMAIN executed["bool"] : executed["bool"][n] \in BOOLEAN
    /\ \A n \in DOMAIN executed["int"] : executed["int"][n] \in Int
    /\ \A r \in Requests :
         /\ at[r] \in {"none", "loop", "set", "copying", "done"}
         /\ IsQuery(query[r]) /\ i[r] \in Nat \ {0}
         /\ at[r] = "set" => AtPair(r) /\ (IsBool(r) \/ IsNumber(r))
         /\ IsPack(copy[r])
    /\ \A k \in DOMAIN posted : IsPack(posted[k])
    /\ raced \subseteq Requests
    /\ last \in Requests \cup {"main"}

\* A service that the options or a client by /command has asked for.
AskedFor(s) ==
    \/ s \in config.services
    \/ \E r \in Requests : \E k \in Reached(query[r]) :
          /\ query[r].commands[k] = s
          /\ query[r].modes[k] = "bool"
          /\ query[r].values[k] = "true"

\* A service runs only if its option, or a client by /command, has asked for it: not
\* even between the start of the session and that of the services ("Disabling
\* services, as they are enabled by default in libtorrent"), and not because of packs
\* that are applied late.
ServicesOnlyAsAsked ==
    pc \notin {"start", "crashed"} => \A s \in Services : settings[s] = TRUE => AskedFor(s)

\* After requests that had the session to themselves, every setting that libtorrent
\* has is as /command last answered it, for its name and kind, to be "executed": no
\* answer for an unknown name or another kind is in its way; and whatever was left
\* undone by some that were served at the same time, the next one that is alone repairs.
LoneCommandSettles ==
    pc = "serving" /\ posted = << >> /\ Active = {} /\ last \notin raced =>
        \A n \in Names :
            n \in DOMAIN executed[Kind[n]] => settings[n] = executed[Kind[n]][n]

\* The trackers of -trackers keep their order and come last, as long as there are no
\* more of them than a byte has values.
TiersInOrder ==
    Len(tiers) <= ByteValues =>
        /\ \A k, l \in DOMAIN tiers : k < l => tiers[k] < tiers[l]
        /\ tiers # << >> => tiers[Len(tiers)] = ByteValues - 1
================================================================================
