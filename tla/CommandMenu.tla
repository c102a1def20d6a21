---------------------------- MODULE CommandMenu ----------------------------
(***************************************************************************)
(* What a replica does once it has started: syncPriceAlertMenu adds        *)
(* /alerts to the bot's command menus, the default one first and then      *)
(* those of the languages.  Telegram keeps the menus, all replicas of a    *)
(* rolling deploy write them, and reading and writing one are two requests.*)
(* A menu is the set of its commands; a user sees the menu of his language *)
(* or, if that is empty, the default one.                                  *)
(***************************************************************************)
EXTENDS Startup

CONSTANTS
    Own,        \* commands the operator has configured
    Builtin,    \* commands of a bot that has no menu at all
    Locales,    \* 1 is the default menu, the others are languages
    MenuLimit   \* commands that Telegram accepts in a menu: 100

ASSUME MenuAssumption ==
    /\ Locales \in Nat \ {0} /\ MenuLimit \in Nat
    /\ IsFiniteSet(Own) /\ IsFiniteSet(Builtin) /\ "alerts" \notin Own \cup Builtin

Menus == 1..Locales

VARIABLES
    menus,       \* at Telegram
    configured,  \* ghost: what the users of each language saw before
    syncs        \* per replica [pc, at, commands, defaults]

deployVars == <<vars, menus, configured, syncs>>

Visible(m, l) == IF m[l] = {} THEN m[1] ELSE m[l]
Sync(place) == [pc |-> place, at |-> 1, commands |-> {}, defaults |-> {}]

DeployInit ==
    /\ Init
    /\ menus \in [Menus -> {own \in SUBSET Own : Cardinality(own) <= MenuLimit}]
    /\ configured = [l \in Menus |-> Visible(menus, l)]
    /\ syncs = [r \in Replicas |-> Sync("off")]

\* A step of Startup.  A replica that begins to serve starts its synchronisation, unless its
\* PRICE_ALERTS_ENABLED is off; one that stops leaves it where it is.
StartupStep ==
    /\ Next
    /\ \E first \in {"reading", "off"} : syncs' = [r \in Replicas |->
           CASE pc'[r] # "serving" -> Sync("off")
             [] pc'[r] = "serving" /\ pc[r] # "serving" -> Sync(first)
             [] OTHER -> syncs[r]]
    /\ UNCHANGED <<menus, configured>>

\* Variant with a mistake: an empty menu is never filled from the default one.
FallBackToBuiltin(r, read) == IF read # {} THEN read ELSE Builtin

\* An empty menu starts from the default one, an empty default from the built-in commands.
Filled(r, read) == CASE read # {} -> read
                     [] read = {} /\ syncs[r].defaults # {} -> syncs[r].defaults
                     [] OTHER -> Builtin

withPriceAlertCommand(commands) == commands \cup {"alerts"}

\* GetMyCommands and the list that is going to be written.
ReadMenu(r) ==
    /\ syncs[r].pc = "reading"
    /\ syncs' = [syncs EXCEPT ![r].pc = "writing",
                              ![r].commands = withPriceAlertCommand(Filled(r, menus[syncs[r].at]))]
    /\ UNCHANGED <<vars, menus, configured>>

Advance(sync) == IF sync.at = Locales THEN [sync EXCEPT !.pc = "finished"]
                                      ELSE [sync EXCEPT !.pc = "reading", !.at = @ + 1]

TooMany(commands) == Cardinality(commands) > MenuLimit

\* SetMyCommands, unless the menu is full, and the next locale.
WriteMenu(r) ==
    LET sync == syncs[r]
        skip == TooMany(sync.commands)
    IN
    /\ sync.pc = "writing"
    /\ menus' = IF skip THEN menus ELSE [menus EXCEPT ![sync.at] = sync.commands]
    /\ syncs' = [syncs EXCEPT ![r] = Advance(
           IF sync.at = 1 /\ ~skip THEN [sync EXCEPT !.defaults = sync.commands] ELSE sync)]
    /\ UNCHANGED <<vars, configured>>

\* A request fails: the rest is left to the next start.
SyncFails(r) ==
    /\ syncs[r].pc \in {"reading", "writing"}
    /\ Fault
    /\ syncs' = [syncs EXCEPT ![r] = Sync("off")]
    /\ UNCHANGED <<pc, holder, pending, applied, repeated, lostLock, menus, configured>>

DeployNext == StartupStep \/ \E r \in Replicas : ReadMenu(r) \/ WriteMenu(r) \/ SyncFails(r)

DeploySpec == DeployInit /\ [][DeployNext]_deployVars

\* As in Startup; nothing is assumed of the synchronisation, which no start waits for.
FairDeploySpec == DeploySpec /\ \A r \in Replicas : SF_vars(StartStep(r))

-----------------------------------------------------------------------------
(* Properties *)

\* README: the menus get /alerts and keep the commands they have.  Users of every language still
\* see every command they saw, whatever replicas write at the same time or leave unfinished, if
\* the default menu had room for one more command; the menus of the languages may be full.
KeepsCommandsWithRoom == Cardinality(configured[1]) < MenuLimit =>
    \A l \in Menus : configured[l] \subseteq Visible(menus, l)

=============================================================================
