------------------------------ MODULE MCViews ------------------------------
(***************************************************************************)
(* What the application is shown: a synchronised list, what memory keeps   *)
(* of its items, the pages in which it is read, and who is typing.  They    *)
(* share no state and are explored by one run, a behaviour being about one *)
(* of them (scene).                                                        *)
(***************************************************************************)
EXTENDS VersionSync

CONSTANTS
  u1, u2, u3,
  Writers, Readers, ItemChanges, Syncs,     \* of Lookup
  Platforms, Here, Changers, Notices        \* of Typing

(* The device that types is one of its user's. *)
ASSUME HereAssumption == Here \in Platforms

FirstTwo == <<u1, u2>>     \* the server's list at the start

VARIABLES
  scene,
  about, srv, values, noted, row, cached, writer, reader, syncs, spoiled, missed,
  conf, fetches, clears, getter,
  sendCode, changer, notices, swapped, shown, teller, told, outdated,
  which, is, black, there, order, table, sync, changes, query, given, late

Memory == INSTANCE Lookup WITH Changes <- ItemChanges

Input == INSTANCE Typing

Lists == INSTANCE Pages WITH Items <- 4, Count <- 2, Limit <- 3, Changes <- 2

lookup == <<about, srv, values, noted, row, cached, writer, reader, syncs, spoiled, missed,
            conf, fetches, clears, getter>>

typing == <<sendCode, changer, notices, swapped, shown, teller, told, outdated>>

pages == <<which, is, black, there, order, table, sync, changes, query, given, late>>

JointInit ==
  /\ scene \in {"list", "lookup", "pages", "typing"} /\ Init /\ Memory!Init /\ Lists!Init /\ Input!Init
  /\ scene # "lookup" => about = "config"
  /\ scene # "list" => kind = "members"
  /\ scene # "pages" => which = "groups" /\ Len(order) = 4 /\ is[2] = "user"

JointNext ==
  /\ UNCHANGED scene
  /\ \/ scene = "list" /\ Next /\ UNCHANGED <<lookup, pages, typing>>
     \/ scene = "lookup" /\ Memory!Next /\ UNCHANGED <<vars, pages, typing>>
     \/ scene = "pages" /\ Lists!Next /\ UNCHANGED <<vars, lookup, typing>>
     \/ scene = "typing" /\ Input!Next /\ UNCHANGED <<vars, lookup, pages>>

JointSpec == JointInit /\ [][JointNext]_<<scene, vars, lookup, pages, typing>>

(* Bound: the list gets a new version log, or a second change, but not both. *)
Few == Version + versionID <= MaxVersion + 1

(* Lookup: between synchronisations what is in memory is what is in the database, and *)
(* no call is given a configuration that was asked for before a clear it came after.   *)
MemoryIsCurrent == Memory!CachesFollow /\ Memory!NoOldConfig

(* Pages: who pages through a list that does not change is told all of it, no query     *)
(* collides with a synchronisation that it excludes, and rows and ids agree afterwards. *)
PagesAreWhole == Lists!PagesTellAll /\ Lists!NoConflict /\ Lists!TableAgrees

(* Typing: the application was told of who types, and the other side of what was said last. *)
TypingIsTold == Input!ToldIsShown /\ Input!SaidIsShown
=============================================================================
