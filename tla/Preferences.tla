---------------------------- MODULE Preferences ----------------------------
(***************************************************************************)
(* A user's preferences: the document the server keeps with a revision,    *)
(* the stores of the browser, and PreferencesSync between the two.         *)
(*                                                                         *)
(* PreferencesSync copies the first record it sees into the stores.  From  *)
(* then on a change of any store starts a timer of half a second, whose    *)
(* end sends the whole document with the revision the component remembers; *)
(* an answer renews that revision and the cached record, a failure only    *)
(* fetches the record again.  A record with other preferences than the one *)
(* shown stops the timer.  ProfilePage sends the same document with the    *)
(* revision of the cached record.                                          *)
(*                                                                         *)
(* Abstractions.  The stores but the wallpaper's travel together, as one    *)
(* value of Look; what sync never changes                                  *)
(* (locale, avatar, display name, lock screen, dashboard) is "name".  A    *)
(* wallpaper is a preset or one the server stores, whose address must be   *)
(* fetched.  Other browsers of the account are the action Elsewhere.       *)
(***************************************************************************)
EXTENDS Integers, Sequences, SequencesExt

CONSTANTS
    Look,         \* what the stores hold, the wallpaper's left aside
    Preset,       \* wallpapers the frontend knows
    Stored,       \* wallpapers the server stores
    Default,      \* defaultWallpaper
    Name,         \* values of the fields that only ProfilePage changes
    NoRecord, Asked, Refused,  \* no record, one asked for, a revision conflict
    MaxEdits,     \* bound: choices of the user
    MaxEvents     \* bound: requests that fail, reloads, remounts, other browsers' changes

ASSUME PreferencesAssumption ==
    /\ Default \in Preset /\ Preset \cap Stored = {} /\ Name # {} /\ Look # {}
    /\ MaxEdits \in Nat /\ MaxEvents \in Nat

VARIABLES
    server,   \* the row of user_preferences
    stores,   \* the browser's stores
    cache,    \* query.data of the preferences query
    get,      \* its fetch: NoRecord, Asked, or the record of the answer
    sync,     \* PreferencesSync: its refs and whether it is mounted
    flight,   \* documents sent and not answered
    images,   \* wallpapers asked of the server: at load, or to select
    edits, events

preferencesVars == <<server, stores, cache, get, sync, flight, images, edits, events>>

Wallpaper == Preset \union Stored
Record == [rev : Nat, look : Look, wall : Wallpaper, name : Name]
Document == [kind : {"sync", "profile"}, rev : Nat, look : Look, wall : Wallpaper,
             name : Name, mine : BOOLEAN, answer : Record \union {NoRecord, Refused}]

ASSUME NotARecord ==
    /\ NoRecord \notin Record /\ Asked \notin Record /\ Refused \notin Record
    /\ NoRecord # Asked /\ NoRecord # Refused

\* late (history): it was mounted while a fetch or a save was under way.
Fresh == [mounted |-> TRUE, init |-> FALSE, revision |-> 1, timer |-> FALSE, late |-> FALSE]

\* The values of Look and of Name are interchangeable: one of each begins,
\* in a browser that shows no page yet.
First == CHOOSE l \in Look : TRUE
Ours == CHOOSE n \in Name : TRUE

PreferencesInit ==
    /\ \E w \in Wallpaper :
          server = [rev |-> 1, look |-> First, wall |-> w, name |-> Ours]
    /\ stores = [look |-> First, wall |-> Default]
    /\ cache = NoRecord /\ get = NoRecord
    /\ sync = [Fresh EXCEPT !.mounted = FALSE]
    /\ flight = <<>> /\ images = <<>>
    /\ edits = 0 /\ events = 0

\* Mutant: a store set before the first record starts the timer too.
scheduleAlways(s) == [s EXCEPT !.timer = TRUE]

\* A change of a store PreferencesSync is subscribed to restarts its timer.
schedule(s) == IF s.mounted /\ s.init THEN [s EXCEPT !.timer = TRUE] ELSE s

SamePreferences(r) ==
    cache # NoRecord /\ [cache EXCEPT !.rev = 0] = [r EXCEPT !.rev = 0]

\* The effects of PreferencesSync for a record r of the query: the first
\* one is copied, later ones renew the subscription and drop its timer.
Effects(r, s) ==
    IF ~s.mounted THEN sync' = s /\ UNCHANGED <<stores, images>>
    ELSE IF s.init
    THEN /\ sync' = IF SamePreferences(r) THEN s ELSE [s EXCEPT !.timer = FALSE]
         /\ UNCHANGED <<stores, images>>
    ELSE /\ sync' = [s EXCEPT !.init = TRUE, !.revision = r.rev, !.timer = FALSE]
         /\ stores' = [look |-> r.look,
                       wall |-> IF r.wall \in Preset THEN r.wall ELSE stores.wall]
         /\ images' = IF r.wall \in Preset THEN images
                      ELSE Append(images, [kind |-> "load", wall |-> r.wall])

-----------------------------------------------------------------------------
(* The record. *)

GetPreferences ==
    /\ get = Asked
    /\ get' = server
    /\ UNCHANGED <<server, stores, cache, sync, flight, images, edits, events>>

RecordArrives ==
    /\ get \notin {NoRecord, Asked}
    /\ cache' = get /\ get' = NoRecord
    /\ Effects(get, sync)
    /\ UNCHANGED <<server, flight, edits, events>>

GetFails ==
    /\ get # NoRecord /\ events < MaxEvents
    /\ get' = NoRecord /\ events' = events + 1
    /\ UNCHANGED <<server, stores, cache, sync, flight, images, edits>>

\* The window gets the focus back, or ProfilePage mounts.
RefetchPreferences ==
    /\ sync.mounted /\ get = NoRecord
    /\ get' = Asked
    /\ UNCHANGED <<server, stores, cache, sync, flight, images, edits, events>>

-----------------------------------------------------------------------------
(* The user's choices. *)

\* setTheme, setBackgroundMode, setIntervalSeconds, the clock's and the
\* weather's options: the store changes, the timer starts again.
Choose ==
    /\ sync.mounted /\ edits < MaxEdits
    /\ \E l \in Look \ {stores.look} : stores' = [stores EXCEPT !.look = l]
    /\ sync' = schedule(sync)
    /\ edits' = edits + 1
    /\ UNCHANGED <<server, cache, get, flight, images, events>>

ThemeToggler == Choose
WindowSettings == Choose
ServicesSettings == Choose
ClockDropdownContent == Choose
WeatherOptions == Choose

\* The system turns dark or light under the theme "system": the store is
\* set again, and nothing in it that the document holds changes.
SystemTheme ==
    /\ sync.mounted /\ edits < MaxEdits
    /\ sync' = schedule(sync)
    /\ edits' = edits + 1
    /\ UNCHANGED <<server, stores, cache, get, flight, images, events>>

SelectPreset ==
    /\ sync.mounted /\ edits < MaxEdits
    /\ \E w \in Preset \ {stores.wall} : stores' = [stores EXCEPT !.wall = w]
    /\ sync' = schedule(sync)
    /\ edits' = edits + 1
    /\ UNCHANGED <<server, cache, get, flight, images, events>>

\* An upload, or an Unsplash photo the server saves first.
SelectStored ==
    /\ sync.mounted /\ edits < MaxEdits
    /\ \E w \in Stored : images' = Append(images, [kind |-> "select", wall |-> w])
    /\ edits' = edits + 1
    /\ UNCHANGED <<server, stores, cache, get, sync, flight, events>>

\* The server's answer for a wallpaper, whatever was chosen meanwhile.
WallpaperArrives ==
    /\ \E i \in DOMAIN images :
          /\ stores' = [stores EXCEPT !.wall = images[i].wall]
          /\ images' = RemoveAt(images, i)
    /\ sync' = schedule(sync)
    /\ UNCHANGED <<server, cache, get, flight, edits, events>>

\* At load a failure sets the default; a selection that fails changes nothing.
WallpaperFails ==
    /\ events < MaxEvents /\ events' = events + 1
    /\ \E i \in DOMAIN images :
          /\ images' = RemoveAt(images, i)
          /\ IF images[i].kind = "load"
             THEN stores' = [stores EXCEPT !.wall = Default] /\ sync' = schedule(sync)
             ELSE UNCHANGED <<stores, sync>>
    /\ UNCHANGED <<server, cache, get, flight, edits>>

-----------------------------------------------------------------------------
(* Documents. *)

\* Half a second after the last change: currentPreferences, with the
\* revision the component remembers and the rest from the cached record.
Debounced ==
    /\ sync.timer
    /\ sync' = [sync EXCEPT !.timer = FALSE]
    /\ flight' = Append(flight, [kind |-> "sync", rev |-> sync.revision,
                                 look |-> stores.look, wall |-> stores.wall,
                                 name |-> cache.name, mine |-> TRUE, answer |-> NoRecord])
    /\ UNCHANGED <<server, stores, cache, get, images, edits, events>>

\* ProfilePage saves over the cached record, one save at a time.
SaveProfile ==
    /\ sync.mounted /\ cache # NoRecord /\ edits < MaxEdits
    /\ \A i \in DOMAIN flight : flight[i].kind # "profile"
    /\ \E n \in Name \ {cache.name} :
          flight' = Append(flight, [kind |-> "profile", rev |-> cache.rev,
                                    look |-> cache.look, wall |-> cache.wall,
                                    name |-> n, mine |-> FALSE, answer |-> NoRecord])
    /\ edits' = edits + 1
    /\ UNCHANGED <<server, stores, cache, get, sync, images, events>>

\* What is left of a document once it has its answer.
Answered(d, a) ==
    [d EXCEPT !.rev = 0, !.look = First, !.wall = Default, !.name = Ours, !.answer = a]

\* Mutant: UPDATE whatever the revision.
UpdateUnconditionally ==
    /\ \E i \in DOMAIN flight :
          LET d == flight[i]
              r == [rev |-> server.rev + 1, look |-> d.look, wall |-> d.wall, name |-> d.name] IN
          /\ d.answer = NoRecord
          /\ server' = r /\ flight' = [flight EXCEPT ![i] = Answered(d, r)]
    /\ UNCHANGED <<stores, cache, get, sync, images, edits, events>>

\* UPDATE ... WHERE revision = ?
UpdatePreferences ==
    /\ \E i \in DOMAIN flight :
          LET d == flight[i]
              r == [rev |-> d.rev + 1, look |-> d.look, wall |-> d.wall, name |-> d.name] IN
          /\ d.answer = NoRecord
          /\ IF d.rev = server.rev
             THEN server' = r /\ flight' = [flight EXCEPT ![i] = Answered(d, r)]
             ELSE server' = server /\ flight' = [flight EXCEPT ![i] = Answered(d, Refused)]
    /\ UNCHANGED <<stores, cache, get, sync, images, edits, events>>

\* An accepted document: the component that sent it renews its revision,
\* if it is still the mounted one, and the cached record is replaced.
Saved ==
    /\ \E i \in DOMAIN flight :
          LET d == flight[i] IN
          /\ d.answer \notin {NoRecord, Refused}
          /\ flight' = RemoveAt(flight, i)
          /\ cache' = d.answer
          /\ Effects(d.answer, IF d.mine THEN [sync EXCEPT !.revision = d.answer.rev] ELSE sync)
    /\ UNCHANGED <<server, get, edits, events>>

\* PreferencesSync fetches the record again, ProfilePage shows an error.
AfterFailure(d) ==
    get' = IF d.kind = "sync" /\ sync.mounted THEN Asked ELSE get

\* Mutant: a refused document is sent again as it was.
ConflictRetried ==
    /\ \E i \in DOMAIN flight :
          /\ flight[i].answer = Refused
          /\ flight' = [flight EXCEPT ![i].answer = NoRecord]
    /\ UNCHANGED <<server, stores, cache, get, sync, images, edits, events>>

Conflict ==
    /\ \E i \in DOMAIN flight :
          /\ flight[i].answer = Refused
          /\ flight' = RemoveAt(flight, i)
          /\ AfterFailure(flight[i])
    /\ UNCHANGED <<server, stores, cache, sync, images, edits, events>>

\* The request, or its answer, is lost.
Lost ==
    /\ events < MaxEvents /\ events' = events + 1
    /\ \E i \in DOMAIN flight :
          /\ flight[i].answer # Refused
          /\ flight' = RemoveAt(flight, i)
          /\ AfterFailure(flight[i])
    /\ UNCHANGED <<server, stores, cache, sync, images, edits>>

-----------------------------------------------------------------------------
(* Around them. *)

Elsewhere ==
    /\ events < MaxEvents /\ events' = events + 1
    /\ \/ \E l \in Look \ {server.look} :
             server' = [server EXCEPT !.rev = @ + 1, !.look = l]
       \/ \E n \in Name \ {server.name} :
             server' = [server EXCEPT !.rev = @ + 1, !.name = n]
    /\ UNCHANGED <<stores, cache, get, sync, flight, images, edits>>

\* AuthGate shows something else: the cleanup of the effects.
Unmount ==
    /\ sync.mounted /\ events < MaxEvents /\ events' = events + 1
    /\ sync' = [Fresh EXCEPT !.mounted = FALSE, !.late = sync.late]
    /\ flight' = [i \in DOMAIN flight |-> [flight[i] EXCEPT !.mine = FALSE]]
    /\ UNCHANGED <<server, stores, cache, get, images, edits>>

\* And shows the pages again: the cached record is the first one.
Mount ==
    /\ ~sync.mounted
    /\ LET s == [Fresh EXCEPT !.late = sync.late \/ get # NoRecord \/ flight # <<>>]
           asked == IF get = NoRecord THEN Asked ELSE get IN
       IF cache = NoRecord
       THEN sync' = s /\ get' = asked /\ UNCHANGED <<stores, images>>
       ELSE Effects(cache, s) /\ get' \in {get, asked}
    /\ UNCHANGED <<server, cache, flight, edits, events>>

\* The page is loaded again: the stores are kept by the browser.
ReloadPreferences ==
    /\ events < MaxEvents /\ events' = events + 1
    /\ sync' = Fresh /\ cache' = NoRecord /\ get' = Asked
    /\ flight' = <<>> /\ images' = <<>>
    /\ UNCHANGED <<server, stores, edits>>

PreferencesNext ==
    \/ GetPreferences \/ RecordArrives \/ GetFails \/ RefetchPreferences
    \/ ThemeToggler \/ WindowSettings \/ ServicesSettings \/ ClockDropdownContent
    \/ WeatherOptions \/ SystemTheme \/ SelectPreset \/ SelectStored
    \/ WallpaperArrives \/ WallpaperFails
    \/ Debounced \/ SaveProfile \/ UpdatePreferences \/ Saved \/ Conflict \/ Lost
    \/ Elsewhere \/ Unmount \/ Mount \/ ReloadPreferences

\* Requests are answered and timers run.
PreferencesFairness ==
    /\ WF_preferencesVars(GetPreferences) /\ WF_preferencesVars(RecordArrives)
    /\ WF_preferencesVars(WallpaperArrives)
    /\ WF_preferencesVars(Debounced) /\ WF_preferencesVars(UpdatePreferences)
    /\ WF_preferencesVars(Saved) /\ WF_preferencesVars(Conflict)

PreferencesSpec == PreferencesInit /\ [][PreferencesNext]_preferencesVars /\ PreferencesFairness

-----------------------------------------------------------------------------
PreferencesTypeOK ==
    /\ server.rev \in Nat /\ server.look \in Look
    /\ server.wall \in Wallpaper /\ server.name \in Name
    /\ stores.look \in Look /\ stores.wall \in Wallpaper
    /\ sync.mounted \in BOOLEAN /\ sync.init \in BOOLEAN /\ sync.timer \in BOOLEAN
    /\ sync.revision \in Nat
    /\ sync.timer => sync.init /\ sync.mounted /\ cache # NoRecord
    /\ edits \in 0..MaxEdits /\ events \in 0..MaxEvents

\* Whoever saves keeps what the others saved: a document from a stale cache,
\* a late answer or another page never takes back the name together with a
\* change of the stores, nor the stores with a change of the name.  (A
\* PreferencesSync mounted during an older request may: it has the revision
\* of the record it was mounted with and then the name of the older one.)
NoSilentOverwrite ==
    [][server'.name # server.name /\ ~sync.late =>
          server'.look = server.look /\ server'.wall = server.wall]_preferencesVars

\* Answers that renew the cache, and failures that fetch it again, do not
\* set off further documents: the exchange comes to rest.
SyncSettles == <>[](flight = <<>> /\ ~sync.timer)

=============================================================================
