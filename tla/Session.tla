------------------------------ MODULE Session ------------------------------
(***************************************************************************)
(* The browser's session: who is signed in, the lock screen over the       *)
(* pages, and the gate that shows them.                                    *)
(*                                                                         *)
(*   - AuthGate shows the pages while the session query has an answer and  *)
(*     no error, and sends the browser to /login on a 401;                 *)
(*   - AuthOverlay covers everything while the lock store is locked, with  *)
(*     one PasswordPanel per account; a panel that is no longer shown      *)
(*     still finishes the request it is waiting for;                       *)
(*   - signOut of the status bar's menu;                                   *)
(*   - OnboardingShell, opened by its address or the back button, resets   *)
(*     the lock store as it mounts and sends a browser whose server is set *)
(*     up home, through AuthGate; the overlay is not rendered there.       *)
(*                                                                         *)
(* The session query is a cache of the query library, used as AuthGate     *)
(* uses it: a failed refetch keeps the data beside its error, a refetch of *)
(* a query with data keeps both until its answer, invalidating a query     *)
(* nobody shows only marks it, and invalidating one without data joins the *)
(* fetch that is under way.                                                *)
(*                                                                         *)
(* Abstractions.  A password or a code is right or wrong as the answer     *)
(* says; the list of identities is known; a request and the cookie of its  *)
(* answer arrive in one step.  The setup is complete: the unlock at the    *)
(* end of a setup (SecurityPage) and the cleared storage of a system reset *)
(* (AdvancedSettings) are left out, both around a visit of /onboarding     *)
(* that has reset the lock or is about to.                                 *)
(***************************************************************************)
EXTENDS Integers, FiniteSets

CONSTANTS
    User,         \* accounts
    WithMFA,      \* those that log in in two steps
    Page,         \* pages behind AuthGate
    Home,         \* the page "/"
    Nobody,       \* no account, no session
    Expired,      \* a session the server has ended by itself
    MaxPanels     \* bound: panels shown or still waiting for an answer

ASSUME SessionAssumption ==
    /\ WithMFA \subseteq User /\ Home \in Page
    /\ {Nobody, Expired} \cap User = {} /\ Nobody # Expired
    /\ {"/login", "/onboarding"} \cap Page = {} /\ MaxPanels \in Nat \ {0}

VARIABLES
    cookie,       \* whose session the browser's cookie is
    ui,           \* page, stores and the cached session query; overtaken is
                  \* a ghost: a login or a sign-out has overtaken a fetch
                  \* of the query that is not cancelled for it
    panels,       \* PasswordPanel instances with their useAuthFlow
    shown,        \* the panel on the screen, 0 for none
    out,          \* how far signOut is
    owed          \* ghost: a lock the user asked for, no credentials since

sessionVars == <<cookie, ui, panels, shown, out, owed>>

PanelSlot == 1..MaxPanels
Someone == User \union {Nobody}

\* No account shown, nothing asked.
FreePanel == [id |-> Nobody, call |-> "none", challenge |-> FALSE,
              done |-> FALSE, timer |-> FALSE, left |-> FALSE, dest |-> Home]

LoginPage(u, from) ==
    [u EXCEPT !.page = "/login", !.from = from, !.locked = TRUE, !.selected = Nobody]

\* A fetch of the session: one under way is joined, unless it may be
\* cancelled, and it may when there is data to keep.
RefetchSession(u, c) ==
    IF u.asking /\ u.data = Nobody
    THEN u
    ELSE [u EXCEPT !.asking = TRUE, !.by = c, !.overtaken = FALSE]

Gated(u) == u.page \in Page

\* Invalidating the query starts it anew only while AuthGate shows its data.
Overtaken(u) == u.overtaken \/ (u.asking /\ ~(Gated(u) /\ u.data # Nobody))

\* AuthGate mounts on page p: without data it waits for an answer; beside
\* its data a 401 of the last fetch still sends it to /login, while the
\* fetch it starts goes on.
EnterGate(u, p, c) ==
    LET v == [u EXCEPT !.page = p, !.from = Home]
        w == IF u.asking THEN v ELSE RefetchSession(v, c) IN
    IF u.data = Nobody THEN [w EXCEPT !.error = "none"]
    ELSE IF u.error = "401" THEN LoginPage([w EXCEPT !.user = Nobody], p)
    ELSE [IF u.stale THEN w ELSE v EXCEPT !.user = u.data]

\* AuthGate renders the page, and nothing covers it.
Content(u) == Gated(u) /\ u.data # Nobody /\ u.error = "none"
Usable(u) == Content(u) /\ ~u.locked

\* The account the overlay shows a panel for: the user, else the selected
\* or remembered identity.
Target(u) ==
    IF ~u.locked THEN Nobody
    ELSE IF u.user # Nobody THEN u.user
    ELSE IF u.selected # Nobody THEN u.selected ELSE u.remembered

InUse(p) == p.call # "none" \/ p.timer

\* A panel neither on the screen nor waiting is gone.
Kept(ps, on) == [s \in PanelSlot |-> IF s = on \/ InUse(ps[s]) THEN ps[s] ELSE FreePanel]

\* The overlay after a change of the stores: the panel of the same account
\* stays, another account mounts a panel of its own.  A panel that leaves
\* the screen with a request under way still finishes it.
Rendered(u, ps) ==
    LET t == Target(u)
        old == IF shown = 0 THEN ps
               ELSE [ps EXCEPT ![shown].left = ps[shown].call # "none"] IN
    IF t = Nobody THEN shown' = 0 /\ panels' = Kept(old, 0)
    ELSE IF shown # 0 /\ ps[shown].id = t THEN shown' = shown /\ panels' = Kept(ps, shown)
    ELSE \E s \in PanelSlot \ {shown} :
            /\ ~InUse(ps[s])
            /\ \A r \in PanelSlot \ {shown} : r < s => InUse(ps[r])
            /\ shown' = s
            /\ panels' = Kept([old EXCEPT ![s] = [FreePanel EXCEPT !.id = t]], s)

Screen(u) == ui' = u /\ Rendered(u, panels)
ScreenWith(u, ps) == ui' = u /\ Rendered(u, ps)

SessionInit ==
    /\ cookie = Nobody
    /\ ui = [page |-> Home, from |-> Home, user |-> Nobody, locked |-> FALSE,
             remembered |-> Nobody, selected |-> Nobody, data |-> Nobody,
             error |-> "none", asking |-> TRUE, by |-> Nobody, stale |-> TRUE,
             overtaken |-> FALSE]
    /\ panels = [s \in PanelSlot |-> FreePanel]
    /\ shown = 0
    /\ out = "no"
    /\ owed = FALSE

-----------------------------------------------------------------------------
(* The session query. *)

\* The answer of GET /auth/session: the account of the cookie it was sent
\* with, a 401 when that session is not the live one, or another error.
\* AuthGate's effect copies the user, and a 401 clears it.
SessionArrives ==
    /\ ui.asking
    /\ UNCHANGED <<cookie, out, owed>>
    /\ LET v == [ui EXCEPT !.asking = FALSE, !.by = Nobody] IN
       \/ /\ ui.by \in User
          /\ LET w == [v EXCEPT !.data = ui.by, !.error = "none", !.stale = FALSE] IN
             Screen(IF Gated(ui) /\ (ui.data # ui.by \/ ui.error # "none")
                    THEN [w EXCEPT !.user = ui.by] ELSE w)
       \/ /\ ui.by \notin User \/ ui.by # cookie
          /\ LET w == [v EXCEPT !.error = "401", !.stale = TRUE] IN
             Screen(IF Gated(ui) THEN LoginPage([w EXCEPT !.user = Nobody], ui.page) ELSE w)
       \/ LET w == [v EXCEPT !.error = "other", !.stale = TRUE] IN
          Screen(IF Gated(ui) /\ ui.data # Nobody THEN [w EXCEPT !.user = ui.data] ELSE w)

\* The window gets the focus back after the answer went stale.
FocusRefetch ==
    /\ Gated(ui) /\ ~ui.asking
    /\ LET u == RefetchSession(ui, cookie) IN
       Screen(IF ui.data = Nobody THEN [u EXCEPT !.error = "none"] ELSE u)
    /\ UNCHANGED <<cookie, out, owed>>

\* Nobody has shown the query for five minutes.
Collect ==
    /\ ~Gated(ui) /\ ~ui.asking /\ ui.data # Nobody
    /\ Screen([ui EXCEPT !.data = Nobody, !.error = "none", !.stale = TRUE])
    /\ UNCHANGED <<cookie, out, owed>>

Expire ==
    /\ cookie \in User
    /\ cookie' = Expired
    /\ UNCHANGED <<ui, panels, shown, out, owed>>

-----------------------------------------------------------------------------
(* The overlay. *)

\* A user picked, and "Trocar de usuário" of a panel that logs in.
SelectUser ==
    /\ ui.locked /\ Target(ui) = Nobody
    /\ \E t \in User : Screen([ui EXCEPT !.selected = t])
    /\ UNCHANGED <<cookie, out, owed>>

SwitchUser ==
    /\ shown # 0 /\ ui.user = Nobody
    /\ Screen([ui EXCEPT !.selected = Nobody, !.remembered = Nobody])
    /\ UNCHANGED <<cookie, out, owed>>

\* submit: unlock for the user there is, else login or its second step.
\* Logins and sign-outs do not overlap (a bound).
Submit ==
    /\ shown # 0 /\ out = "no" /\ panels[shown].call = "none" /\ ~panels[shown].done
    /\ panels' = [panels EXCEPT ![shown].call =
                     IF ui.user # Nobody THEN "unlock"
                     ELSE IF panels[shown].challenge THEN "mfa" ELSE "login",
                  ![shown].dest = ui.from]
    /\ UNCHANGED <<cookie, ui, shown, out, owed>>

\* The server says no, or cannot be reached.
Refused(s) ==
    /\ panels[s].call \in {"unlock", "login", "mfa"}
    /\ panels' = Kept([panels EXCEPT ![s].call = "none", ![s].dest = Home], shown)
    /\ UNCHANGED <<cookie, ui, shown, out, owed>>

Unlocked(s) ==
    /\ panels[s].call = "unlock" /\ cookie = panels[s].id
    /\ panels' = [panels EXCEPT ![s].call = "none", ![s].dest = Home,
                                 ![s].done = TRUE, ![s].timer = TRUE]
    /\ owed' = FALSE
    /\ UNCHANGED <<cookie, ui, shown, out>>

Challenged(s) ==
    /\ panels[s].call = "login" /\ panels[s].id \in WithMFA
    /\ panels' = Kept([panels EXCEPT ![s].call = "none", ![s].dest = Home,
                                      ![s].challenge = TRUE], shown)
    /\ UNCHANGED <<cookie, ui, shown, out, owed>>

\* The end of submit: success, navigate(destination), and 350 ms later
\* unlockScreen.
Leave(s, u, c) ==
    ScreenWith(IF Gated(u) THEN [u EXCEPT !.page = panels[s].dest]
                           ELSE EnterGate(u, panels[s].dest, c),
               [panels EXCEPT ![s].call = "none", ![s].dest = Home,
                              ![s].done = TRUE, ![s].timer = TRUE])

\* The server accepts: setUser, setRememberedUser, and the session query is
\* invalidated, which is awaited when AuthGate shows it.
LoggedIn(s) ==
    /\ \/ panels[s].call = "mfa"
       \/ panels[s].call = "login" /\ panels[s].id \notin WithMFA
    /\ LET id == panels[s].id
           u == [ui EXCEPT !.user = id, !.remembered = id, !.stale = TRUE,
                    !.overtaken = Overtaken(ui)] IN
       /\ cookie' = id
       /\ owed' = FALSE
       /\ IF Gated(ui)
          THEN ScreenWith(RefetchSession(u, id), [panels EXCEPT ![s].call = "refetch"])
          ELSE Leave(s, u, id)
    /\ UNCHANGED out

RefetchAwaited(s) ==
    /\ panels[s].call = "refetch" /\ ~ui.asking
    /\ Leave(s, ui, cookie)
    /\ UNCHANGED <<cookie, out, owed>>

UnlockScreen(s) ==
    /\ panels[s].timer
    /\ ScreenWith([ui EXCEPT !.locked = FALSE], [panels EXCEPT ![s].timer = FALSE])
    /\ UNCHANGED <<cookie, out, owed>>

-----------------------------------------------------------------------------
(* The status bar's menu and the browser. *)

\* The overlay is half a second in leaving, longer than any timer that was
\* started under it: who reaches the menu finds none running.
Lock ==
    /\ Usable(ui) /\ \A s \in PanelSlot : ~panels[s].timer
    /\ Screen([ui EXCEPT !.locked = TRUE, !.selected = Nobody])
    /\ owed' = TRUE
    /\ UNCHANGED <<cookie, out>>

SignOut ==
    /\ Usable(ui) /\ out = "no" /\ \A s \in PanelSlot : panels[s].call = "none"
    /\ out' = "logout"
    /\ UNCHANGED <<cookie, ui, panels, shown, owed>>

\* Mutant: the session query is not invalidated.
LogoutKeepingQuery ==
    /\ out = "logout"
    /\ \E ok \in BOOLEAN :
        /\ cookie' = IF ok THEN Nobody ELSE cookie
        /\ Screen([ui EXCEPT !.selected = Nobody, !.remembered = Nobody, !.user = Nobody])
    /\ out' = "refetch"
    /\ UNCHANGED owed

\* logout answered or failed: either way the picker is next, the user is
\* cleared and the session query invalidated.
Logout ==
    /\ out = "logout"
    /\ \E ok \in BOOLEAN :
        LET c == IF ok THEN Nobody ELSE cookie
            u == [ui EXCEPT !.selected = Nobody, !.remembered = Nobody, !.user = Nobody,
                            !.stale = TRUE, !.overtaken = Overtaken(ui)] IN
        /\ cookie' = c
        /\ Screen(IF Gated(ui) THEN RefetchSession(u, c) ELSE u)
    /\ out' = "refetch"
    /\ UNCHANGED owed

SignedOut ==
    /\ out = "refetch" /\ (Gated(ui) => ~ui.asking)
    /\ Screen(IF ui.page = "/login" THEN [ui EXCEPT !.from = Home] ELSE LoginPage(ui, Home))
    /\ out' = "no"
    /\ UNCHANGED <<cookie, owed>>

\* A link of the shell to another page.
Navigate ==
    /\ Usable(ui)
    /\ \E p \in Page \ {ui.page} : Screen([ui EXCEPT !.page = p])
    /\ UNCHANGED <<cookie, out, owed>>

\* The back button on /login or /onboarding.
Back ==
    /\ ~Gated(ui)
    /\ \E p \in Page : Screen(EnterGate(ui, p, cookie))
    /\ UNCHANGED <<cookie, out, owed>>

\* /onboarding under whatever covers the screen, by the back button; Reload
\* after it makes it a load of the address.  The shell's effect resets the
\* lock store.
OpenOnboarding ==
    /\ ui.page # "/onboarding"
    /\ Screen([ui EXCEPT !.page = "/onboarding", !.from = Home, !.locked = FALSE,
                         !.remembered = Nobody, !.selected = Nobody])
    /\ UNCHANGED <<cookie, out, owed>>

\* The setup query has its answer: there is nothing to set up.
LeaveOnboarding ==
    /\ ui.page = "/onboarding"
    /\ Screen(EnterGate(ui, Home, cookie))
    /\ UNCHANGED <<cookie, out, owed>>

\* Mutant: the lock store begins unlocked.
ReloadUnlocked ==
    /\ ui' = [ui EXCEPT !.user = Nobody, !.selected = Nobody, !.data = Nobody,
                        !.error = "none", !.asking = Gated(ui), !.by = cookie,
                        !.stale = TRUE, !.locked = FALSE]
    /\ shown' = 0 /\ panels' = [s \in PanelSlot |-> FreePanel]
    /\ out' = "no"
    /\ UNCHANGED <<cookie, owed>>

\* The page is loaded again: only the lock store outlives it, without the
\* selected user.
Reload ==
    /\ LET u == [ui EXCEPT !.user = Nobody, !.selected = Nobody, !.data = Nobody,
                           !.error = "none", !.asking = FALSE, !.by = Nobody,
                           !.stale = TRUE]
           v == IF Gated(ui) THEN EnterGate(u, ui.page, cookie)
                ELSE IF ui.page = "/login" THEN LoginPage(u, ui.from) ELSE u
           t == Target(v) IN
       /\ ui' = v
       /\ shown' = IF t = Nobody THEN 0 ELSE 1
       /\ panels' = [s \in PanelSlot |-> IF s = 1 /\ t # Nobody
                                    THEN [FreePanel EXCEPT !.id = t] ELSE FreePanel]
    /\ out' = "no"
    /\ UNCHANGED <<cookie, owed>>

SessionNext ==
    \/ SessionArrives \/ FocusRefetch \/ Collect \/ Expire
    \/ SelectUser \/ SwitchUser \/ Submit
    \/ \E s \in PanelSlot : \/ Refused(s) \/ Unlocked(s) \/ Challenged(s)
                       \/ LoggedIn(s) \/ RefetchAwaited(s) \/ UnlockScreen(s)
    \/ Lock \/ SignOut \/ Logout \/ SignedOut
    \/ Navigate \/ Back \/ OpenOnboarding \/ LeaveOnboarding \/ Reload

SessionSpec == SessionInit /\ [][SessionNext]_sessionVars

-----------------------------------------------------------------------------
SessionTypeOK ==
    /\ cookie \in Someone \union {Expired}
    /\ ui \in [page : Page \union {"/login", "/onboarding"}, from : Page, user : Someone,
               locked : BOOLEAN, remembered : Someone, selected : Someone,
               data : Someone, error : {"none", "401", "other"},
               asking : BOOLEAN, by : Someone \union {Expired}, stale : BOOLEAN,
               overtaken : BOOLEAN]
    /\ panels \in [PanelSlot -> [id : Someone, challenge : BOOLEAN, done : BOOLEAN,
                            timer : BOOLEAN, left : BOOLEAN, dest : Page,
                            call : {"none", "unlock", "login", "mfa", "refetch"}]]
    /\ shown \in 0..MaxPanels
    /\ out \in {"no", "logout", "refetch"}
    /\ owed \in BOOLEAN

\* A lock the user asked for comes off only after the server has accepted
\* credentials given since, by the late answer to a panel the user had left
\* for another account, or by a visit of /onboarding, which resets the lock
\* store and asks for nothing: no other timer of an earlier unlock, no
\* reload and no other change of page takes it away, and the lock a later
\* sign-in page sets stays as long.
RequestedLockHolds ==
    [][owed /\ ui.locked /\ ~ui'.locked =>
          \/ ui'.page = "/onboarding"
          \/ \E s \in PanelSlot : panels[s].left /\ panels[s].timer /\ ~panels'[s].timer]_sessionVars

SessionQuiet == ~ui.asking /\ out = "no" /\ \A s \in PanelSlot : panels[s].call = "none"

\* After a sign-out the server has carried out, no page is shown from the
\* answers still cached, by the back button for one; the only exception is a
\* sign-out that overtook a fetch of the session while no page showed it.
SignedOutShowsNothing ==
    cookie = Nobody /\ SessionQuiet => ~Content(ui) \/ ui.overtaken

\* While a page can be used and nothing is under way, the account the
\* stores name is that of the live session; the only exception is a login
\* accepted while an answer to the session query asked before was under way.
ShownUserIsSessions ==
    Usable(ui) /\ SessionQuiet /\ cookie \in User => ui.user = cookie \/ ui.overtaken

\* What the pages show is of the session there is: nothing after a sign-out,
\* the account of the live session otherwise.
PagesAreOfTheSession == SignedOutShowsNothing /\ ShownUserIsSessions

=============================================================================
