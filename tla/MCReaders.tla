----------------------------- MODULE MCReaders -----------------------------
(***************************************************************************)
(* The readers of the board, one at a time: the state spaces of six        *)
(* modules side by side.  Readers meet in the messages only, and each      *)
(* module has others post what they like when they like.                   *)
(***************************************************************************)
EXTENDS ClassicPage, HomePage, Watcher, Responder, Scanner, Tools

VARIABLE reader

vars == <<messages, pageVars, watcherVars, responderVars, scannerVars, toolsVars, reader>>

Init ==
    /\ reader \in {"classic", "home", "watcher", "responder", "scanner", "tools"}
    /\ BoardInit /\ PageInit /\ WatcherInit /\ ResponderInit /\ ScannerInit /\ ToolsInit

Next ==
    /\ UNCHANGED reader
    /\ \/ reader = "classic"   /\ ClassicNext
          /\ UNCHANGED <<watcherVars, responderVars, scannerVars, toolsVars>>
       \/ reader = "home"      /\ HomeNext
          /\ UNCHANGED <<watcherVars, responderVars, scannerVars, toolsVars>>
       \/ reader = "watcher"   /\ WatcherNext
          /\ UNCHANGED <<pageVars, responderVars, scannerVars, toolsVars>>
       \/ reader = "responder" /\ ResponderNext
          /\ UNCHANGED <<messages, pageVars, watcherVars, scannerVars, toolsVars>>
       \/ reader = "scanner"   /\ ScannerNext
          /\ UNCHANGED <<pageVars, watcherVars, responderVars, toolsVars>>
       \/ reader = "tools"     /\ ToolsNext
          /\ UNCHANGED <<pageVars, watcherVars, responderVars, scannerVars>>

Spec == Init /\ [][Next]_vars

\* Bound: one message in a project of others is enough for a page.
FewElsewhere ==
    reader \in {"classic", "home"} =>
        Cardinality({i \in DOMAIN messages : messages[i].group \notin Mine}) <= 1

TypeOK == /\ BoardTypeOK /\ PageTypeOK /\ WatcherTypeOK
          /\ ResponderTypeOK /\ ScannerTypeOK /\ ToolsTypeOK

(* public/app.js: on the thread shown, each message below the last one is    *)
(* there too, unless it was stored or told after a later one; or its         *)
(* backfill failed or was full; or it lies below one that came, after the    *)
(* thread was opened anew, on an answer or a socket from before: choosing    *)
(* the open project once more clears the cursor and leaves the socket        *)
(* (public/app.js:308-333, 383-419, 535-607).                                *)
ClassicThreadWhole == reader = "classic" => HolesExcused

(* public/home.js: the same, where the reasons are: stored or told after a   *)
(* later one; behind the history's one page, or told between its query and   *)
(* the socket's entry to the room; told before an own post that was answered *)
(* first; or below one that came on an answer or a socket from before the    *)
(* thread was shown, which the page does not tell from its own               *)
(* (public/home.js:83-115, 197-205, 418-426, 498-530).                       *)
HomeThreadWhole == reader = "home" => HolesExcused

=============================================================================
