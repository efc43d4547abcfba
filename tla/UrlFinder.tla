----------------------------- MODULE UrlFinder -----------------------------
(***************************************************************************)
(* get_latest_bedrock_url.py of from-ai/minecraft: two browsers, one after *)
(* the other, open the download page of a server and look for the URL of   *)
(* its archive, in the responses of the network and in the page.           *)
(*                                                                         *)
(* Playwright is external.  It runs the handlers of responses while the    *)
(* program is in one of its calls; a handler that asks for the text of its *)
(* response waits for it, and goes on during that call or a later one.     *)
(* Every call may raise: the browser or its page may crash.  That          *)
(* wait_for_selector and get_attribute give up waiting for the link is a   *)
(* TimeoutError, which the program only catches of the first.              *)
(***************************************************************************)
EXTENDS Integers, Sequences

CONSTANT Responses      \* of the page of a browser, those with the URL in their text

Browsers == 1 .. 2      \* chromium, firefox

VARIABLES
    pc,                 \* the call that the program is in
    browser,
    link,               \* whether the page shows the link by now
    handler,            \* of each response
    found_url,          \* where the URLs come from: responses, or the page
    attempts,           \* history: the call of each browser that raised, and what it had found
    url                 \* what is returned, by its origin

vars == <<pc, browser, link, handler, found_url, attempts, url>>

Nothing == "nothing"
Page == "page"
NoError == "none"

TypeOK ==
    /\ pc \in {"launch", "goto", "selector", "attribute", "close", "done"}
    /\ \A i \in 1 .. Len(attempts) :
         attempts[i].raised \in {NoError, "launch", "goto", "selector", "attribute", "close"}
    /\ browser \in Browsers /\ link \in BOOLEAN
    /\ handler \in [Responses -> {"none", "text", "done"}]
    /\ found_url \in Seq(Responses \union {Page})
    /\ url \in Responses \union {Page, Nothing}

Init ==
    /\ pc = "launch" /\ browser = 1 /\ url = Nothing
    /\ link = FALSE /\ handler = [r \in Responses |-> "none"] /\ found_url = <<>>
    /\ attempts = <<>>

-----------------------------------------------------------------------------
\* What becomes of a browser, with the call of it that raised.
Ended(call) == attempts' = Append(attempts, [raised |-> call, found |-> found_url])

\* A call raises, whatever has been found, and get_linux_download_url catches it: the next
\* browser, with a page of its own.
NextBrowser(call) ==
    /\ Ended(call)
    /\ IF browser = 2
         THEN pc' = "done" /\ UNCHANGED <<browser, link, handler, found_url>>
         ELSE /\ pc' = "launch" /\ browser' = browser + 1
              /\ link' = FALSE /\ handler' = [r \in Responses |-> "none"] /\ found_url' = <<>>
    /\ UNCHANGED url

\* A step of the program when its call has returned.
Goes(step) == pc' = step /\ UNCHANGED <<browser, link, handler, attempts, url>>

Launch ==
    /\ pc = "launch"
    /\ \/ Goes("goto") /\ UNCHANGED found_url
       \/ NextBrowser("launch")

\* The error of goto is caught in try_browser, to the same end.
Goto ==
    /\ pc = "goto"
    /\ \/ Goes(IF found_url = <<>> THEN "selector" ELSE "close") /\ UNCHANGED found_url
       \/ NextBrowser("goto")

\* wait_for_selector sees the link, or times out; or there is another error.
Selector ==
    /\ pc = "selector"
    /\ \/ Goes(IF found_url = <<>> THEN "attribute" ELSE "close") /\ UNCHANGED found_url
       \/ NextBrowser("selector")

\* The selector matches only a link with an address, so what get_attribute returns is one.
\* When no link appears it raises: the search in the whole page that follows (l. 96-100)
\* is never reached.
Attribute ==
    /\ pc = "attribute"
    /\ \/ link /\ Goes("close") /\ found_url' = Append(found_url, Page)
       \/ NextBrowser("attribute")

\* Slip: the last URL that came is returned.
CloseWithLast ==
    /\ pc = "close"
    /\ \/ Ended(NoError) /\ pc' = "done" /\ url' = found_url[Len(found_url)]
          /\ UNCHANGED <<browser, link, handler, found_url>>
       \/ NextBrowser("close")

\* browser.close() comes before the return: its error drops the URL too.
Close ==
    /\ pc = "close"
    /\ \/ Ended(NoError) /\ pc' = "done" /\ url' = Head(found_url)
          /\ UNCHANGED <<browser, link, handler, found_url>>
       \/ NextBrowser("close")

Program == Launch \/ Goto \/ Selector \/ Attribute \/ Close

-----------------------------------------------------------------------------
InCall == pc \in {"goto", "selector", "attribute", "close"}

\* on_response looks at found_url, and then waits for the text.
OnResponse(r) ==
    /\ InCall /\ handler[r] = "none"
    /\ handler' = [handler EXCEPT ![r] = IF found_url = <<>> THEN "text" ELSE "done"]
    /\ UNCHANGED <<pc, browser, link, found_url, attempts, url>>

\* The text has come, or an exception that is passed over.
TextComes(r) ==
    /\ InCall /\ handler[r] = "text"
    /\ handler' = [handler EXCEPT ![r] = "done"]
    /\ found_url' \in {found_url, Append(found_url, r)}
    /\ UNCHANGED <<pc, browser, link, attempts, url>>

LinkAppears ==
    /\ pc \in {"selector", "attribute"} /\ ~link
    /\ link' = TRUE
    /\ UNCHANGED <<pc, browser, handler, found_url, attempts, url>>

Next == Program \/ LinkAppears \/ \E r \in Responses : OnResponse(r) \/ TextComes(r)

Spec == Init /\ [][Next]_vars
FairSpec == Spec /\ WF_vars(Program)      \* every call ends, by its timeout at the latest

-----------------------------------------------------------------------------
\* A browser that nothing is wrong with returns a URL, the first that came to it, and is the
\* last: whoever was tried before it, and both when nothing is returned, had a call that
\* raised, whatever the handlers were waiting for.
FoundIsReturned == pc = "done" =>
    /\ \A i \in 1 .. Len(attempts) - 1 : attempts[i].raised # NoError
    /\ LET last == attempts[Len(attempts)] IN
       IF url = Nothing THEN Len(attempts) = 2 /\ last.raised # NoError
       ELSE last.raised = NoError /\ url = Head(last.found)

\* The program ends with that.
FinderEnds == <>(pc = "done" /\ FoundIsReturned)
=============================================================================
