-------------------------------- MODULE Branding -------------------------------
(***************************************************************************)
(* The branding of an instance: the editor on the settings page            *)
(* (frontend/public/app/app.js), the handlers of /api/branding             *)
(* (backend/auth/handlers.go) and the store with its file branding.yaml    *)
(* (backend/config/branding.go).                                           *)
(*                                                                         *)
(* A logo is a data URI, of which only the length counts (in KiB), or the  *)
(* URL of an image. The four colours of a branding stand as one: what      *)
(* their inputs hold is chosen when the editor saves. An update changes    *)
(* the branding in memory first and its file next, with the mutex held, so *)
(* that updates follow one another.                                        *)
(***************************************************************************)
EXTENDS Integers

CONSTANTS
  Editors,    \* pages with the settings open
  BrandCalls, \* requests: a bound on how many are under way at a time
  Images,     \* sizes of the files that users pick
  Colors      \* what the colour inputs may hold

MaxBody == 1024     \* maxJSONBodyBytes
MaxLogo == 2048     \* "max 2 Mo", for the picked file and for the data URI

\* What waits for a request when its page has given up or is gone; and for none.
NoPage == "nobody"

ASSUME BrandAssumption ==
  /\ NoPage \notin Editors
  /\ Images \subseteq Nat
  /\ Colors \subseteq {"default", "custom", "empty", "malformed"}

\* The length of the data URI of a file of n KiB: base64.
DataURI(n) == [kind |-> "data", size |-> 4 * ((n + 2) \div 3)]
URL    == [kind |-> "url", size |-> 0]
NoLogo == [kind |-> "none", size |-> 0]

Brand(b64, url, color) == [b64 |-> b64, url |-> url, color |-> color]
DefaultBrand == Brand(NoLogo, NoLogo, "default")
Reset   == Brand(NoLogo, NoLogo, "reset")     \* the request of resetBranding
Nothing == Brand(NoLogo, NoLogo, "nothing")   \* no file, no request

VARIABLES
  brandUp,        \* the process runs
  brand,          \* BrandingStore.branding
  brandFile,      \* branding.yaml
  brandUpdate,    \* the requests whose update holds the mutex: one or none
  brandClean,     \* history: no update has failed since the last save or load
  editor,         \* the branding part of each page
  brandCall       \* the requests under way

serverVars == <<brandUp, brand, brandFile, brandUpdate, brandClean>>
brandVars == <<serverVars, editor, brandCall>>

\* src: the logo the page shows as the instance's. b64, url: what a save will
\* send.
NewEditor(src) == [src |-> src, b64 |-> NoLogo, url |-> NoLogo]

\* answer: what has been answered to a request ("overtaken": it was saved, and so
\* was another one since). touched (history): the page's logo was changed after
\* the request was sent, by hand or by the answer to a reset.
NewCall(p, body) == [page |-> p, body |-> body, answer |-> "none", touched |-> FALSE]
Idle == NewCall(NoPage, Nothing)

BrandInit ==
  /\ brandUp = TRUE
  /\ brand = DefaultBrand /\ brandFile = Nothing
  /\ brandUpdate = {}
  /\ brandClean = TRUE
  /\ editor = [p \in Editors |-> NewEditor(NoLogo)]
  /\ brandCall = [k \in BrandCalls |-> Idle]

\* EffectiveLogoSrc, and the page's own choice between its two fields.
EffectiveLogo(b) == IF b.b64 # NoLogo THEN b.b64 ELSE b.url

-------------------------------------------------------------------------------
(* The editor.                                                             *)

\* Its page waits for a request no more. It is over if it has been answered, and
\* else may still be served.
Left(call) ==
  IF call.answer = "none" THEN [call EXCEPT !.page = NoPage, !.touched = FALSE] ELSE Idle

\* The page loads and asks for the branding.
LoadBranding(p) ==
  /\ brandUp
  /\ editor' = [editor EXCEPT ![p] = NewEditor(EffectiveLogo(brand))]
  /\ brandCall' = [k \in BrandCalls |->
       IF brandCall[k].page = p THEN Left(brandCall[k]) ELSE brandCall[k]]
  /\ UNCHANGED serverVars

\* The requests, when the logo of page p changes under those it waits for.
Touched(calls, p) ==
  [k \in BrandCalls |->
     IF calls[k].page = p THEN [calls[k] EXCEPT !.touched = TRUE] ELSE calls[k]]

EditLogo(p, b64, url) ==
  /\ editor' = [editor EXCEPT ![p].b64 = b64, ![p].url = url]
  /\ brandCall' = Touched(brandCall, p)
  /\ UNCHANGED serverVars

\* initBrandingEditor: a logo that is a data URI goes into both fields.
OpenSettings(p) ==
  LET src == editor[p].src
  IN  EditLogo(p, IF src.kind = "data" THEN src ELSE NoLogo, src)

setBrandingLogoFromFile(p, n) == n <= MaxLogo /\ EditLogo(p, DataURI(n), NoLogo)

applyBrandingLogoUrl(p) == EditLogo(p, NoLogo, URL)

removeBrandingLogo(p) == EditLogo(p, NoLogo, NoLogo)

Send(k, p, body) ==
  /\ brandCall[k] = Idle
  /\ brandCall' = [brandCall EXCEPT ![k] = NewCall(p, body)]
  /\ UNCHANGED <<serverVars, editor>>

\* A save waits for the page's last one: brandingSaving disables its button. It
\* does not wait for a reset.
saveBranding(k, p, color) ==
  /\ \A other \in BrandCalls : brandCall[other].page = p => brandCall[other].body = Reset
  /\ Send(k, p, Brand(editor[p].b64, editor[p].url, color))

\* A reset waits for nothing: its button is always there.
resetBranding(k, p) == Send(k, p, Reset)

\* What the page will show as the instance's logo: a reset empties the fields,
\* a save leaves them, and reads them when the answer arrives.
LogoAfter(k) ==
  IF brandCall[k].body = Reset THEN NoLogo
  ELSE LET page == editor[brandCall[k].page]
       IN  EffectiveLogo(Brand(page.b64, page.url, "custom"))

ReceiveSaved(k) ==
  LET p     == brandCall[k].page
      rest  == [brandCall EXCEPT ![k] = Idle]
      reset == brandCall[k].body = Reset
  IN  /\ p \in Editors /\ brandCall[k].answer \in {"saved", "overtaken"}
      /\ editor' = [editor EXCEPT ![p] =
           IF reset THEN NewEditor(NoLogo) ELSE [@ EXCEPT !.src = LogoAfter(k)]]
      /\ brandCall' = IF reset THEN Touched(rest, p) ELSE rest
      /\ UNCHANGED serverVars

\* An error, or no answer, and the page only says so.
ReceiveFailure(k) ==
  /\ brandCall[k].page \in Editors
  /\ brandCall' = [brandCall EXCEPT ![k] = Left(brandCall[k])]
  /\ UNCHANGED <<serverVars, editor>>

\* A request nobody waits for is over, or never got to the server.
Forget(k) ==
  /\ brandCall[k].page = NoPage /\ brandCall[k].body # Nothing
  /\ k \notin brandUpdate
  /\ brandCall' = [brandCall EXCEPT ![k] = Idle]
  /\ UNCHANGED <<serverVars, editor>>

-------------------------------------------------------------------------------
(* The server.                                                             *)

\* decodeJSON reads no more than MaxBody; validateBranding.
Decodes(b) == b.b64.size + b.url.size <= MaxBody
Valid(b) == b.b64.size <= MaxLogo /\ b.url.kind # "data" /\ b.color # "malformed"

\* Mistake: the URL is forgotten.
StoredWithoutURL(b) == Brand(b.b64, NoLogo, IF b.color = "custom" THEN "custom" ELSE "default")

\* What Update stores: an empty colour is the default one.
Stored(b) == Brand(b.b64, b.url, IF b.color = "custom" THEN "custom" ELSE "default")

\* UpdateBranding and ResetBranding: the update gets the mutex and changes the
\* branding, or is refused.
ServeUpdate(k) ==
  /\ brandUp /\ brandUpdate = {}
  /\ brandCall[k].body # Nothing /\ brandCall[k].answer = "none"
  /\ IF Decodes(brandCall[k].body) /\ Valid(brandCall[k].body)
       THEN /\ brand' = Stored(brandCall[k].body)
            /\ brandUpdate' = {k}
            /\ UNCHANGED brandCall
       ELSE /\ brandCall' = [brandCall EXCEPT ![k].answer = "failed"]
            /\ UNCHANGED <<brand, brandUpdate>>
  /\ UNCHANGED <<brandUp, brandFile, brandClean, editor>>

\* The update is answered as saved, which earlier ones now are overtaken by.
SavedBy(k) ==
  [other \in BrandCalls |->
     [brandCall[other] EXCEPT !.answer =
        IF other = k THEN "saved" ELSE IF @ = "saved" THEN "overtaken" ELSE @]]

\* Mistake: an error of the rename is ignored.
SaveBrandIgnored(k) ==
  /\ k \in brandUpdate
  /\ brandFile' \in {brand, brandFile}
  /\ brandUpdate' = {}
  /\ brandClean' = TRUE
  /\ brandCall' = SavedBy(k)
  /\ UNCHANGED <<brandUp, brand, editor>>

\* The rename of the temporary file.
SaveBrand(k) ==
  /\ k \in brandUpdate
  /\ brandFile' = brand
  /\ brandUpdate' = {}
  /\ brandClean' = TRUE
  /\ brandCall' = SavedBy(k)
  /\ UNCHANGED <<brandUp, brand, editor>>

\* The directory, the temporary file, its write or the rename fails.
SaveBrandFails(k) ==
  /\ k \in brandUpdate
  /\ brandUpdate' = {}
  /\ brandClean' = FALSE
  /\ brandCall' = [brandCall EXCEPT ![k].answer = "failed"]
  /\ UNCHANGED <<brandUp, brand, brandFile, editor>>

\* The process dies, with the update it was at.
BrandCrash ==
  /\ brandUp
  /\ brandUp' = FALSE
  /\ brandUpdate' = {}
  /\ brandCall' = [k \in BrandCalls |->
       IF k \in brandUpdate THEN [brandCall[k] EXCEPT !.answer = "failed"] ELSE brandCall[k]]
  /\ UNCHANGED <<brand, brandFile, brandClean, editor>>

\* NewBrandingStore: load.
BrandStart ==
  /\ ~brandUp
  /\ brandUp' = TRUE
  /\ brand' = IF brandFile = Nothing THEN DefaultBrand ELSE brandFile
  /\ brandClean' = TRUE
  /\ UNCHANGED <<brandFile, brandUpdate, editor, brandCall>>

EditorStep(p) ==
  \/ LoadBranding(p)
  \/ OpenSettings(p)
  \/ \E n \in Images : setBrandingLogoFromFile(p, n)
  \/ applyBrandingLogoUrl(p)
  \/ removeBrandingLogo(p)
  \/ \E k \in BrandCalls :
       resetBranding(k, p) \/ \E color \in Colors : saveBranding(k, p, color)

CallStep(k) ==
  \/ ReceiveSaved(k) \/ ReceiveFailure(k) \/ Forget(k)
  \/ ServeUpdate(k) \/ SaveBrand(k) \/ SaveBrandFails(k)

BrandNext ==
  \/ BrandCrash
  \/ BrandStart
  \/ \E p \in Editors : EditorStep(p)
  \/ \E k \in BrandCalls : CallStep(k)

BrandSpec == BrandInit /\ [][BrandNext]_brandVars

-------------------------------------------------------------------------------
(* Correctness.                                                            *)

\* As long as no update has failed since the last save or start, the branding
\* that visitors get is the one a restart would bring back.
BrandingSurvivesRestart ==
  brandUp /\ brandUpdate = {} /\ brandClean =>
    brand = IF brandFile = Nothing THEN DefaultBrand ELSE brandFile

\* When a page is told that its save or its reset is done, the logo it goes on to
\* show is the one in the file, whatever overlapped, failed, crashed or was
\* refused since; unless a later update was saved, or the page's own fields
\* changed after a save was sent, by hand or by the answer to a reset. (A reset
\* that is served before a save and answered first makes the page show no logo
\* and say "Branding saved." while the file holds one.)
SavedLogoIsShown ==
  \A k \in BrandCalls :
    brandCall[k].page \in Editors /\ brandCall[k].answer = "saved"
        /\ ~brandCall[k].touched =>
      LogoAfter(k) = EffectiveLogo(brandFile)
===============================================================================
