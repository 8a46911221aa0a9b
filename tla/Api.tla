-------------------------------- MODULE Api --------------------------------
(***************************************************************************)
(* The API as a page that polls it sees it: within reach of the browser or *)
(* not.  A failure of any kind reaches the pages as null, since an error   *)
(* page of the API carries no CORS header and one of the proxy no JSON.    *)
(***************************************************************************)
EXTENDS Browser

VARIABLE reachable      \* the browser reaches the API

ApiInit == reachable = TRUE

ApiNext == reachable' = ~ reachable

ApiTypeOK == reachable \in BOOLEAN
=============================================================================
