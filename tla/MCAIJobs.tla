------------------------------ MODULE MCAIJobs ------------------------------
(* Model-checking instance of AIJobs: two uvicorn processes consume the    *)
(* OCR list (the production image runs two), one the ranking list.  The    *)
(* later payloads carry the id of the first one's row.                     *)
EXTENDS AIJobs, TLC

CONSTANTS j1, j2, j3, w1, w2, w3
JobKinds == j1 :> "ocr" @@ j2 :> "ocr" @@ j3 :> "ranking"
JobNames == j1 :> NoJob @@ j2 :> j1 @@ j3 :> j1
ConsumerKinds == w1 :> "ocr" @@ w2 :> "ocr" @@ w3 :> "ranking"
=============================================================================
