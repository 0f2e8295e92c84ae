----------------------------- MODULE MCApiCall ------------------------------
(* Two processes on one environment for TLC.                               *)
EXTENDS ApiCall

MCSecrets == [access : 1 .. MaxTokens, refresh : 0 .. MaxTokens]

(* The bundle of the login needs two blobs, the first that replaces it     *)
(* three, the one after that two again; without a refresh token one does.  *)
MCSize(v) == IF v.refresh = 0 THEN 1 ELSE IF v.access = 2 THEN 3 ELSE 2

MCKinds(p) ==
    IF p = "server" THEN {"read", "POST"} ELSE {"read", "write", "single", "PUT"}
=============================================================================
