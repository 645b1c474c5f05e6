------------------------------ MODULE SipfUrl -------------------------------
(***************************************************************************)
(* SipfClientHttpParseURL, lib/sipf/src/sipf_client_http.c: one pass over   *)
(* the first n characters of a buffer, n the length of the response, that   *)
(* writes a NUL over each delimiter; the three strings end at the next NUL. *)
(***************************************************************************)
EXTENDS Integers, Sequences, FiniteSetsExt

(* What each state of url_delim waits for.                                  *)
Delimiters == <<":", "/", "/", "/", "newline">>

(* How many delimiters the pass has met after i characters.                 *)
Met(url, n) ==
    LET met[i \in 0 .. n] ==
            IF i = 0 THEN 0
            ELSE LET s == met[i - 1]
                 IN  IF s < Len(Delimiters) /\ url[i] = Delimiters[s + 1] THEN s + 1 ELSE s
    IN  met

(* The buffer it leaves, cut also when the pass then fails.                 *)
Cut(url, n) ==
    LET met == Met(url, n)
    IN  [i \in DOMAIN url |-> IF i <= n /\ met[i] # met[i - 1] THEN "nul" ELSE url[i]]

CString(buf, at) ==
    SubSeq(buf, at, Min({i \in at .. Len(buf) : buf[i] = "nul"} \cup {Len(buf) + 1}) - 1)

(* The parts, or none when the host or the path was not reached.            *)
ParseURL(url, n) ==
    LET met == Met(url, n)
        cut == Cut(url, n)
        after(s) == (CHOOSE i \in 1 .. n : met[i] = s /\ met[i - 1] = s - 1) + 1
    IN  IF met[n] < 4 THEN {}
        ELSE {[protocol |-> CString(cut, 1), host |-> CString(cut, after(3)),
               path |-> CString(cut, after(4))]}

(* strncpy of n characters over what the buffer held; it adds no NUL.       *)
CopyOver(old, new, n) == SubSeq(new, 1, n) \o SubSeq(old, n + 1, Len(old))
=============================================================================
