------------------------------ MODULE LexStream ------------------------------
(***************************************************************************)
(* What the lexer promises the parser, without its buffering: the tokens   *)
(* of a text that arrives in pieces are the tokens of the text, however it *)
(* is cut.  Each character that has arrived is taken once, in order; no    *)
(* character is kept for a second reading.                                 *)
(***************************************************************************)
EXTENDS YajlScan

CONSTANT Texts     \* the texts a client may feed

VARIABLES
    text,     \* the whole text, fixed from the start
    opts,     \* the lexer's options
    arrived,  \* how much of it the client has fed
    taken,    \* how much of it has been read
    lexeme,   \* the characters of the token being read
    mode,     \* where in the token the scanner is
    toks      \* the tokens handed out

streamVars == <<text, opts, arrived, taken, lexeme, mode, toks>>

\* What is remembered of a token, or of the error that ends the lexing.
Token(t, s) == [tok |-> WithEscapes(t, s), text |-> Unquoted(t, s), error |-> "e_ok"]
Failure(e)  == [tok |-> "error", text |-> <<>>, error |-> e]
Failed(log) == log # <<>> /\ log[Len(log)].tok = "error"

Init ==
    /\ text \in Texts /\ opts \in LexOptions
    /\ arrived = 0 /\ taken = 0
    /\ lexeme = <<>> /\ mode = "start" /\ toks = <<>>

\* The client feeds some more of the text.
Arrive ==
    /\ arrived' \in arrived..Len(text)
    /\ UNCHANGED <<text, opts, taken, lexeme, mode, toks>>

Ready == taken < arrived /\ ~Failed(toks)
c == text[taken + 1]
Result == Scan(mode, c, opts)

TakeWhite ==
    /\ Ready /\ mode = "start" /\ c \in White
    /\ taken' = taken + 1
    /\ UNCHANGED <<text, opts, arrived, lexeme, mode, toks>>

InToken == Ready /\ ~(mode = "start" /\ c \in White)

TakeMore ==
    /\ InToken /\ Result.tok = "none"
    /\ taken' = taken + 1
    /\ lexeme' = Append(lexeme, c)
    /\ mode' = Result.mode
    /\ UNCHANGED <<text, opts, arrived, toks>>

\* A comment is over, or a token: its lexeme is forgotten.
Restart ==
    /\ lexeme' = <<>> /\ mode' = "start"
    /\ taken' = IF Result.back THEN taken ELSE taken + 1
    /\ UNCHANGED <<text, opts, arrived>>

TakeComment ==
    /\ InToken /\ Result.tok = "comment"
    /\ Restart
    /\ UNCHANGED toks

TakeToken ==
    /\ InToken /\ Result.tok \notin {"none", "comment"}
    /\ Restart
    /\ toks' = Append(toks, IF Result.tok = "error"
                            THEN Failure(Result.error)
                            ELSE Token(Result.tok, IF Result.back
                                                   THEN lexeme
                                                   ELSE Append(lexeme, c)))

Next == Arrive \/ TakeWhite \/ TakeMore \/ TakeComment \/ TakeToken

Spec == Init /\ [][Next]_streamVars
=============================================================================
