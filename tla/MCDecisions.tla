---------------------------- MODULE MCDecisions ----------------------------
(* Decisions on sample headers, replies and bytes.                           *)
EXTENDS Decisions

SampleNames == {"host", "authorization", "accept-encoding"}
Plain == [status |-> 200, to |-> "nowhere",
          lines |-> << <<"set-cookie", "a">>, <<"etag", "b">>, <<"set-cookie", "b">> >>]
Found == [status |-> 302, to |-> "app", lines |-> << <<"set-cookie", "a">> >>]
Repeat == [status |-> 307, to |-> "app", lines |-> <<>>]
Moved == [status |-> 302, to |-> "elsewhere", lines |-> <<>>]
NotModified == [status |-> 302, to |-> "nowhere", lines |-> <<>>]
Refusal == [status |-> 400, to |-> "nowhere", lines |-> <<>>]
Upstream == [status |-> 504, to |-> "app", lines |-> <<>>]
SampleReplies == {Plain, Found, Repeat, Moved, NotModified, Refusal, Upstream}

\* A byte that is no type, and the first, two neighbours and the last that are.
SampleBytes == {0, 1, 32, 33, 64}
=============================================================================
