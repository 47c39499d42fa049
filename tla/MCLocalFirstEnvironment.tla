------------------------ MODULE MCLocalFirstEnvironment ------------------------
(* The packages the environment is checked with: every distance, in awaits, that   *)
(* it tolerates between a request and what follows it.                             *)
EXTENDS LocalFirstEnvironment

CONSTANTS StartHops,   \* awaits between the end of a request and the next request
          NotifyHops,  \* awaits between the end of the last request and a notification
          PostHops,    \* awaits between the end of replace and its message
          LatePost     \* awaits between the end of patch and its message, which the relay awaits

Hops(n) == [i \in 1..n |-> "hop"]
Stores == {<<"hop", "idb", "hop", "idb", "hop", "resolve">>}

\* Open, read, notify: with an early notification, or none at all.
Loads(states) ==
  {Hops(a) \o <<"idb">> \o Hops(b) \o <<"idb">> \o Hops(c) \o told :
     a \in 0..1, b \in 0..StartHops, c \in {0, 1, NotifyHops - 1, NotifyHops},
     told \in {<<s>> : s \in states} \cup {<<s, "notify">> : s \in states}}
  \cup {<<"notify", "idb">> \o Hops(c) \o <<s, "notify">> : c \in 0..NotifyHops, s \in states}
  \cup {Hops(1) \o <<s, "notify">> : s \in states}

Replaces == {<<"idb", "hop", "idb", "hop", "resolve">> \o Hops(h) \o <<"post">> : h \in {0, 1, PostHops - 1, PostHops}}
            \cup {<<"idb", "post", "resolve">>}
Patches == {<<"idb", "hop">> \o told \o posted :
              told \in {<<>>, <<"notify">>, <<"notify", "hop", "notify">>},
              posted \in {<<"resolve">>, <<"post", "hop", "resolve">>,
                          <<"resolve", "hop", "hop", "post">>, <<"post", "resolve", "hop", "post">>,
                          <<"resolve">> \o Hops(LatePost) \o <<"post">>}}
\* The handler filters its own message, or loads the model again and notifies, with
\* or without the environment waiting for it.
Handlers == {<<"return">>, <<"hop", "return">>}
  \cup {<<"return">> \o Hops(a) \o <<"idb">> \o Hops(b) \o <<"idb">> \o Hops(c) \o <<"right", "notify">> :
          a \in {0, 3}, b \in {0, StartHops}, c \in 0..NotifyHops}
  \cup {<<"idb">> \o Hops(c) \o <<"right", "notify", "return">> : c \in {0, NotifyHops}}

Script(setup, subscribe, patch, receive) ==
  [t \in Tasks |-> CASE t = "setup" -> setup [] t = "subscribe" -> subscribe
                     [] t = "patch" -> patch [] t = "receive" -> receive]

MCProducts ==
  {[row |-> "history", channels |-> 1, script |-> Script(s, l, <<>>, <<>>)] :
     s \in Stores, l \in Loads({"right", "wrong"})}
  \cup {[row |-> "error", channels |-> 1, script |-> Script(s, l, <<>>, <<>>)] :
     s \in Stores, l \in Loads({"error"})}
  \cup {[row |-> "broadcast", channels |-> 1, script |-> Script(s, <<>>, p, h)] :
     s \in Replaces, p \in Patches, h \in Handlers}
  \cup {[row |-> "broadcast", channels |-> 0, script |-> Script(s, <<>>, p, <<>>)] :
     s \in Replaces, p \in Patches}

=============================================================================
