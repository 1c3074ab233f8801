----------------------------- MODULE MCDelivery -----------------------------
(* Instances of Delivery for TLC: chats with oneself, of two and of three  *)
(* members; messages with up to two attachments, or three of few kinds.    *)
EXTENDS Delivery

CONSTANTS ann, bob, eve

MCUsers == {ann, bob, eve}
MCChats == {<<ann>>, <<bob>>, <<ann, bob>>, <<eve, bob, ann>>}

Lists == {<<>>, <<"drive", "drive">>, <<"hosted", "drive", "unknown">>,
          <<"reference", "reference">>, <<"snippet", "card">>}
         \cup {<<a, "hosted">> : a \in Kinds}
Images == {<<"card", "hosted">>, <<"hosted", "hosted", "hosted">>}

MCMessages ==
    [author : {ann}, text : BOOLEAN, subject : BOOLEAN, images : {0}, attachments : Lists]
    \cup [author : {ann}, text : {FALSE}, subject : BOOLEAN, images : {1},
          attachments : Images]
=============================================================================
