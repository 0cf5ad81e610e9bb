------------------------- MODULE MCRabbitMqChannel -------------------------
EXTENDS RabbitMqChannel

\* Two deliveries where messages are consumed, one where they are only got.
MCMaxTag == [c \in Channels |-> IF c \in Consuming THEN 2 ELSE 1]

=============================================================================
