-------------------------- MODULE MCTopicConsumers --------------------------
EXTENDS TopicConsumers
=============================================================================
