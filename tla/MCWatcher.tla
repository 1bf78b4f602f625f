----------------------------- MODULE MCWatcher -----------------------------
EXTENDS Watcher

MCEvents == {[type |-> "final", pid |-> 2], [type |-> "quorum", pid |-> 1]}
MCSubs == {"alice"}
MCWants == [alice |-> TrackedTopics]
MCOnly == [alice |-> 2]
MCOwn == [alice |-> {"email"}]
MCEnvChannels == {"slack"}
=============================================================================
