\* One student in two tabs; statements fail and answers are lost.
CONSTANT Faults = {"statement", "lost"}
SPECIFICATION FairSpec
INVARIANTS TypeOK WizardComplete CompletionIsTrue NoHalfAccounts OnboardedOnce DeadEndByFailure
PROPERTIES EveryStudentGetsThrough DeadEndIsFinal
